# Verification of the authentication service

TLA+ models of the two programs of this repository that keep state: the NestJS
service in `authentication/` and the use cases of the Spring skeleton in
`backend-auth/`. TLC checks every module on a small instance; TLAPS proves, for
every value of the constants, every safety property the runs check: the
invariants, the step properties and the three refinements.

- [The system](#the-system)
- [How the code is modelled](#how-the-code-is-modelled)
- [The modules](#the-modules)
- [The runs](#the-runs)
- [What is proved](#what-is-proved)
- [Where documentation and code differ](#where-documentation-and-code-differ)
- [What is not modelled](#what-is-not-modelled)
- [The plan](#the-plan)

Paths are relative to the root of the repository. `auth.service.ts` is
`authentication/src/modules/auth/auth.service.ts`, and so on.

## The system

`authentication/` is one Node process (or several behind a balancer), PostgreSQL
or MySQL through TypeORM, and a `KeyValueStore` that is a `Map` in the process
or Redis (`ON_REDIS`). **No handler runs in a database transaction**; the only
one in the service is `RbacRepository.deleteRole`. So every `await` of every
handler is a point at which another request, of this process or of another, may
run, at which the call may fail, and after which the process may be gone. That
is what is hard about this code, and what its unit tests, which mock the
repositories and await one call after the other, cannot reach.

| Component | State | Operations | Talks to |
|---|---|---|---|
| Sessions and tokens (`auth.service.ts`, `token/`, `session.repository.ts`, `refresh-token.repository.ts`) | `sessions`, `refresh_tokens`, deny-list `revoked-session:<id>`, the JWTs clients hold | issue, refresh (rotation, reuse detection), sign-out, revoke one, sign-out of all, `JwtStrategy.validate` | called by every sign-in; key-value store |
| Password sign-in (`signIn`, `changePassword`, `password-credential.repository.ts`, `password-hasher.service.ts`) | `password_credentials`: hash, algorithm, failures, lock | sign-in, failure count, lock, reset, rehash, change | sessions, MFA |
| Verification (`verification.service.ts`, `verification-token.repository.ts`) | `verification_tokens`: attempts, consumed, expiry | send and verify: OTP, magic link, e-mail verification | mail; accounts |
| TOTP and recovery codes (`mfa.service.ts`, `mfa.repository.ts`) | `mfa_factors`, `mfa_recovery_codes` | setup, verify (and enrol), sign-in check, disable, recover | password sign-in |
| Roles and permissions (`rbac.service.ts`, `rbac-bootstrap.service.ts`, `rbac.repository.ts`) | `roles`, `memberships`, `membership_roles`, `permissions`, `role_permissions`, cache `rbac:access:<user>` | access lookup, assign, revoke, create/delete role, grant/revoke permission, bootstrap | key-value store; every token is signed with an access |
| Permission checks (`jwt.strategy.ts`, `roles.guard.ts`, `permissions.guard.ts`) | the claims in the JWTs clients hold | validate, require a role, require permissions | the tokens carry the access `Rbac` answered when they were signed |
| Accounts and identities (`signUp`, `signIn`, `verifyOtp`, `verifyMagicLink`, `linkIdentity`, `verifyEmailToken`, `oauth.service.ts`) | `users`, `user_emails`, `identities`, `auth_providers`, `oauth_tokens`, `devices` | seven ways to create, find or link an account | all of the above |
| Passkeys (`passkey.service.ts`) | `webauthn:challenge:<c>`, `passkey_credentials` | registration and authentication, two calls each | key-value store, sessions |
| OAuth state (`oauth-state.store.ts`) | `oauth:state:<token>`, one cookie per provider and browser | store, verify | passport, browsers |
| Rate limiter (`redis-throttler.storage.ts`) | a sorted set and a block key per client | `increment`: MULTI, SET NX, PTTL | Redis, shared by all instances |
| Java use cases (`AuthUseCases.java`, `User.java`) | the aggregate `User` | register, verify, login | ports without adapters |
| Controllers, DTOs, filters, mail, health, hashing, configuration | none, or fixed at start-up | | |

What makes each component correct, and what is hard about it, is the list of
hazards in `PROJECT.json`, each at its line with the properties aimed at it. In
short:

- *Sessions*: after a sign-out has answered nothing of the session works any
  more; rotation never leaves a token redeemable next to its replacement;
  reuse detection accuses nobody without cause; a revoked session stays dead
  once the requests that were already under way have ended.
- *Password sign-in*: the threshold locks, a lock is passed or lifted early only
  by requests that had read the row before, and a replaced password opens
  nothing, though sign-ins verified against the old one are still running and a
  rehash writes what it read.
- *Verification*: whoever takes a code to its limit of attempts retires it, a
  used, retired, expired or exhausted code is never accepted by a verification
  that comes after, and a code is not lost without reason.
- *MFA*: an enabled factor has recovery codes; codes are replaced and spent
  once; an enabled secret is not overwritten.
- *Roles*: the cache is stale, rows are duplicated or orphaned and the last
  administrator is lost only in the overlaps that the properties name.
- *Permission checks*: what was taken away opens no route once every call, cache
  entry and token that may have seen it has ended, and by then what was given
  has arrived, however changes, loads, refreshes and restarts interleave.
- *Accounts*: answered accounts are complete, identities follow what was proven
  or what a signed-in user has linked, unique columns are met only when calls
  overlap, break off or meet a linked identity.
- *One-use tokens* (challenges, OAuth states): used again only by calls that
  overlap; the right browser is accepted, the wrong one refused.
- *Rate limiter*: of the requests that are counted in the tick of their clock
  reading, and under which no block lapses, at most `limit` pass in a window; and
  nobody is refused before some request was over the limit (after that, anybody
  may be while a block lives), though transactions overtake each other and are
  sent again.

## How the code is modelled

- **One action per awaited call.** A handler is a process: `pc[r]` says which
  call request `r` awaits, `req[r]` holds what it has read so far. What the code
  computes between two awaits is one step. Branches of a `Promise.all` are
  actions in any order; in `Accounts`, which has the most of them, `at[r]` is the
  set of awaited calls under way, `stage[r]` how far the whole call is, a
  rejection is the answer and the other branches go on (as they do in Node).
- **Names.** Where two components are proved about in one module, the names of
  the second are its own: `Accounts` has `Calls`, `stage`, `call`, `MayAsk`,
  `Begin`, `AwaitFails` and `Absent` for `Requests`, `pc`, `req`, `MayCall`,
  `Arrive`, `CallFails` and `None`, `AuthUseCases` has `Runs` and `run`, and the
  specifications are called `AccountsSpec`, `PasskeySpec`, `ThrottlerSpec`,
  `UseCaseSpec`.
- **A request is served once and names the rows it inserts**, as fresh uuids do.
  `MayCall[r]` says which handlers it may be for, so that a run can spend its
  requests on the overlaps it is about. A handler that is tried again is another
  request.
- **Failures.** `CallFails(r)` ends any handler at any awaited call: a database
  error, a timeout, the death of the process. In `Throttler` a call that Redis ran
  may also stay unanswered and be sent again (`Unanswered`). In `Sessions` the restart also
  empties the in-memory deny-list, unless `SharedStore`, and the history
  `forgotten` keeps the sessions whose mark was lost; in `Access` it empties the
  cache and ends every call.
- **Reads that are used later** (the session of a refresh, the credential of a
  sign-in, the row of a code, the access about to be cached, the Java aggregate)
  are kept in `req[r]` as they were read. This is where the interesting
  behaviour comes from.
- **Queries without ORDER BY** return any matching row, a `\E` in the model.
- **Data are abstract.** A password hash is the password it belongs to, a code or
  token is its row, a TOTP code is the secret it was computed from, a signature
  is the record of what was signed, a role is one of three kinds of name.
- **One setting, two readers.** `JWT_EXPIRES_IN` goes to `jsonwebtoken` as it is
  written and to `parseDurationToSeconds`, which knows `15m` and its like and
  takes 900 seconds for everything else. `Sessions` has both results: `AccessTtl`
  is the life of a token, `MarkTtl` that of a deny mark, the same if `PlainTtl` and
  `FallbackTtl` otherwise.
- **Time** is a counter that a `Tick` advances at most to `MaxTime`; a lifetime is
  a number of ticks. `Access`, whose calls come back for ever, has no clock but
  the ticks each call has taken and each entry and token has left. Where only "it has expired" matters (OAuth state, access
  cache, challenges) expiry is an action that may happen at any moment.
- **History variables** (`overtaken`, `reached`, `linked`, `seen`, `rivals`, `beside`, `older`, `raced`,
  ...), marked as such where they are declared, exist to state properties: no
  guard reads them.

## The modules

| Module | Models | State against code |
|---|---|---|
| `Sessions` | sessions, rotation, revocation, deny-list | `sessionOwner`/`sessionExpires`/`revoked` are the columns of `sessions`, `tokenParent`, `used`, `tokenRevoked`, ... those of `refresh_tokens`; `denyUntil` is the deny-list; `heldAccess`, `heldRefresh` what clients have; `Accepted` is `JwtStrategy.validate` |
| `SessionIssuance` | abstract: who may add tokens to a session | a session is absent, open or closed; a token needs a grant that was given while it was open; the specification `Sessions` implements |
| `PasswordLogin` | `signIn` from the read of the credential on, `changePassword` | the columns of `password_credentials`; TOTP is a nondeterministic verdict here |
| `Verification` | the sends and verifications of one target | `rows[c]` is the row the send `c` stored, `createdAt` its rank |
| `Mfa` | one user's factors and recovery codes | `factors`, `secret`, `enabled`; one code stands for a batch |
| `Rbac` | roles, permissions, access cache, bootstrap grant | a variable per table, `cache` with the loaded access |
| `Access` | the guards, the cache with its lifetime, signing, and what administrators change | `assigned` and `links` are what the rows of `Rbac` amount to for one user; `cache` is `rbac:access:<user>`, `tokens` the JWTs with the ticks they have left |
| `Accounts` | the seven calls that make accounts, and `signIn` | `holder` is `user_emails` (and `users.username`), `owner` the unique `(provider, subject)` of `identities`. `linkIdentity` takes any code in `Linkable` and any subject, as its DTO does; `linked` remembers the keys it stored. `Residents` are users from before, who can link without having signed up in the model |
| `OneUse` | abstract: a token that is read and deleted in two steps | what `consumeChallenge` and the state store's `verify` have in common |
| `Passkey` | challenges, both ceremonies, the counter | implements `OneUse`; authenticators sign at any time, responses may come twice or late |
| `OAuthState` | state store, cookies, callbacks | implements `OneUse`; `jar[b]` is the one cookie of browser `b` |
| `Throttler` | `increment` for one key | `hits` with their scores, key expiry, the block |
| `AuthUseCases` | register, verify, login over the aggregate | `copy` is the aggregate a use case has in hand |

`MC*` are the instances for TLC, `*Proofs` the proofs. Four of these modules are
about two components each, which share no state: `AccessProofs` (`Access`,
`Throttler`), `LoginProofs` (`PasswordLogin`, `AuthUseCases`),
`VerificationProofs` (`Verification`, `Accounts`) and `OAuthStateProofs`
(`OAuthState`, `Passkey`, the two that implement `OneUse`). Operators called "Mutant"
next to an action are what that action would be with a plausible bug; each
property of each run is listed in `PROJECT.json` with one of them that violates
it.

The components meet in rows and answers, not in calls back and forth, and each
module contains the part of its neighbours it depends on: `PasswordLogin` has
session rows (created, revoked) without tokens, `Sessions` takes a verified user,
`Accounts` ends in an issued session, `Mfa` contains the sign-in that calls
`verifyTotp`. `Access` composes what lies between a change of a role and a route
that opens: rows, cache, signature, token, guard. The composition that is checked
as such is by refinement: `Sessions` implements `SessionIssuance`; `Passkey` and
`OAuthState` implement `OneUse`.

## The runs

All twelve are small enough to be exhausted in well under five minutes. Deadlock
is not an error in any of them: requests are finite and time is bounded, so every
instance but `Access`, which never stops, comes to rest. Symmetry is declared
only for requests with equal `MayCall`, and not in the run with liveness.

| Run | Instance | States | Question |
|---|---|---|---|
| `Sessions` | a sign-in and two requests of any kind; a user who may be deactivated; 2 ticks, tokens live 2, sessions and deny marks 1 (an odd `JWT_EXPIRES_IN`), shared store | 0.23 M | what sign-out, rotation and reuse detection guarantee, with failures and restarts; is every request answered; does `Sessions` implement `SessionIssuance` |
| `PasswordLogin` | four sign-ins or changes, two passwords, lock at 2, stale hash, TOTP | 0.59 M | locking, who gets past a lock, dead passwords |
| `Verification` | two sends, three verifications, limit 2, codes of different life | 0.24 M | what retires a code, what stays dead |
| `Mfa` | a setup and four calls of any kind | 0.18 M | recovery codes and secrets |
| `Rbac` | the creation of a role and three calls of any kind, an administrator and another user | 0.75 M | stale accesses, orphans, duplicates, the last administrator |
| `Access` | two calls that come back for ever; a role, a permission, a route that requires both; calls take at most 1 tick, cache entries and tokens live 2 | 2.56 M | how long what was taken away may open a route, and when tokens say what the database says |
| `Accounts` | three calls of any kind on one address, phone and external account, one resident; `email_otp` and `oauth` can be linked | 2.03 M | complete accounts, identities, conflicts |
| `Passkey` | two challenges, a registration, two completions of either kind, two authenticators | 0.21 M | one-use, counter |
| `OAuthState` | two tabs and another browser, two callbacks | 0.48 M | who is accepted and refused |
| `Throttler` | three requests, limit 1, window and block 2, five ticks; calls that Redis runs and does not answer | 5.25 M | how many of those counted in time pass; is anybody refused before the limit was exceeded |
| `AuthUseCases` | two registrations, tokens and logins, lock at 2 | 1.5 M | what stale saves do, and what holds without them |
| `UseCaseUnverified` | the same, lock at 1 | - | violated on purpose, see below |

**Why the bounds are enough.** Each property is about two handlers that overlap,
or three where a third is needed to prepare or to observe; the number of requests
gives every property one more than the shortest scenario that violates it under
its mutant. Limits (failures, attempts, hits) are 1 or 2: one below, one at, and
what comes after. Lifetimes differ by one tick where the code compares two of
them (access token against deny mark, OTP against link, lock against clock), and
`MaxTime` leaves a tick after the longest. In `Sessions` the mark is the shorter of
the two, which is the case that distinguishes them: a signed-out token is rejected
for one tick and, for one more, held and accepted again. The equal lifetimes are
the theorem `SignedOutIsForGood`. `Accounts` has the codes `email_otp` and `oauth`
to link, both of the default `AUTH_ENABLED_METHODS`, since what it does to the other
mailed codes and to the phone is the same; `local`, which only `*` or a setting of its
own enables, passes too (2.7 M states), as do all five codes, and the theorems are about any set of
codes. One resident suffices: linking is about an owner who is somebody else. All
actions fire in the passing runs
between them.

`Access` needs no bound on the clock. That a call takes at most `Latency` is an
assumption of the model; without it the code promises nothing, since a load that
hangs may be cached and signed at any later time. The two bounds the properties
state are tight: with one tick less TLC finds a counterexample of either. The
instance has no super role and no `*`, which would open its only route to
everybody; those branches of the guards are covered by the proofs.

**Fairness** is assumed in `Sessions` only (`FairSpec`): `WF_vars(HandlerStep(r))` for each
request. A handler that can move is a continuation in Node's queue or a call the
driver will answer or fail; the event loop runs both. Nothing is assumed of
clients (requests need not come), of time, of failures or of operators, and a
call that fails is no `HandlerStep`. The safety properties of that run hold of
`Spec`, as the proofs show. `RequestsTerminate` then says that no
handler waits for another: the only waiting is that of `signOutAll` and
`changePassword` for their own branches.

## What is proved

Every invariant, step property and refinement that a passing run checks, in eight
modules, from the specification of the component and the assumptions on its
constants only: lifetimes and limits are positive where the code's defaults are,
`None` is nobody, sets of different things do not meet (`AccountsAssumption`: an
address is not a username, which `signup.dto.ts:23` keeps free of `@`). TLC evaluates
those assumptions in the runs. No theorem bounds the number of requests, users,
roles, addresses or ticks.

| Theorem | Property | Argument |
|---|---|---|
| `SessionsProofs!TypeCorrect` | `TypeOK` | `LocalInv`: types, and what each place of a handler implies about its own record |
| `SessionsProofs!SignedOutAccess` | `SignedOutAccessRejected` | `MarkInv`: a mark lives `MarkTtl` from the arrival of the request that sets it at least, or its session is in `forgotten` |
| `SessionsProofs!SignedOutIsForGood` | `SignedOutForGood` | the same without exceptions, for a shared store and a `JWT_EXPIRES_IN` that both readers understand (or whose tokens live no longer than the fallback): no step adds to `forgotten`, and no token outlives a mark |
| `SessionsProofs!SignedOutRows` | `SignedOutRowsRevoked` | `RevokeInv`: which targets are revoked, and which tokens, at each place of the three revoking handlers |
| `SessionsProofs!ReplacedTokens` | `ReplacedTokensAreUsed` | `ParentInv`: a parent is marked before its child is inserted, in one session |
| `SessionsProofs!AlarmsAreTrue` | `NoFalseAlarm` | `AlarmInv`: a used token was presented by some other request |
| `SessionsProofs!DrainedSessions` | `DrainedIsFinal` | by cases over the kind of step, from `LocalInv` |
| `SessionsProofs!Refinement` | `ImplementsIssuance` | every step is quiet, grants, opens, mints or closes |
| `AccessProofs!AccessOpened`, `!AccessCatchesUp` | `OpenedByWhatWasHeld`, `TokensCatchUp` | `AccessInv`: what is being loaded, cached, signed, held or presented was so within so many ticks, a bound that grows from place to place and adds up to `HandlerStale`; the guards are monotone in what is held (`GuardsMonotone`) |
| `LoginProofs!ThresholdAlwaysLocks` | `ThresholdLocks` | `LoginInv`; also `LoginTypeCorrect` |
| `LoginProofs!LockoutAlwaysHolds` | `LockoutHolds` | `LockInv`: a sign-in that is under way while a lock is in force was under way when it was set, since none starts under a lock |
| `LoginProofs!DeadPasswords` | `DeadPasswordsStayDead` | a password lives in the row or in a handler that read it; every write takes it from one of the two |
| `VerificationProofs!CodesNotLost`, `!DuplicatesOverlapped` | `ConsumedForAReason`, `ActiveTogetherOverlapped` | `VerInv`: rows agree with the requests that stored, found and consumed them |
| `VerificationProofs!SpentCodes`, `!ExhaustedCodes` | `SpentIsFinal`, `ExhaustedIsFinal` | step properties from `VerInv`; also `VerificationTypeCorrect` |
| `VerificationProofs!LimitAlwaysRetires` | `LimitRetires` | `ReachInv`: a code whose attempts have reached the limit and that is not consumed was taken there by somebody, and whoever was is still at the second read, at the consumption, or broken off; the attempts never shrink, so the second read finds the limit reached, whatever ran in between |
| `MfaProofs!EnabledFactorsHaveCodes`, `!BatchesReplaced` | `EnabledHasCodes`, `BatchesOverlapped` | `MfaInv`: factors and batches are named after the requests that inserted them, and those are past the insertion; also `MfaTypeCorrect` |
| `MfaProofs!RecoveryCodesOnce`, `!EnabledSecretsKept` | `SpentCodesStaySpent`, `SettledSecretKept` | step properties from `MfaInv` |
| `OneUseProofs!OneUseSafe` | `UsedTwiceOverlapped` | `OneUseInv`, three conjuncts |
| `OAuthStateProofs!AcceptedFromOwnBrowser`, `!RefusedForAReason` | `OwnBrowserOnly`, `RefusalsExplained` | `StateInv`: a key or a cookie that is gone has a reason (expiry, another callback, another flow of the browser), and no step takes a reason back |
| `OAuthStateProofs!StatesAreOneUse`, `!StatesUsedOnce` | `ImplementsOneUse` | every step of a callback is a step of `OneUse` or a stutter; `OneUseSafe` is then instantiated for states |
| `OAuthStateProofs!ChallengesAreOneUse`, `!ChallengesUsedOnce` | `ConsumedAsOneUse` | the same for the challenges of `Passkey`: a completion claims, reads and deletes as a caller of `OneUse` does |
| `OAuthStateProofs!CountersGoForward` | `CounterBackRaced` | `PasskeyInv`: a call about to write the counter compared it with a row it read, and the compared value was smaller; also `PasskeyTypes` |
| `AccessProofs!ThrottlerWithinLimit` | `WithinLimit` | `ThrottlerInv`: counted hits stay in the set for their window (`HitsKept`), over the limit means blocked (`OverBlocked`), so those within the limit fit (`FitWithin`); also `ThrottlerTypes` |
| `AccessProofs!ThrottlerRefusesForRate` | `RefusedForRate` | `OverCounted`: whoever started a block counted only hits sent within its window, and a window that was exceeded stays exceeded |
| `RbacProofs!CachedAccess`, `!Orphans` | `CacheExplained`, `OrphansExplained` | `RbacInv`: an access being loaded is what the database says, or has its explanation already; a reference to a role that is gone was written by a call marked when the role went; also `RbacTypeCorrect` |
| `RbacProofs!DuplicateRows` | `DuplicatesOverlapped` | the one of two inserts that came second was under way at the first, or had looked before it |
| `RbacProofs!LastSuperAdmin` | `LastHolderRaced` | `CountOK`: between count and removal two hold the role, those that overtook counted in |
| `LoginProofs!FailuresAlwaysCounted`, `!StuckUsers` | `FailuresCounted`, `StuckExplained` | `UseCaseInv`: until a stale save, the copy about to be saved is the row, and each account without a token to present has a run that answers for it; also `UseCaseTypes` |
| `LoginProofs!OnlyStaleUndo` | `OnlyStaleSavesUndo` | a copy that is the row keeps or extends what the row has |
| `VerificationProofs!AccountsComplete` | `CompleteAccounts` | `AccountsInv`, see below; also `AccountsTypes` |
| `VerificationProofs!MailedAgree`, `!ConflictsAreExplained` | `MailedIdentitiesAgree`, `ConflictsExplained` | `AccountsInv`: what each call has found, and what it may rely on while it is alone, but for keys in `linked` |
| `VerificationProofs!MixedSessions` | `MixedSessionsExplained` | `SessionsExplained` and `LocalOwners`: a mixed session joins the holder of a name to the owner of its local identity, and an answered sign-up is both; or the holder of an address to the owner of its linked mailed identity |
| `VerificationProofs!IdentitiesAttachedByProof` | `AttachedByProof` | the one step that inserts an identity, from what the call at it knows |

None of these properties is inductive: each speaks of requests that have answered,
and the invariants add what must be true at every place on the way. For the
sessions they are layered, `LocalInv` first, so that each later one is a step over
one handler with the rest untouched.

**`Accounts`** needs the largest invariant, because a call is at several awaited
calls at once and the answer depends on which of them returns last.

- `Fits(r, q, a, p)` says what call `r`, with record `q`, at the awaited calls `a`
  and the stage `p`, can rely on. It has a conjunct for each awaited call:
  `Unserved` for those of a call without a user of its own (a user found through
  the address still holds it, one found through the identity still owns it),
  `Served` for those after the insert of the user. `Together` is what a
  `Promise.all` has done: which branches are still under way, and that those that
  are not left their rows (`Result`), unless one has thrown. This is what makes
  `CompleteAccounts` hold when the last branch returns.
- Rows never change hands (`Grows`), so every step keeps what the *other* calls
  know (`OthersFit`); a step then owes only the facts of the call that moves
  (`StepKeeps`, and for each way a call may go on, end or throw a lemma of its
  own).
- `ConflictsExplained` is a statement about absence, which another call could
  destroy: `Alone` says that an address, an identity or a provider a call did not
  find is still not there, for as long as no call was under way with it
  (`BesideKnown`) or an earlier one has broken off (`Broken`). An arrival must
  establish it from nothing but the tables: a call that finds no other under way
  finds the rows of answered calls, which are complete, and of broken ones.
- `LocalOwners` follows a local identity that was not linked back to its sign-up,
  whatever became of it: the mixed session is then one whose sign-up was not
  answered. One that was linked has no password, and `signIn` stops there.
- A linked identity may have any code and subject, so what the others rely on
  excepts the keys in `linked`, which only grows; a call that is at its own
  `Promise.all` inserted its identity itself, and its key is not among them.

TLC checked this invariant before it was proved, with every code linkable, on the
instance of the run and on one with a username in place of the phone.

**Only model-checked:** liveness (`RequestsTerminate`), since fairness and ENABLED
are out of the prover's reach. The run that is violated on purpose shows a
counterexample, and nothing is to prove.

## Where documentation and code differ

One statement is run against the model, and TLC refutes it:

- `UseCaseUnverified`. `docs/AUTH_REQUEST_RESPONSE.md:80` says an account that is
  not verified gets a 422. `LoginUseCase` (`AuthUseCases.java:119`) refuses the
  status PENDING, but wrong passwords have replaced it by LOCKED, and once the
  lock is over the right password passes and gets tokens.

While the models were built, more statements turned out to hold only as long as
handlers do not overlap or break off. Their common causes are a check and a write in two
awaited calls, and an `UPDATE ... WHERE id` whose row count nobody looks at. They
are not run one by one; for each, the last column names the property that does
hold and says how far the deviation goes.

| Documentation | Code | What holds |
|---|---|---|
| refresh tokens form a chain (`ARCHITECTURE.md:491`) | `used_at` is read, then set unconditionally: two refreshes at once give one token two children (`auth.service.ts:535`) | `ReplacedTokensAreUsed`, `NoFalseAlarm` |
| sign-out revokes all refresh tokens at once (`API_GUIDE.md:728`) | a refresh past its session check inserts one afterwards (`:550`) | `SignedOutRowsRevoked`; it cannot be redeemed: `DrainedIsFinal` |
| the deny mark lives exactly as long as an access token (`SECURITY.md:53`, `session-revocation.service.ts:14`) | its lifetime is read by `parseDurationToSeconds`, the token's by `jsonwebtoken` (`jwt-token.service.ts:42`), and `validation.schema.ts:33` takes any string: with `1w` or `2 days` a mark lives 900 seconds (`:28`), after which a signed-out token is accepted again | `SignedOutAccessRejected` while the mark lives; `SignedOutIsForGood` for spellings that both know |
| the deny mark need not outlive `JWT_EXPIRES_IN` (`session-revocation.service.ts:14`) | such a refresh signs an access token after the mark was set (`:537`) | `SignedOutAccessRejected`, for tokens signed up to the sign-out |
| signing out everywhere rejects every session at once (`SECURITY.md:53`) | a session created between the list and the UPDATE is revoked, not marked (`:589`) | the same, for the sessions listed |
| the in-memory deny-list suffices for one instance (`session-revocation.service.ts:16`) | a restart empties it | `SignedOutRowsRevoked`; `SignedOutAccessRejected` but for the marks a restart dropped (`forgotten`) |
| the new password works (`auth-password.e2e-spec.ts:184`) | the rehash of an overlapping sign-in writes the old one back (`:404`) | `DeadPasswordsStayDead` |
| locked means locked, for the right password too (`auth-password.e2e-spec.ts:102`) | the lock is read before the verification, and the reset clears a later one (`:355`, `:382`) | `LockoutHolds`: only sign-ins under way when it was set, and `changePassword`, which does not ask for a lock; `ThresholdLocks` |
| changing the password ends all other sessions (`SECURITY.md:55`) | a sign-in already verified creates its session afterwards (`:672`) | `DeadPasswordsStayDead` |
| `password_changed_at` only when the password changes (`password-credential.entity.ts:39`) | the rehash sets it too (`password-credential.repository.ts:40`) | - |
| a code is accepted once (`API_GUIDE.md:1522`) | two verifications in flight both are (`verification.service.ts:110`) | `SpentIsFinal` |
| five misses lock a code for good (`API_GUIDE.md:1523`) | a verification that read it before is accepted after (`:93`) | `ExhaustedIsFinal` |
| a send cancels the pending codes (`verification.service.ts:37`) | two sends at once leave two | `ActiveTogetherOverlapped` |
| TOTP is required once enabled (`SECURITY.md:41`) | two first setups at once store two factors, and `findOne` may answer with the one not enabled | `SettledSecretKept` for either |
| setup is refused when TOTP is on (`API_GUIDE.md:2014`) | a verification between check and write enables it first (`mfa.service.ts:70`) | `SettledSecretKept` |
| a disabled factor is gone (`ARCHITECTURE.md:628`) | the row and its secret stay; a code of it enables it again (`mfa.service.ts:120`) | - |
| enabling issues recovery codes (`mfa.service.ts:119`) | a crash or a second verification on the way leaves none | `EnabledHasCodes` |
| a recovery code works once (`SECURITY.md:34`) | two recoveries in flight are both accepted (`:185`) | `SpentCodesStaySpent` |
| the super role is not taken from the last account (`API_GUIDE.md:2449`) | two administrators revoke each other's at once (`rbac.service.ts:217`) | `LastHolderRaced` |
| assigning or revoking a role voids the cached access (`API_GUIDE.md:2444`) | a lookup under way stores the old one afterwards (`:69`) | `CacheExplained` |
| every change of roles or permissions does (`rbac.service.ts:151`) | grants, revocations of permissions, deletions and the bootstrap void nothing | `CacheExplained`; how long it lasts: `OpenedByWhatWasHeld`, `TokensCatchUp` |
| one membership per user (`rbac.repository.ts:171`), roles idempotent by name (`rbac-admin.controller.ts:50`) | two at once create two | `DuplicatesOverlapped` |
| no orphans after `deleteRole` (`rbac.repository.ts:177`) | a call that had found the role writes a reference after | `OrphansExplained` |
| one user, to whom all identities lead (`ARCHITECTURE.md:42`) | a sign-up overtaken between identity and address; `signIn` joins the two | `MixedSessionsExplained` |
| a mailed code signs in the user of its address, whose identity it is (`API_GUIDE.md:1401-1402`, `:1408`) | `linkIdentity` takes any enabled code and any subject (`auth.service.ts:1088`): where another user has linked (`email_otp`, the address), the code signs in the holder of the address under the other's identity (`:851`), and the first use of a free address leaves a user and an address behind and meets the unique identity (`:806-833`) | `MailedIdentitiesAgree`, `MixedSessionsExplained`, `ConflictsExplained`, each with this one exception |
| otherwise a new user is created (`API_GUIDE.md:1934`) | an unverified address that is taken ends in an internal error | `ConflictsExplained` |
| no junk accounts (`API_GUIDE.md:1402`), a taken address is a 409 (`:2326`) | the loser of two first uses leaves a user row, and fails on the unique column | `CompleteAccounts`, `ConflictsExplained` |
| challenges and states are used once (`API_GUIDE.md:1798`, `SECURITY.md:78`) | read and delete are two calls | `ConsumedAsOneUse`, `ImplementsOneUse` |
| the counter prevents replays (`ARCHITECTURE.md:359`) | two overlapping sign-ins may set it back | `CounterBackRaced` |
| `THROTTLE_LIMIT` per window (`API_GUIDE.md:1817`) | a block that expires between SET NX and PTTL lets its request pass; a request whose transaction comes late is counted in another window | `WithinLimit` for the others |
| registration stores `users` and `verify_tokens` in one transaction (`AUTH_REQUEST_RESPONSE.md:60`, `:133`) | two port calls, each with a transaction of its own at most (`AuthUseCases.java:39-40`): a failure between them leaves an account that nobody can verify | `StuckExplained` |
| five failures lock (`AUTH_REQUEST_RESPONSE.md:80`), controlled transitions (`User.java:10`) | aggregates are saved whole and without a version | `FailuresCounted`, `OnlyStaleSavesUndo` |

## What is not modelled

- *Controllers, DTOs, filters, responses*: stateless. That a route carries the
  guards its controller declares is `Routes` in `Access`.
- *Reads* of profiles, active sessions and audit logs, and the audit rows
  themselves: nothing decides on them.
- *Mail, health, hashing, OAuth exchanges with providers*: I/O and cryptography;
  their failures and results are choices of the model.
- *Key-value stores* as such: `get`, `set`, `del`, expiry and the loss of the map
  at a restart are in the modules that use them; connection and serialisation are
  not.
- *Deactivation of users* outside `Sessions`: no code of the service writes
  `users.status`.
- *Configuration, port fallback, migrations*: before the service serves.
- *The in-memory throttler*: it is a library's.
- *Java*: refresh, forgot and reset are stubs, consumers are TODO. Retry and
  dead-letter queues are declared, not implemented.
- `database/` is the schema of a restaurant system without a program;
  `flowchart/`, `.fullstack/`, `.opencode/` hold documents.

## The plan

The order was: sessions (every other component ends in one), password sign-in,
verification codes, MFA, roles, accounts, the two one-use protocols, the rate
limiter, the Java use cases, then the guards over the claims with the cache and
its lifetime, and the proofs. What is left:

1. `Accounts` as an implementation of an abstract register of accounts, in which a
   user appears with all its rows at once and only answered calls count: the
   refinement would join `CompleteAccounts`, `MailedIdentitiesAgree` and
   `AttachedByProof` in one statement.
2. Deactivated users in `Accounts`, and the mail that `signUp` sends without
   awaiting it, composed with `Verification`.
3. The port fallback of `main.ts` as a function against its definition.
