# nest-demo: TLA+ models, TLC runs and TLAPS proofs

The project is about the concurrent core of the API in `src/`: one-time codes,
rate limiting, the sessions of a user with their devices, two-step methods with
passkeys, the accounts from registration to deletion, and notifications with
their queue. It holds a module for each, an `MC` module and the `.cfg` files TLC
checks it with, and a `Proofs` module with theorems that hold for every value of
the constants. Every safety property a passing run checks is also a theorem; the
liveness properties are model-checked only.

Paths below are relative to the repository; most code is in its own `src/`.

## 1. Inventory

The program is one NestJS process (`docker-compose.yml` starts one replica)
over PostgreSQL (Prisma) and Redis. JavaScript runs one piece at a time, so a
step of the system is what runs between two `await`s; every `await` is a place
where other requests, timers and cron jobs get in. **No code opens a database
transaction**, so every operation of more than one statement interleaves and
can fail half-way.

| Component | State it keeps | Operations | Talks to | Hard behaviour | Correct when |
|---|---|---|---|---|---|
| One-time codes (`otp/`, `otp-request/`) | tables `otp`, `otp_requests` | create, resend, verify, cron clean-up | notifications, devices, activity | read-then-write on counter, attempts and status; cron deletes race requests and can end the process | codes are limited, guesses are limited, a code is accepted once and not after it expired |
| Rate limiting (`common/rate-limit`, its guard and interceptor) | counters with a time to live in Redis or a `Map` | look for blocks, count, record outcome | every decorated handler | two commands for one increment; store changes under a request; rejections in the interceptor | limits and blocks hold, blocks end, monitor mode blocks nobody |
| Sessions (`auth/`, `JwtStrategy`) | `users.token_version`, `refresh_tokens`, JWTs at clients | login, refresh, sign-out, cron clean-up | users, devices, activity, notifications | version read, then written; errors swallowed by `updateUser` | a signed-out token stays out |
| Devices (`device-info/`, `addOrGetDeviceId`) | `device_info` | find or create, touch, remove, stream | sessions, activity | find-then-create with no unique key; rows that go while they are used | one device, one row |
| Accounts: registration, recovery, OTP gate (`auth/`, `user/`, `user-sso/`, `RoleGuard`) | `users`, `deleted_user` and the tables that refer to a user | register, Google sign-in, login, reset, recover, update, delete | codes, roles, settings, two-step, devices, activity | a chain of up to ten statements without a transaction, about an account others log in to, change and delete meanwhile; `updateUser` swallows errors; a code that is VERIFIED opens for three minutes | what was answered a success is complete; who logged in is active; who is deleted was archived and stays deleted |
| Two-step verification (`user-two-step-verification/`) | its table | add, change, verify, delete methods | passkeys, devices, activity; login reads it | the primary method is found, demoted and replaced in three statements; isEnabled is written back as read | at most one method is primary |
| Passkeys (`web-authn-credential/`) | credentials, challenges in Redis or a `Map` | ask for a challenge, register, verify | two-step verification | get and delete pipelined without MULTI; store changes under a ceremony; counter read, then written | a challenge is used once, a counter never falls |
| Notifications (`notification/`) | table `notifications`, BullMQ queue in Redis | create; worker mails or pushes, retries; two listeners write the outcome | mail, FCM | row before job, job before its row's status; at-least-once; stalled jobs; listeners nobody waits for or catches | a status tells what was sent and stays; messages are bounded; jobs end |
| FCM tokens (`fcm-token/`) | `fcm_tokens` | replace | the worker reads them | find, delete, create with no unique key | one token a user |
| SSO links, notification settings | one table each | create, find, update | accounts | - | - |
| Activity log, roles | one table each | append, read | accounts | none of their own | - |
| Pagination interceptor | none | let `take`, `skip` through or refuse them | - | - | - |
| Metrics, dashboards, Prisma and Firebase clients | counters | - | - | I/O | - |

The hazards, each at its line with the property that would catch it, are listed
in `PROJECT.json`.

## 2. Modules

| Module | Component | Extends |
|---|---|---|
| `Otp` / `MCOtp` / `OtpProofs` / `OtpCountProofs` | one-time codes | - / `Otp` / `Otp`, `TLAPS` / `OtpProofs` |
| `RateLimit` / `MCRateLimit` / `RateLimitProofs` / `RateLimitPenaltyProofs` | rate limiting | - / `RateLimit` / `RateLimit`, `TLAPS` / `RateLimitProofs` |
| `Session` / `MCSession` / `SessionProofs` | sessions and devices | - / `Session` / `Session`, `TLAPS` |
| `OneTime` | abstract specification of the challenges | - |
| `TwoStep` / `MCTwoStep` / `TwoStepProofs` | two-step methods and passkeys, an instance of `OneTime` | - / `TwoStep` / `TwoStep`, `TLAPS` |
| `Lifecycle` | abstract specification of an account | - |
| `Account` / `MCAccount` / `AccountProofs` | accounts, an instance of `Lifecycle` | - / `Account` / `Account`, `TLAPS` |
| `Notification` / `MCNotification` / `NotificationProofs` | notifications, their queue, FCM tokens | - / `Notification` / `Notification`, `TLAPS` |

(`-`: standard modules only.) The component modules are written the same way. `rq[p]` is a request in flight; its field
`at` names the `await` it is blocked on, and the other fields are the local
variables the handler still needs. An action is one awaited statement with the
JavaScript up to the next `await`, and leaves the request at another label or
answers it (`"idle"`). Operators commented `Fault:` are wrong variants of the
definition below them; no specification uses them, they show that the
properties notice such a mistake.

### Otp

Follows one value (an address or number): rows of different values never meet.
`otp[i]` is the i-th row inserted, so the order of ids is that of `createdAt`,
and "the code of row i" stands for the code whose bcrypt hash the row holds.
`req` is the row of `otp_requests`; its `since` is `updatedAt`, which has a
default and is never written again, so it is the time of creation. History:
`wrong[i]` and `accepted[i]` count the answers about row `i`, `sent` lists when
codes went out.

| Code | Actions |
|---|---|
| `createOTP` | `ReadCounter`, `ResetCounter`, `NewCounter`, `FindPrevious`, `DeletePrevious`, `InsertRow`, `IncrementCounter`, `Notify`, `LogActivity` |
| `resendOTP` | `FindForResend`, `DeleteForResend`, then the above |
| `verifyOTP` | `ReadRow`, `MarkExpired`, `WriteAttempts`, `MarkVerified`, `LogActivity` |
| `clearExpiredOtps` | `CronScan`, `CronDelete`, `CronCrash` |
| the `catch` blocks | `CallThrows` |

A Prisma `delete` of a row already gone throws; in a request it is caught, in
the cron job the promise is neither awaited nor caught and the rejection ends
the process: `CronCrash` loses every request in flight.

### RateLimit

One policy with its scopes. `store` holds both stores at once, Redis and the
process's `Map`; `link` decides which one a command reaches, and never comes
back from `"lost"` (nothing sets `useMemory` to false after an error). A key is
its value and the seconds left; a key in Redis with 0 left has no time to live.
Redis rounds the time it answers, so `Ttl` is a set.

| Code | Actions |
|---|---|
| `RateLimitGuard.canActivate`, `ensureNotBlocked` | `Arrive`, `BlockGet`, `BlockTtl` |
| `evaluateRequestLimit`, `increment` | `ReqIncr`, `ReqExpire`, `ReqTtl` |
| the handler and the interceptor | `Handle` |
| `recordOutcome` | `FailIncr`, `FailExpire`, `FailTtl`, `BlockSet`, `FailDel` |
| a command that rejects, carried out or not | `CallRejects` |
| constructor of the store, the process | `Connect`, `Lose`, `Crash` |

`admitted`, `fails` and the fields `held` and `barred` are history for the
properties. A rejected command in the interceptor runs into its `catchError`
and is recorded as a failure once more, as in the code.

### Session

One user. A token is its `tokenVersion` and the login it descends from: access
and refresh token share secret, payload and guard (the test
`test/auth.e2e-spec.ts` refreshes with either), so one kind stands for both.

| Code | Actions |
|---|---|
| `JwtStrategy.validate` | `Guard` |
| `findUser`, where each handler starts | `ReadUser` |
| `addOrGetDeviceId` | `DeviceFind`, `DeviceTouch`, `DeviceNew` |
| `login` | `LoginCheck`, `EmitSession`, `LogActivity`, `LoginIssue` |
| `refreshToken` | `RefreshLookup`, `RefreshIssue` |
| `signOut`, `updateUser` | `WriteVersion`, `SaveFails`, `FindStored`, `DeleteStored`, `SignedOut` |
| `removeSession` | `FindDevice`, `DeleteDevice` |
| `clearExpiredRefreshTokens` | `CronScan`, `CronDelete`, `CronCrash` |
| the `catch` blocks | `CallThrows` |

`LoginCheck` stands for password, second factor and the columns `isActive` and
`lastLogin`: it answers a failure or goes on (`Account` has the steps). A
sign-out's field `saved` remembers whether `updateUser` wrote the version. The exp of a token matters only
for stored rows (`Expire`). The account PATCH, which lets a client write
`tokenVersion` through `UpdateUserDto`, is not an action here; the theorems
about versions do not speak about users who do that.

### TwoStep and OneTime

One user. `methods` are the rows of `user_two_step_verification`, `passkeys[k]`
is the counter stored for authenticator `k` (-1: no row), `slot` what both
challenge stores hold under the two keys of the user, and `link` decides which
of them is used, as in `RateLimit`. A challenge is its number in the order of
generation.

| Code | Actions |
|---|---|
| `createUserTwoStepVerification` | `FindPrimary`, `Demote`, `InsertMethod` |
| `updateUserTwoStepVerification` | `FindMethod`, `FindPrimary`, `Demote`, `LogActivity`, `WriteMethod` |
| `deleteUserTwoStepVerification` | `FindMethod`, `LogActivity`, `DeleteMethod` |
| `verifyUserTwoStepVerification` | `VerifyCode` |
| `requestAddPasskey`, `requestVerifyPasskey` | `ReadUser`, `GenerateOptions`, `SetChallenge`, `LogActivity` |
| `addPasskey` | `ReadUser`, `TakeChallenge`, `CreatePasskey`, `FindPasskeys`, `EnableMethod` or `FindPrimary`, `Demote`, `InsertMethod` |
| `verifyPasskey` | `ReadUser`, `TakeChallenge`, `FindPasskey`, `WriteCounter` |
| `WebAuthnChallengeService`, the process | `ExpireChallenge`, `Connect`, `Lose`, `Crash` |
| the `catch` blocks | `CallThrows`, and the failing halves of `SetChallenge` and `TakeChallenge` |

Of the WebAuthn library only the comparisons are modelled: a registration is
verified against the challenge taken, a verification against the challenge and
the stored counter (`Verified`); they follow the use of `verified` in the
service. A client answers with any challenge it was ever given and with any
counter. A pipeline is carried out whole or not at all; a server that answers
GET and refuses DEL is outside the model.

`OneTime` says what "one-time use" means: a challenge is new, open, used or
void, and only an open one becomes used. `Status` maps the state of `TwoStep` to
it; a challenge is open while a store holds it or a request has it in hand.

`Solo` names the classes of requests of which one is in flight at a time:
`"promote"` (requests that make a method primary) and `"sign"` (verifications of
a passkey). `OnePrimary` and `CounterNeverFalls` are promises under it.

### Account and Lifecycle

Follows the accounts that come to hold one address (mail, phone and the Google
account's mail are not told apart), one after the other or, moved away by a
PATCH, side by side. `users[i]` is the row with id `i` together with the rows
that refer to it, since they live and go with it; `archive` is `deleted_user`.

| Code | Actions |
|---|---|
| `JwtStrategy.validate`, `RoleGuard.canActivate` with the codes | `Guard`, `RoleGuard` |
| `register` | `ReadCodes`, `CreateUser`, `Furnish` (role, setting, second factor, flag), `Log` |
| `authUserByGoogleSSO` | `FindLink`, then `Log`, `ActivateLinked` or `CreateUser`, `CreateLink`, `Log` |
| `login` | `FindLogin`, `CheckLoginCode`, `MarkLogin` (activation, lastLogin), `Log` |
| `resetPassword`, `recoverAccount` | `FindForPassword`, `CheckPasswordCode`, `WritePassword`, `Log` |
| `updateAccount` | `PatchUser`, `Log` |
| `deleteUser` | `ReadForDelete`, `Archive`, `Log`, `DeleteUser` |
| the `catch` blocks; those of `updateUser` and `createUserTwoStepVerification` | `CallThrows`; `SaveFails` |
| the process | `Crash` |

What a look-up of a code finds (nothing, a pending code, one that is fresh or
old, VERIFIED or not) is a choice, taken in one step with the `await` before
it; `Log` stands for `addOrGetDeviceId`, `addUserActivity` and, in `login`, the
notification and the tokens. A row is `loose` once an error about its columns
was swallowed or the owner overwrote them with a PATCH, which the code lets him;
properties about these columns do not speak about such rows. Second factors
added or removed later are `TwoStep`'s, versions `Session`'s.

`Lifecycle` says what is promised of an account, however many statements it
takes: it is absent, created, usable (it has a role), deleted, and moves in this
order only; it is archived before it is deleted, and only if usable. `Stage`
maps the rows to it.

### Notification

Notifications of one user and to addresses without a user. `notes[i]` is a row,
`jobs[i]` its BullMQ job with the attempts made and the times it stalled;
`worker` is what `process()` is doing, with the addresses still to serve;
`updates` are the writes the two listeners have under way. `owed` and `sent` are
history. The queue lives in Redis and survives `Crash`; worker, listeners and
requests do not.

| Code | Actions |
|---|---|
| `createNotification` | `InsertNote`, `AddJob` |
| `createFCMToken` | `FindToken`, `DeleteToken`, `CreateToken` |
| `process` | `TakeJob`, `ReadTokens`, `Send` |
| end of `process`, `onCompleted`; a throw in it, `onFailed` | `Complete`; `Fail`; then `WriteStatus` or `ListenerDies` |
| `deleteUser` with its cascade | `DeleteUser` |
| BullMQ's check of stalled jobs, the process | `Stall`, `Crash` |
| the `catch` blocks | `CallThrows` |

BullMQ itself is modelled from how the code uses it (version 5 in
`package.json`) and marked external: one job at a time, an attempt counts when
it fails, `failed` is emitted after every attempt, a job whose lock ran out is
put back without counting and fails when it is taken once more than
`maxStalledCount` times. The delay before a retry is part of waiting. Rows of
type PUSH are accepted by `createNotification` and served by the worker, so they
are modelled, though nothing in the repository creates one yet. An SMS never
gets a row (see below).

## 3. Runs

All bounds are constants of the modules, named there.

| Run | Properties | Instance, and why it is enough |
|---|---|---|
| `OtpSequential` | `Inductive`, `LiveCodesBounded` (one code a type), `AttemptBudget`, `AcceptedOnce`, `LimitedWhileHeld`, `ExpiredIsFinal`, `ExpiredCleared`, `EveryRequestEnds` | one request at a time with every operation, with and without token, failing calls, the cron job and the crash it can cause; two codes, limit 1, two attempts, three instants: a code is replaced, used up, accepted, expires and is cleared under a request, and the counter fills, holds, lapses and is reset |
| `OtpConcurrent` | `Inductive`, `GuessesBounded` | two requests that create and verify, three codes of two attempts: both find the same row, neither, or each other's, and read and write attempts in every order |
| `RateLimitFaults` | `IInv`, `LimitHolds`, `BlockedNeverServed` | two requests carrying an address and an identity, limit 1, a penalty after one failure; commands reject, the process dies and starts on its `Map` before Redis is back: a counter passes its limit, a block begins and ends while another request is between its commands |
| `RateLimitMonitor` | `MonitorServes`, `KeysExpire`, `BlockNeverShortened`, `BlockEarned`, `LimitLifts`, `EveryRequestAnswered` | monitor mode, one request at a time, Redis may be lost; limit 1, penalties after two and three failures, so that requests go on failing while a block stands, grow it and outlive it |
| `SessionAlone` | `SessionsEnd`, `DevicesBounded` (one row a device), `StoredCleared`, `EveryRequestEnds` | one request at a time with every operation, failing calls, updates that are not saved and the cron job; two devices, two logins, two sign-outs |
| `SessionOrderly` | `IInv`, `TokensEnd` | two requests of every kind, one sign-out at a time, updates that may not be saved |
| `TwoStepMethods` | `OnePrimary` | two requests that add, change, delete and verify methods (authenticator codes or passkeys) and register a passkey, one promotion at a time, any call may fail: the passkey method is missing, there, or there but disabled; the old primary method is demoted, disabled or deleted while the new one is on its way |
| `TwoStepPasskeys` | `IInv`, `ImplementsOneTime`, `CounterNeverFalls` | two ceremonies at a time, two challenges, one authenticator with counters 0 and 1; Redis is lost, the process dies, calls fail: challenges are replaced, expire, are left behind in the other store and found again after a restart |
| `AccountSaga` | `IInv`, `RegisteredIsComplete`, `FirstLoginActivates`, `ImplementsLifecycle` | three requests of all seven operations over one account, any call may fail, errors are swallowed, the process dies: an account is logged in to, changed, moved away and deleted while its registration is still under way, and twice at once |
| `NotificationQueue` | `IInv`, `StatusTrue`, `MailsBounded`, `TokensBounded`, `StatusFinal`, `JobEnds`, `StatusSettles` | two requests, one notification, two tokens, the three attempts and one stall of the code, one crash besides those the listeners cause: every way a job can end, with the user deleted at any time; two tokens race, and one changes under a push |

Two requests at a time are enough for the races these properties are about
(three for an account: one opens it, one uses it, one deletes it):
each is a read of one request that another's write makes stale. More requests
are left to the theorems. `AccountSaga` also passes with two accounts, two
requests and no swallowed errors, `NotificationQueue` with two notifications and
one request (without tokens, two attempts; or with one token, without crashes);
nothing in a second account or notification interferes with the first but the
address and the one worker. Runs that say "one request at a time" check what the
code promises when nothing overlaps; several of these promises do not survive
overlap, see below. `IInv`, and `Inductive` in `Otp`, are the inductive
invariants of section 4. Those of the runs about one request at a time that
are proved and not listed hold there too, added as an invariant: `IInv` in
`SessionAlone`, and `PenaltyOK` in `RateLimitMonitor`, also with
`Senders = {{1}, {1, 2}}`, `Mode = "enforce"` or two requests.

`NotificationQueue` switches the check for deadlock off: with the user deleted,
no ids left and every job over there is nothing left to do. In the other runs a
request, a cron job, the clock or the store can always move.

### Findings

Two runs ask for what a comment, a message or a test promises, and TLC finds
the code doing otherwise:

| Run | What it shows |
|---|---|
| `RateLimitOrphan` | a crash between INCR and EXPIRE leaves a counter without a time to live: a client over its limit is refused for ever |
| `SessionRewind` | overlapping sign-outs make a signed-out token valid again |

The same modules show these with other values of the constants; each takes one
change to a passing configuration:

| Change | Property that fails | What the code does |
|---|---|---|
| `OtpSequential` as it is | `LimitedInABurst` | `otp.service.ts:38` asks whether `updatedAt` is less than an hour ago, and `updatedAt` is never written again: from a counter's second hour on nothing is refused (`test/otp.e2e-spec.ts:286`: "enforces request limit per value") |
| `SessionAlone` as it is | `DoomedExpired` | `auth.service.ts:526` takes the seconds of `exp` for milliseconds: the cron job deletes refresh tokens that have not expired (`auth.service.ts:613` calls them expired) |
| `OtpSequential` with two requests | `LimitedWhileHeld` | `otp.service.ts:38` compares the count with 5 for equality, and the count is incremented awaits later: overlapping requests step over it |
| `OtpSequential` with two requests | `AcceptedOnce` | `otp.service.ts:240` writes VERIFIED by id alone: two validations of one code both succeed |
| `OtpSequential` with two requests | `AttemptBudget`, `ExpiredIsFinal` | `otp.service.ts:232`, `:240` write over what another validation or the expiry wrote since the row was read |
| `SessionAlone` with two requests | `SessionsEnd` | a refresh that overlaps a sign-out carries the session over it (`auth.service.ts:513`), and `SessionRewind` |
| `RateLimitMonitor` with two requests, nothing lost | `BlockNeverShortened`, `BlockEarned` | `rate-limit.service.ts:183`: of two failures the shorter block may land last; `:203`: a failure that overlaps a success is blocked for failures from before it |
| `RateLimitMonitor` with `Faults = {"crash"}` | `BlockNeverShortened`, `BlockEarned` | a process starts on its `Map` and moves to a Redis that still holds the counters and blocks from before (`rate-limit.store.ts:37`) |
| `RateLimitMonitor` with `Faults = {"reject"}` | `BlockEarned` | `rate-limit-outcome.interceptor.ts:30` catches what its own `recordOutcome` throws and records the outcome a second time, as a failure |
| `RateLimitMonitor` with `Faults = {"reject"}` | `MonitorServes` | `rate-limit.guard.ts:50` does not catch: a store that rejects turns requests away in monitor mode too (`README.md:100` says it blocks nobody) |
| `RateLimitMonitor` as it is | `BlockEarned`, `BlockNeverShortened` without their excuse for a lost Redis | a request that began on Redis ends on the `Map` (`rate-limit.store.ts:37`): a success clears the counters of one store, the length of a block is asked of one and written to the other |
| `SessionOrderly` as it is | `TokensEnd` with the sign-outs that were not saved | `updateUser` (`user.service.ts:236`) swallows a failed update, and sign-out answers "Signed out" |
| `AccountSaga` as it is | `RegisteredIsComplete`, `FirstLoginActivates` without the excuse `loose` | the same `catch`, and that of `createUserTwoStepVerification` (`user-two-step-verification.service.ts:133`): register answers a success without a second factor or its flag, a reset answers a success with the old password in place, and an account whose activation was lost gets its lastLogin and is never activated (`auth.service.ts:138`) |
| `TwoStepMethods` with promotions that overlap | `OnePrimary` without its `Solo` premise | `user-two-step-verification.service.ts:74`, `:262`, `:557`: both find no primary method left and both make one |
| `TwoStepPasskeys` with verifications that overlap and three challenges | `CounterNeverFalls` without its `Solo` premise | `user-two-step-verification.service.ts:717`: both compare with the row read before, the slower writes the smaller counter ("Update the counter to protect against replay attacks") |

What the code does where it promises nothing a property could quote, met while
modelling:

- A login is refused only if the code is neither VERIFIED nor fresh
  (`auth.service.ts:129`, `&&` where the other gates have `||`): a fresh
  unverified code opens, and an old VERIFIED one. `README.md:117` of the
  repository speaks of "verified OTPs".
- `recoverAccount` looks a user up with `phoneNumber: recoverAccountDto.newPassword`
  (`auth.service.ts:448`); an account known by its phone cannot be recovered.
- A registration that fails after `createUser` leaves an account whose address is
  taken and which has no role, so that it can neither be registered again nor
  changed or deleted through the API. A Google account never gets a role at all,
  and one whose link was not stored cannot sign in again.
- A deletion that fails after `Archive` leaves a snapshot of an account that
  lives; two that overlap leave two; a snapshot may be older than the account.
- An SMS notification carries a `phoneNumber`, for which the table has no
  column: its insert throws, so that a code for a phone is stored and counted but
  its request answered a failure (`otp.service.ts:98`). A login by phone queues a
  mail without an address (`auth.service.ts:158`), which fails three times.
- Deleting a user with a notification in the queue ends the process: the
  listener's update of the row (`notification.processor.ts:69`) rejects, and
  nobody catches what a listener throws.
- A row stays PENDING after a crash between insert and job, after a crash before
  the listener's write, and when its job stalls too often, which fails it with
  fewer than three attempts made (`notification.processor.ts:86`). A mail may go
  out four times: three attempts and one that stalled.
- A push to a user without tokens is SENT.

### Fairness

`OtpSequential`, `RateLimitMonitor`, `RateLimitOrphan`, `SessionAlone` and
`NotificationQueue` use `FairSpec`: weak fairness of each request's next step (the
database and Redis answer, or the client library gives up, and the event loop
serves every callback), of the cron scan and its deletes (the scheduler fires
every twelve hours) and, in `RateLimit`, of the clock. In `Notification` it is
the worker that goes on with its queue, the listeners' updates that land or
reject, and the lock of a job nobody works on that runs out; a job in hand need
never stall, and requests need not go on. New requests, failures, loss of Redis
and crashes are never forced; crashes by chance are bounded (`MaxCrashes`), as a
process that dies for ever serves nobody. The `Otp`, `Session` and `Notification`
runs include the crash by an unhandled rejection: a request it takes along
counts as ended, and the process goes on from a fresh start. Nothing in the
repository starts it again (`docker-compose.yml` has a restart policy for the
database and Redis, none for `api`); that somebody does is an assumption of
these runs. The `TwoStep` and `Account` runs check safety only and assume no
fairness.

## 4. Proofs

Each `Proofs` module shows `Init => IInv`, that every action keeps `IInv`, and
combines them. There is one lemma per action or per family of actions that
touch the same state; lemmas on cardinalities of sets that gain or lose one
element come first.

**OtpProofs.** `LiveCodesBounded` (at most as many outstanding codes of a type
as requests) is not inductive: a request at `InsertRow` may add a row at any
time. `IInv` counts rows together with requests about to insert
(`LiveOrComingBounded`). A request gets to `InsertRow` by finding no row, so
nothing counts yet but other inserters, all distinct from it; or by deleting
a row, which pays for its own. `ReadsOK` says that the row a request would delete is of its type,
and `NoRowBeyond` that an id about to be used is free. Assumptions: finitely
many requests, naturals for the bounds.

**OtpCountProofs.** What the counters of a code are good for. The code promises
it only while requests do not overlap (section 3 has the overlaps), so the
theorems assume `Alone`: one request at a time, but with any call failing and
the cron job, its crashes and the clock in between. `CountsOK` is inductive on top of
`IInv`; both together are `Inductive`. `GuessesOK`: a verification about to write still holds what its row
holds, if the row is still there, and no code that was accepted is PENDING; from
that `AttemptBudget`, `AcceptedOnce` and `ExpiredIsFinal` follow. `LimitOK`: a
code is counted before it goes out, so while the counter is younger than `Hold`
no more have gone out than it says, one less when one is about to go
(`c_notify`), and a request that passed the limit finds room until it has
counted (`Passed`); `now` moves on, so a counter that was reset has nothing sent in
its hour. `GuessesBounded` is proved for two requests (`Pair`): `Prospect` is a
potential, the guesses a row is still worth to two requests of which each may be
about to write back an old number of attempts. Reading a row, writing and
deleting it never raise what was guessed plus the prospect, and a row starts
with the bound; the lemmas on `Prospect` are its quadratic arithmetic. The sum
of the changes to rows is told once (`Deletes`, `Inserts` and the three
outcomes of a verification), so that the proof of the invariant has a step for each of these
and not for each action.

**RateLimitProofs.** `LimitHolds` follows from the atomicity of one increment:
requests admitted and requests that still may be (`Pending`) were each counted
by the same life of a key, so their number is at most its value, and those not
refused at most the limit (`CountsOK`). `BlockedNeverServed` needs that a block
seen on arrival is still there when its token's turn comes (`BarsStand`) and
that a request which has found a wait carries it to the end (`Placed`). The
proofs cover rejections, loss of Redis, crashes, any set of scopes, any limits
and any penalty steps with a block of more than a second.

**RateLimitPenaltyProofs.** The parts of `PenaltyOK` each name the faults they
withstand. `MonitorOK` and `ExpiryOK` hold for any number of requests: in monitor
mode only a rejected command turns a request away, and a key without an end has
its request at the EXPIRE, unless a crash or rejection cut it off there
(`RateLimitOrphan` is that case). Penalties are proved one request at a time
(`Alone`). `BlocksOK`: the request about to write a block has compared it with the one
in the store in use. `EarnedOK`: that store's counter of failures is at most the
failures answered since the last success, one less for a token whose failure is
answered and not counted yet (`Uncounted`), and a success that has not deleted
its counters yet is the one exception; the count in a request's hand is no more
than that. `FreshOK` is needed because a process starts on its `Map` and may
move to Redis later: that Redis holds nothing yet, which a restart would break, so
the two theorems about blocks exclude crashes. Both excuse a lost Redis in
their statement, as the code then compares in one store what it wrote to the
other (section 3).

**SessionProofs.** `DevicesBounded` is proved as in `Otp`, by counting rows with
the requests about to insert one. `TokensEnd` is proved under `Orderly`
(sign-outs one at a time, which section 3 shows to be necessary) for the tokens
whose sign-out was saved; `VersionsOK` then says that every version read is at
most the current one, and that a sign-out past a saved write has outdated its
token. `SessionsEnd` speaks about all tokens of all logins before a saved sign-out, those
a refresh made of them included; it needs requests that do not overlap
(`Alone`), and `EndedOK`: logins that were ended are never numbered again, their
tokens are older than the current version, and no request past the guard
carries one.

**TwoStepProofs.** A request that promotes a method has seen to the old one:
before its write there is no primary method (`Cleared`), and no other request
promotes (`SoloOK`); every other step leaves the set of primary methods as it
is or smaller (`Shrinks`), so `OnePrimary` follows with unique ids. A challenge
is in one place: a slot of one store or one request's hand (`ChallengesOK`), and
in none once used. Every step then issues one, uses one that was open, or voids
some (`Turns`), which are the actions of `OneTime`: `ChallengesAreOneTime` is
the refinement, for any number of requests and challenges. For counters, a
verification between its comparison and its write holds a counter not below
the stored one, and alone (`CounterOK`); registrations write only where there
is no row.

**AccountProofs.** What a request found out about its account must hold several
awaits later, though others write the same row. It does because a row only
grows while it lives (`Grows`: no statement takes a role, setting, second factor,
link, flag or activation away) and vanishes as a whole when it goes; so
`Progress`, `Activated` and `Leaving` of one request survive the steps of the
others (`OthersKeep`), and each handler adds its own step to them. `OneHolder` is
the unique key. `ImplementsLifecycle` then takes one lemma for a row that is
written (`WritingLives`) and one step each for the insert, the snapshot and the
deletion.

**NotificationProofs.** `MailsBounded` is not inductive: a message that went out
and the attempt it belongs to are counted at different times. `Counted` keeps
the account: every message to an address is paid for by an attempt that failed,
a stall, or the attempt in hand (`Spends`); after a stall the worker may still
be sending what was paid for in advance (`Owes`). `StatusTrue` and `StatusFinal`
need that a listener's pending update already tells how the job ended, and that
no job ends twice (`StatusOK`); `TokensBounded` counts tokens with the requests
about to insert one, as in `Session`.

The premises of theorems (`Alone`, `Pair`, `Orderly`, `Solo`, `Mode`, `Faults`) are met by
the configurations of the runs, and none is there for the sake of the proof: with
another value TLC finds the property violated (section 3), except that the
bound of `GuessesBounded` is stated for two requests, and more would have a
larger one.

Only model-checked: liveness, which is out of the prover's reach
(`ExpiredCleared`, `StoredCleared`, `EveryRequestEnds`, `EveryRequestAnswered`,
`LimitLifts`, `JobEnds`, `StatusSettles`). Counts over time are proved for the
model's bounds as constants (`MaxOtps`, `MaxNow`, `MaxHits` and so on stand for any
number).

## 5. Not modelled, and the plan

Not modelled on purpose: logging, metrics, wording of answers, DTO validation,
Swagger, wiring, the mail, FCM, Google and WebAuthn libraries; handlers that only
read; `updateNotificationSetting` (one find and one update of a row of its own)
and `updateNotification` (no caller); the pagination interceptor (four
comparisons); the administration of roles; a PATCH that writes `token_version`.

To come:

1. Composition: `Otp` behind `RateLimit`, to relate the two limits on codes, and
   `Account` over the rows of `Otp`, to say how often one code opens.
2. Proofs: no safety property of the runs is left. Worth more are theorems
   that no run can state for its instance alone: `GuessesBounded` for any number of
   requests, and one specification of "counted, then allowed" that both
   `Otp`'s limit and `RateLimit`'s rules implement.
3. Four hazards have no property because the code promises nothing there (the
   notes in `PROJECT.json`): a Google sign-in whose link was not stored, a
   counter older than its hour, a primary method demoted by a call that then
   fails, a notification's row without a job.
