# A TLA+ model of nest-auth-microservice-bootstrap

This directory holds TLA+ specifications of the authentication microservice, the
gateway in front of it and the user service beside it, the TLC configurations that check
them on small instances, and TLAPS proofs for all instances. Paths below are relative to `src/`.

- [1. The system](#1-the-system)
- [2. Modules](#2-modules)
- [3. How the state and the actions correspond to the code](#3-how-the-state-and-the-actions-correspond-to-the-code)
- [4. Properties](#4-properties)
- [5. Runs and bounds](#5-runs-and-bounds)
- [6. Fairness](#6-fairness)
- [7. Proofs](#7-proofs)
- [8. What the code does that its comments do not say](#8-what-the-code-does-that-its-comments-do-not-say)
- [9. Not modelled](#9-not-modelled)
- [10. Plan](#10-plan)

## 1. The system

Three Nest applications and a shared package, in a pnpm workspace.

| Part | State it keeps | Operations | Talks to |
|---|---|---|---|
| `apps/auth-ms` AuthService, controller | none of its own | signup, verify account, login, revalidate, logout, revoke access, recover credentials, reset password (NATS messages) | the stores below, mail, JetStream |
| auth-ms AuthUserService | table `auth_user` (hash, active, verified, roles) | find by id or slug, create, update password, deactivate, verify | PostgreSQL |
| auth-ms RecoveryTokenService | table `recovery_token` (token, user, expiry) | find, rotate, remove all of a user | PostgreSQL |
| auth-ms CacheService | Redis, one key per user: roles, active, hash of the refresh token's random check | insert, validate, invalidate | Redis |
| auth-ms OTP, mail, roles, JWKS, seeds | - / - / table `role` / - / - | codes, mails, role lookup, public key, development data | SMTP |
| `apps/main-api` user service and controller | its own user table | create, find, update, deactivate, delete | PostgreSQL, JetStream |
| `packages/nats-jetstream-transport-module` | stream and consumer handles, hooks | publish, consume loop | JetStream stream USERS (work queue) |
| `apps/client-api-gateway` controllers | none; they set and clear two cookies of the browser | HTTP routes for all of the above | NATS request/reply and events |
| gateway guards, pipe, cache reader | none; they read Redis | throttler, JWT, CSRF and role guards, validation | Redis |
| exception filters of all three | none | turn exceptions into replies, replies into HTTP statuses | each other, along the reply |

How they interact. A browser talks to the gateway, which keeps the refresh token
in a signed cookie, checks access tokens and roles, and forwards each request over
NATS to auth-ms or main-api. auth-ms and main-api each own a user table; a signup
in one is announced to the other by a JetStream event (`auth.user.signup`,
`app.user.signup`), consumed with explicit acknowledgement. Redis is written by
auth-ms and read by the role guard of the gateway.

What is hard. Every handler is an `async` function of one Node process: between
two awaits it holds rows it has read, while other handlers run; some handlers
start several promises side by side (`Promise.all`); nothing is in a database
transaction, and the two databases, Redis and the stream are updated one after the
other. The hazards this leads to are listed, each at its line, in `PROJECT.json`
under `hazards`; the properties of section 4 are chosen for them.

What makes each part correct:

- *Sessions* (AuthService, CacheService): one refresh token per user is accepted;
  a replaced or withdrawn token is never accepted again; a delivered token is one
  that is or was accepted; sessions belong to verified, active users; a
  deactivation ends access and is final.
- *Recovery* (RecoveryTokenService, AuthService): a password changes only on a
  token mailed to its owner; a used token is gone, and so are its siblings.
- *Clearance* (utils, parseAllowedRoles): administrators do not act on their peers
  and do not make system administrators.
- *Synchronisation* (main-api, JetStream): a user created on one side eventually
  exists once on the other, with the same roles; deactivation reaches both.
- *Transport*: a message is handled at least once and settled; one bad message
  does not stop the consumer.
- *Gateway*: a role-guarded route runs only for a caller with a session; a cookie holds
  a token auth-ms has accepted, and no two browsers hold the accepted one; auth-ms is
  asked only for what the holder of a token may ask.
- *Replies*: every request is answered, once, with a status of HTTP, and a success means
  that the work is done.

## 2. Modules

| Module | Contents |
|---|---|
| `RefreshSessions` | Abstract specification: per user at most one accepted token; a session opens with a token that was never used and closes by spending it. |
| `AuthService` | The credential handlers of auth-ms over the database and the cache, one action per command. Properties, mutants of single actions, the refinement mapping to `RefreshSessions`. |
| `AuthHistory` | `AuthService` with a history variable, for the comment of `resetUserPassword` that speaks of the past. |
| `MCAuthService` | Symmetry for TLC. |
| `AuthServiceProofs` | The inductive type invariant and type correctness. |
| `AuthSessionProofs` | Session invariants, refinement, lockout. |
| `AuthRecoveryProofs` | Who a reset writes to, and that a used recovery token is removed. |
| `RolePolicy` | Pure operators: who may create or change a user, and which roles result. The text is the same in auth-ms and main-api. |
| `UserSync` | The two user tables and the work queue between them: signup, the handlers of main-api, publication, delivery, hooks, acknowledgement, process deaths. EXTENDS `RolePolicy`. |
| `WorkQueue` | Abstract specification of the stream with its consumers: events are numbered, handed out in order, and settled once, each by itself. |
| `Mirrors` | Abstract specification of what signup events are for: accounts, and their copies in main-api. |
| `MCUserSync` | Symmetry for TLC. |
| `UserSyncProofs` | Type correctness and the four safety properties of `UserSync`. |
| `UserSyncRefinementProofs` | `UserSync` implements `WorkQueue` and `Mirrors`. |
| `ErrorPath` | Pure operators: from an exception in a handler, through the filter of its service and the one of the gateway, to an HTTP status. |
| `Gateway` | Browsers, the gateway's guards and controllers, and auth-ms behind them. EXTENDS `AuthService`, whose actions are its steps, and `ErrorPath`; the refinement mapping back to `AuthService` is the identity, that to `DeviceSessions` reads the cookies. |
| `DeviceSessions` | Abstract specification of the whole: `RefreshSessions`, and which browser has the token of a session. A token is handed out once; a browser that has lost it never has it again. |
| `MCGateway` | Symmetry for TLC. |
| `GatewayProofs` | Types, refinement of `AuthService`, and the safety properties of `Gateway`. EXTENDS the proofs of `AuthService`, whose theorems it uses through the refinement. |
| `GatewayDeviceProofs` | `Gateway` implements `DeviceSessions`, and with it keeps what was proved of `AuthService`. |

## 3. How the state and the actions correspond to the code

**Stores.** `authUser[u]` is the part of a row of `auth_user` that handlers read
(`verified`, `active`, `hash`); `recoveryTokens` is the table of that name; `cache[u]`
is what Redis holds under `auth:user:<u>`. The cached record also has the roles and
`active`; auth-ms never changes roles (the `app.user.update` hook only logs), and
every caller of `insert` has checked that the row it passes is active, so the record
is determined by its hash.

**Calls.** `call[c]` is a handler invocation: its program counter is the await it is
suspended at, and its fields are the local variables that survive it. Calls share a
pool of slots, `Calls`, whose size bounds how many run at once.

**Steps.** One action per database or Redis command, in the order of the awaits.
What a handler does before its first write but after its first read (comparing
bcrypt hashes, verifying a signature, hashing) is local; it is part of the step
that reads. Where the code reads twice (`findActiveUser`, then the update; the row,
then the cached hash; the recovery token, then the user) there are two steps. A
handler that is refused before it wrote anything is not a step at all.

| Handler (`auth.service.ts`) | Steps |
|---|---|
| `loginUser` | `LoginUser` (row, checks, random), `RotateInvalidate` (DEL), `RotateInsert` (SET), `ReplyTokens` |
| `revalidateUserTokens` | `RevalidateUserTokens` (signature, row, checks), `Validate` (GET, compare; random), then as above |
| `logoutUser` | `LogoutUser` (signature, DEL) |
| `revokeUserAccess` | `RevokeUserAccess`, then in any order `InvalidateBranch`, and `FindActiveUser` before `DeactivateUser` |
| `recoverCredentials` | `RecoverCredentials`, `FindPreviousToken`, `DeletePreviousToken`, `CreateRecoveryToken` (row and mail) |
| `resetUserPassword` | `ResetUserPassword` (token, expiry), `FindUserToReset`, then in any order `UpdateUserPassword`, `InvalidateBranch`, and `FindRecoveryTokens` before its `DeleteRecoveryToken`s |
| `verifyAccount` | `VerifyAccount` (row, checks, code), `VerifyUserAccount` (save) |

**Promise.all.** `todo` names the branches not yet settled and `found` the deletes
still to run. A branch that fails does not stop the others (the promise is rejected,
the work goes on), which is what `CommandFails` does in a call at `revoke` or `reset`.

**Data.** A bcrypt hash is identified with the value it was made from: `checkHash`
is then equality. A refresh token is its payload `[sub, check]`; a signature is
taken to be sound, so clients present only tokens that were issued to them
(`jwts`) and recovery tokens that were mailed (`mailed`). A random UUID is fresh. The
one-time code is computed from one secret for all accounts
(`otp-authentication.service.ts`), so a valid code can always be presented. A lifetime
that ends is the action `Expire`.

**save.** TypeORM's `save` of an entity reads the row and updates the columns that
differ. `VerifyUserAccount` is one step that writes the whole row read at the start of
the call with `verified` set: this is the state after the update whenever no other
write falls between the two statements of the one `save`, a window that the separate
read at the start of the call already makes visible.

**Agents.** `revokeUserAccess` is given the agent that the role guard took from the
cache, whose `active` is always true. The model lets any user be the agent, so that
the refusal path of `checkAllowedActionOn_User` runs. The route that leads there,
deny-access, lets nobody through (section 8).

### UserSync

`users[s]` is the user table of a side, `auth` or `main`. A row keeps its id, `peer` (the
column `authUserId` or `userId`), the unique columns, roles and `active`. `stream` holds
the messages of USERS that are not settled (the stream is a work queue: a settled message is
removed), `pending` those delivered and not settled. `up` is the set of services that run. Both consumers filter on the other
side's subjects (`config/nats/*.json`), so an event has one `Receiver`.

| Code | Steps |
|---|---|
| `signupUser` | `SignupUser` (INSERT), `PublishEvent`; the mail that follows changes no table |
| `UserController.createUser` | `CreateUser` (clearance, roles, INSERT), `PublishEvent` |
| `updateUser` | `UpdateUser` (row, clearance), `SaveUser` (UPDATE, or INSERT when the row has gone), `PublishEvent` |
| `deactivateUser`, `deleteUser` | `DeactivateUser`, `SetInactive`; `DeleteUser`, `RemoveUser` |
| `initConsumeMessagesCycle` | `Deliver`: the server's next message goes to a new hook; nothing waits for the hook to end |
| `handleNatsJetstreamMessages` of both services | `HookCreate` (INSERT), `Ack`; or `HookFails` |

*Hooks that throw.* The loop calls the hook without awaiting it, and the hook throws after
`term`: the rejection is unhandled, and Node ends the process. The termination is only
buffered at that moment, so `HookFails` either removes the message or does not, and in
both cases every call of that process is lost and the service is down until `Restart`.

*Redelivery.* `Redeliver` needs `ack_wait` to have passed: no hook works on the message, or,
with `"slow"`, one does and takes long. An update message is logged and never
acknowledged, so it stays pending; its redeliveries change nothing.

*Agents.* The gateway attaches the auth-ms user as the agent; rows of main-api have
ids of their own, so `user.id === agent.id` is false for every request, and email and
password changes in `updateUser`, which are for oneself, cannot happen.

*Statements.* The bcrypt hash and the role lookup of `createUser` precede its one INSERT and
read only constant tables, so the whole is one step. `remove` and `save` read the row again
before they write it; as in `AuthService` they are one step, after the separate read at
the start of the handler.

### Gateway

`http[c]` is the request in slot `c`, from the browser's `fetch` to the arrival of the
response; the handler that auth-ms runs for it is `call[c]` of `AuthService`. `jar[b]` holds the
two cookies of a browser. `Guards` lists the guards of each route in the order they run:
those of the class first, then those of the method, where decorators apply bottom-up. It is put together
as the code does it, from `Private`, `CsrfCheck`, `RoleCheck` and `Protected`, which
`applyDecorators` makes of the last two, from the first to the last. `Guests` are the users whose roles `@Protected` rejects.

| Code | Steps |
|---|---|
| a `fetch` of a client | `SendCredentials`, `SendCookie`, `SendBearer` |
| throttler, `JwtAuthGuard` with `JwtStrategy`, `CsrfGuard`, `UserRoleGuard` | an action each, awaited in the order of `Guards`; the role guard reads Redis when it runs and answers 400 (no `req.user`, a malformed key), 500 (Redis fails, or the entry does not parse), 401 (no entry) or 403 (roles that the route does not list), or lets pass |
| validation pipe, UUID pipe of the path parameter | `ValidationPipe`, after the guards |
| `AuthController` | `EmitSignup`, `RefuseWithoutCookie`, and `Forward...` together with the first step of the handler of `AuthService` |
| `UserController` | `ForwardToMainApi` |
| a handler that throws on its first reads | `RefusedByHandler`, `RefusedCode`, `FirstCommandFails` |
| the rest of the handler, its reply | `HandlerStep`, `HandlerFails`: a step of `AuthService` and what `Answer` makes of it |
| `setAuthCookie`, `setCsrfCookie`, `clearAllCookies` | `CookiesAfter`, when the response arrives (`Receive`) |
| `firstValueFrom` after auth-ms has died | `Abandon`: nobody answers, the browser gives up |

*A call and its request.* A handler that `AuthService` treats as no step at all, because it
throws before it writes, is an answer here (`Refusal` lists what it throws). In a `Promise.all`
the first branch that throws answers for all, and the others run on: `Answer` looks at
what the step threw, not at whether the call has ended, so a slot can be `answered` while its
`call` still works; the slot takes a new request only when both are idle.

*What a client has.* It sends the cookies of its browser, recovery tokens that were
mailed, and access tokens of users that were given one (`jwts`): whoever has logged in keeps an
access token, which may still be valid or have expired by the time `JwtAuthGuard` looks.
A CSRF cookie and header go together, since the client copies one from the other.

*Errors.* `statusCode` is the `catch` of the RPC filters, `answer` that of the gateway's filter
applied to it. Of a message only the status is kept, because nothing else decides what the
gateway or the client does next.

*main-api* answers here with any status it can (`MainApiReplies`); its state is in `UserSync`.
The routes of `UserController` with the same guards are one route, `write`.

**Faults.** `CommandFails` (a command answered with an error), `Crash` (the process is
killed and restarted: the calls are lost; outside development the start-up keeps
database and Redis as they are) and `Expire`; each run chooses which by `Faults`.

## 4. Properties

| Property | Kind | What could break it |
|---|---|---|
| `TypeOK` | invariant | a step leaving a call in a state that does not fit its await |
| `NoRevival` | invariant | a slow rotation putting back a token that was withdrawn while it ran |
| `DeliveredTokensAreTracked` | invariant | replying before the SET; a token stored under another user's key |
| `SessionsAreOfVerifiedUsers` | invariant | a session opened on a row that a late save has changed |
| `LockoutIsFinal` | action | any path by which a deactivated user, with no overlapping call left, is active or gets a session again |
| `RedeemedTokenIsRemoved` | action | two recoveries leaving two rows, and a reset removing one |
| `PasswordsChangeByOwnToken` | action | a password written for the wrong row while tokens are rotated |
| `ImplementsSessions` | refinement | any of the above on sessions, plus a token accepted for two users or twice |
| `DeactivationSettles` | liveness | logins or revalidations of a deactivated user that can go on for ever |

In `Gateway`:

| Property | Kind | What could break it |
|---|---|---|
| `GTypeOK` | invariant | an error that reaches the client without a status, or with a message for one |
| `SingleDevice` | invariant | two overlapping logins whose responses both carry an accepted token |
| `ResetAnswered` | invariant | a success answered while, or although, the branch that removes the token fails |
| `LogoutShutsOut` | action | access tokens, cookies or revalidations that outlive the session |
| `ImplementsAuthService` | refinement | a cookie set before its token is stored; a token presented that nobody was given |
| `ImplementsDevices` | refinement | a cookie that expired or was replaced set back by a late response; a token in two browsers, or delivered twice |
| `EveryRequestEnds` | liveness | a branch that fails while others run; a guard or handler that answers nobody |

In `UserSync`:

| Property | Kind | What could break it |
|---|---|---|
| `TypeOK` | invariant | an event or a call that does not fit its consumer |
| `MirrorsHaveSources` | invariant | an event published before, or without, the row it announces |
| `DroppedOnlyByItsHook` | action | an acknowledgement before the insert; a termination or a death that takes another hook's message, or one whose row could still be inserted |
| `GoneIsFinal` | action | a save that brings a deactivated or deleted user back after the updates that overlapped it |
| `SysAdminsAreMadeBySysAdmins` | action | roles of a request written unfiltered, or roles read early written late |
| `ImplementsWorkQueue` | refinement | a hook that settles another hook's message, or settles one nobody was handed |
| `ImplementsMirrors` | refinement | a second copy of an account; a redelivery, an update or a late save that changes whose copy a row is |
| `SignupEventsSettle` | liveness | a message that is redelivered for ever, or waits for a consumer that has room for it |

`DroppedOnlyByItsHook` says where at-least-once delivery ends in this code. Both hooks terminate
the message on *any* error of `createUser`. An error on a unique column drops an event that could
never be stored; a failed connection or role lookup drops, just as finally, a signup
that a redelivery would have stored. The property says so: such an event is dropped only by the
hook that was working on it, in a step that ends the service, and, as long as `createUser` fails on
unique columns only, only when they forbid the row.

`SignupEventsSettle` says that a stored signup is settled if the services do not go on dying, *or is
starved*: not delivered, at a consumer whose `max_ack_pending` is taken by update events. Those
are never acknowledged (`auth-user.service.ts:64`), so enough updates stop the mirroring of
signups while both services run. Without `Starved` in the property TLC
finds that behaviour in `sync_events`; with it, it shows that nothing else holds a signup up, and
that an event already delivered is settled even then.

`SignupsAreMirrored` and `MirrorsHaveTheRolesGranted` are comments and README sentences
that the code does not keep.

The mapping of `ImplementsDevices`: the holder of a session is the browser whose cookie is
the token in the cache (`Holder`), and its token has been handed out when auth-ms has delivered it
and no response under way carries it (`Handed`). So the arrival of a response is `Hand` if it
carries the accepted token, and at most a `Forget` if it carries one that another rotation has
replaced meanwhile: then the browser loses the session it had and no browser gets it.

The mapping of `ImplementsMirrors`: the accounts are the rows of auth-ms that are no copies, the
copies those of main-api that are, each with its id, the id of its account and the email. A
deletion is `Remove`, after which a redelivered event may `Copy` the account again under a new id,
and an update that had read the row may save it back; both happen in the code. What never happens
is two copies at a time, or a copy whose email or account changes.

`LockoutIsFinal` and `DeactivationSettles` belong together: a deactivation does not end
access by itself (section 8), but the calls that overlap it end, and after that the
lockout is permanent.

`RevokedUserHasNoSession`, `DeactivationIsKept` and `RecoveryTokenIsUsedOnce` state comments
of the code that the code does not keep; `SysAdminsMayDenyAccess` states an integration test
of the gateway.

## 5. Runs and bounds

| Run (cfg) | Instance | Shows |
|---|---|---|
| `sessions` (`AuthSessions.cfg`) | 2 calls, an administrator and a user, 3 random values, the session operations, failing commands and restarts, no symmetry | `TypeOK`, `NoRevival`, `DeliveredTokensAreTracked`, `SessionsAreOfVerifiedUsers`, `LockoutIsFinal`, `ImplementsSessions`, `DeactivationSettles` |
| `recovery` (`AuthRecovery.cfg`) | 2 calls, an administrator and a user, 2 random values, 2 passwords, logins, recoveries, resets, verifications, expiry | `RedeemedTokenIsRemoved`, `PasswordsChangeByOwnToken` |
| `revoked_session`, `deactivation_undone`, `token_used_twice` | 2 calls, 3 random values | the counterexamples of section 8 |
| `sync_events` (`SyncEvents.cfg`) | 2 calls, 2 emails, 2 usernames, 2 events, 3 ids, 1 unacknowledged message per consumer; signups, and creations and updates by a sys_admin; failing publications, slow hooks, main-api dying and restarting, no symmetry | `TypeOK`, `MirrorsHaveSources`, `DroppedOnlyByItsHook` (conflicts only), `SignupEventsSettle`, `ImplementsMirrors` |
| `sync_updates` (`SyncUpdates.cfg`) | 2 calls, 1 email, 1 username, 3 events, 3 ids, 2 unacknowledged messages per consumer; every operation, agents admin and sys_admin, requests with no role list or `{sys_admin}`; failing publications, inserts that fail for any reason, slow hooks, main-api dying and restarting | `GoneIsFinal`, `SysAdminsAreMadeBySysAdmins`, `DroppedOnlyByItsHook` (any error), `ImplementsWorkQueue`, `ImplementsMirrors` |
| `signup_lost`, `roles_escape` | 2 calls | the counterexamples of section 8 |
| `gateway` (`Gateway.cfg`) | 2 browsers, 2 requests, 2 users, 2 random values; login, revalidation, logout and the guarded routes of `write`; expiring tokens and cookies, auth-ms dying | `SingleDevice`, `ImplementsAuthService`, `LogoutShutsOut`, `ImplementsDevices` |
| `replies` (`GatewayReplies.cfg`) | 1 browser, 2 requests, 1 user (a guest, no administrator), 1 random value, 2 passwords; signup, login, recovery, reset, verification and the role-guarded routes `write` and `delete`, which refuse a guest; every command may fail, those of the role guard too, no symmetry | `GTypeOK`, `ResetAnswered`, `EveryRequestEnds` |
| `deny_access` (`DenyAccess.cfg`) | 1 browser, 2 requests, a system administrator and a user | the counterexample of section 8 |

Bounds. `Calls` is the number of handlers in flight: two suffice for every pairwise
overlap (login against revocation, reset against reset); that a third call changes nothing
is what the proofs are for. `MaxDraws` bounds the random values of a
behaviour; a call that needs one is accepted only while one is left for it and for the
calls that have not drawn yet (`DrawsLeft`), so no call is stuck for lack of one. Three
values give two successive sessions and a rotation in flight; in `recovery`, two give two
outstanding recovery tokens, of one user or of two. Two users with different roles give
both outcomes of the clearance check. Two passwords tell the old one from the new.
`recovery` has no failing commands: `RedeemedTokenIsRemoved` is about resets that run to
their end.

In `UserSync`, `MaxEvents` bounds the messages of a behaviour and `MaxIds` the rows inserted by
requests. Two emails and two usernames give a conflict on either column alone and on both;
two calls give a hook that dies while another works, or two hooks for one event. `SyncEvents`
kills main-api at any point and auth-ms only by an exception of its hook: the hooks are the same
code, and one killed service is what keeps the run within minutes. What a killed auth-ms does to
its signups is in `signup_lost`, and the proofs have both. `MaxAckPending` is 1 in `sync_events`, so
that one update fills the consumer; the files in `config/nats` leave it at the server's default, a larger number, which
changes how many updates it takes and nothing else. `sync_updates` has one email and one username: every second row
conflicts with the first one until a deletion makes room, so that redeliveries after a deletion, the
saves of updates that had read the deleted row, and hooks that fail meet.

Symmetry permutes calls, random values and passwords, which the specification only
compares for equality; users are not permuted because their roles differ. It is used
for invariants and for properties of the form `[][A]_v` and a refinement without
fairness, which TLC checks step by step, and not for liveness.

`MCUserSync` permutes calls, emails and usernames likewise.

In `Gateway`, two browsers and two requests give two devices whose responses cross, and a
revalidation in flight while a logout runs. Two users may share a browser, so that the token of
one takes the place of the other's. Two random values are two sessions, of one user or of two, the
second opened while the first is current or gone. `replies` needs a recovery that ends and a reset, for which one random value
is enough, and a second request of any kind beside them. Of expiry, restarts and failures
each run has those its properties are about.

`MCGateway` permutes requests, browsers, random values and passwords, and for `gateway`, where no
user has a role of his own, the users.

Deadlock is checked in `sessions`, `gateway`, `replies` and `deny_access`, where new requests
are always possible. In the other runs the random values run out and the system may stop, as clients may.

## 6. Fairness

`FairSpec` adds weak fairness of `Continue(c)` for each call: once a command has been
answered, the event loop resumes the handler that awaits it, and drivers answer every
command with a result or an error. Nothing is assumed of clients (`Request`,
`LogoutUser`), failures, restarts or expiry, which may happen or not.

`GFairSpec` of `Gateway` is weakly fair to `Serve(c)` for each request: guards are awaited and
resumed, handlers go on, and a response that is sent arrives. Nothing is assumed of
browsers, failures or expiry. `EveryRequestEnds` is checked without restarts of auth-ms: the
gateway waits for a reply without a timeout (`firstValueFrom`), so a request whose handler died
ends only when the browser gives up, which is no property of the code.

`FairSpec` of `UserSync` is weakly fair to `Continue(c)` for the same reason, and to the
strongly fair to the consumers as a whole: the server delivers as long as it has something deliverable. Strongly,
because in the model a delivery needs a free slot of `Calls`; in the code nothing waits for a
hook to end, and requests that keep the slots busy must not stop the server.
Restarts are not assumed: `SignupEventsSettle` is about behaviours in which both services
are up from some point on. It cannot do without: a refused message kills its consumer, the
termination may be lost with it, and then the redelivery kills it again.

## 7. Proofs

All seven proof modules are checked to the last leaf. Of the properties of passing runs, every
invariant, action property and refinement is proved; the three liveness properties are not.

`AuthServiceProofs`, `AuthSessionProofs` and `AuthRecoveryProofs` prove, for any sets of
users, calls, values and roles that satisfy `AuthAssumption` (roles are given to users;
`None` is not a value; the bound is a number):

| Theorem | Statement |
|---|---|
| `TypeCorrect`, `TypeOKHolds` | `Spec => []TypeInv`, `Spec => []TypeOK` |
| `NoRevivalHolds` | `Spec => []NoRevival` |
| `DeliveredTokensAreTrackedHolds` | `Spec => []DeliveredTokensAreTracked` |
| `SessionsRefined` | `Spec => ImplementsSessions` |
| `SessionsAreOfVerifiedUsersHolds` | `Spec => []SessionsAreOfVerifiedUsers` |
| `LockoutIsFinalHolds` | `Spec => LockoutIsFinal` |
| `PasswordsChangeByOwnTokenHolds` | `Spec => PasswordsChangeByOwnToken` |
| `RedeemedTokenIsRemovedHolds` | `Spec => RedeemedTokenIsRemoved`, if neither `"error"` nor `"crash"` is in `Faults` |

- *Types.* `TypeOK` is not inductive: a step may use `call[c].token` only because the
  await the call is at says that it is a token and not `None`. `TypeInv` adds what each
  program counter says of the local variables.
- *Sessions.* `NoRevival` alone says nothing about a token that a call is about to
  insert. `SessionInv` adds that such a token was drawn, is not spent, is in no key
  and belongs to one call, and that what is in the reply or delivered is cached for its
  subject or spent. Its preservation has a step per action; the interesting ones are
  `Validate` and `LoginUser` (freshness comes from `Draw`), `RotateInsert` (the key may
  hold another call's token, which becomes spent) and `ReplyTokens`.
- *Refinement.* With `SessionInv` each cache step is an `Open` or a `Close` of
  `RefreshSessions`, and every other step leaves `cache` and `spent` alone.
- *Verified users.* `VerifiedInv` adds that the row of a call at `validate`, `rotate`
  or `insert` is still verified: no step takes verification away.
- *Lockout.* Follows from the actions and `TypeInv`: with no call of the user at a
  point that inserts or saves, the only steps that touch the row write a password or
  deactivate, and requests are refused because the row they read is inactive.
- *Resets.* `RowsInv`: a recovery token has one owner, in the table and in the mail, and
  was drawn. `ResetsInv`: a call of a reset holds a mailed token of the user it writes. Both
  survive rotations because these insert only new tokens.
- *Removal.* `Swept`: once a reset has queried the rows of its user, a row with its token is on
  the list still to be deleted. No later insertion can break it, the token being old. The
  assumption is needed: a branch that fails ends the call with the row in place.

`GatewayProofs` proves, under the same assumptions and `GatewayAssumption` (`None` is no browser,
exception or refresh token), for any number of browsers and requests:

| Theorem | Statement |
|---|---|
| `ErrorsAreAnswered` | every exception of a handler is answered with 400, 401 or 500 |
| `GTypeCorrect`, `GTypeOKHolds` | `GSpec => []GInv`, `GSpec => []GTypeOK` |
| `AuthServiceRefined` | `GSpec => ImplementsAuthService` |
| `SingleDeviceHolds` | `GSpec => []SingleDevice` |
| `LogoutShutsOutHolds` | `GSpec => LogoutShutsOut` |
| `ResetAnsweredHolds` | `GSpec => []ResetAnswered` |

- *Refinement.* `GInv` says that the cookies in browsers, in requests and in responses were
  delivered (`jwts`). With it a forwarded request is one that `AuthService` allows, and the other
  steps of the gateway leave auth-ms alone. From here on the theorems about `AuthService` are
  facts about the composed system: `SessionInv` and `RowsInv` are used as they are.
- *Single device.* Being accepted is not enough to argue with, because a token is on its way
  to a browser before and after it is accepted. `HotInv`: a token about to be stored or
  replied was delivered to nobody. `SentInv`: which route a request at auth-ms has, by the point
  of its call. `CookieInv`: no token is in two places among browsers and
  responses that are under way.
- *Logout.* `LoggedOut` is kept by every step except a login: a request gets past the role guard
  only with an entry in the cache, an entry comes only from a call about to insert, and such
  a call comes from a login or from a revalidation whose token is still in the cache.
- *Resets.* `ResetInv` joins the request to the call: while it is `sent` its call holds the same
  token, and `Swept` carries over to the answer, which is a success only when the call has ended
  without a throw. Unlike `RedeemedTokenIsRemoved` it holds with every fault: a reset that
  fails is not answered 200.

`GatewayDeviceProofs` proves, under the same assumptions:

| Theorem | Statement |
|---|---|
| `DevicesRefined` | `GSpec => ImplementsDevices` |
| `GatewayKeepsPromises` | `GSpec` implies `ImplementsSessions`, `LockoutIsFinal`, `PasswordsChangeByOwnToken` and the invariants of sessions |

- *Invariant.* `DeviceInv` is the invariant of `SingleDevice` and `AwaitedInv`: a call that is
  validating, rotating or about to reply is that of a login or revalidation that still waits.
  Without it a reply could deliver a token that goes out with no response, and the session would
  count as handed to nobody. It holds because a browser gives up (`Abandon`) only when its call
  is over, and a throw ends a rotation.
- *Steps.* `DeviceKinds` sorts them: nothing is delivered (`Undelivered`), a handler replies, a
  response arrives, a cookie expires. In the first kind sessions open and close as in
  `SessionsRefined`, and the token of a new session is nobody's because `SessionInv` says that every
  delivered token is accepted or spent. A reply delivers a token and puts it on its way in one
  step, which nobody sees. An arrival is the interesting kind: `CookieInv` says that the token is
  nowhere else, so `Hand` finds it not handed out, and a stale token makes nobody current.
- *Promises.* From `AuthServiceRefined` and the theorems about `AuthService`.

`UserSyncProofs` proves, under `RoleAssumption` and `SyncAssumption` (role lists
are lists of roles; `None` is no role list, agent, number or side; bounds are numbers):

| Theorem | Statement |
|---|---|
| `TypeCorrect`, `TypeOKHolds` | `Spec => []TypeInv`, `Spec => []TypeOK` |
| `AdminsCannotGrantSysAdmin` | `parseAllowedRoles` for an agent without sys_admin |
| `MirrorsHaveSourcesHolds` | `Spec => []MirrorsHaveSources` |
| `DroppedOnlyByItsHookHolds` | `Spec => DroppedOnlyByItsHook`, for any faults |
| `GoneIsFinalHolds` | `Spec => GoneIsFinal` |
| `SysAdminsAreMadeBySysAdminsHolds` | `Spec => SysAdminsAreMadeBySysAdmins` |

- *Originals.* `SourceInv` follows id and email of an account from its row through the handler
  that publishes, the stream and the hook to the copy, and through updates that hold the
  copy while they run. Rows of auth-ms are never removed, so what holds once keeps holding. The
  original is an account that signed up, not itself a copy, which `Mirrors` needs.
- *Events.* `EventInv`: a sequence number is at most the last one and names one event; a
  hook in flight holds the event of its number, if that is still in the stream; a hook that
  is about to acknowledge has inserted its row. So what leaves the stream is the event of the hook
  that takes the step, which has either acknowledged an inserted row or thrown.
- *Gone users.* Needs only that ids are at most `lastId`, which is where new ones begin, and
  that an update starts from an active row.
- *Roles.* `GrantInv`: an update about to write sys_admin was asked for by a sys_admin. The
  case of a request without roles is the interesting one: it writes back the roles it has read,
  and `checkAllowedActionOn_User` keeps an admin from rows that had sys_admin then.

`UserSyncRefinementProofs` proves, under the same assumptions:

| Theorem | Statement |
|---|---|
| `WorkQueueRefined` | `Spec => ImplementsWorkQueue` |
| `MirrorsRefined` | `Spec => ImplementsMirrors` |

- *Queue.* Two hooks may have the same event, after a redelivery. `PendingInv`: what is
  delivered is stored, and a hook whose event is still stored has it delivered. With `EventInv` a
  hook that settles removes its own event, or nothing if the other hook came first; a hook that is
  killed, or whose termination is lost, changes nothing.
- *Copies.* A row of main-api that has been deleted lives on in an update that has read it.
  `IdentityInv` speaks of the rows in the table and in such updates together (`Known`): an id is
  at most the last one given, and belongs to one copy. So a save changes no copy, or brings back
  one that was removed, and the unique column keeps it from being the second one of its account;
  `SourceInv` has the account.

Checked by TLC only: `DeactivationSettles`, `EveryRequestEnds` and `SignupEventsSettle`. Liveness
under fairness is out of the prover's reach.

## 8. What the code does that its comments do not say

1. `revoked_session`: `revokeUserAccess` is commented "no longer granted access through
   cache". A login between its DEL and its SET inserts after the revocation's DEL.
2. `deactivation_undone`: "deactivated users are can no longer interact with
   application" (`auth-user.service.ts:192`). `verifyUserAccount` saves a whole entity read
   earlier and can undo a deactivation.
3. `token_used_twice`: "Remove recovery tokens (one time use)". Two overlapping resets
   with one token both write a password.
4. `signup_lost`: README.md calls the events an outbox. The event is published after the
   commit, from memory; a process that dies in between loses it for good.
5. `roles_escape`: "Admins can't create sysadmins" (`user.service.ts:291`). main-api
   filters the roles of the row, not those of the event, and auth-ms grants what the event lists.
6. `deny_access`: "it should allow only highest privilege user to perform this action" (the
   gateway's integration test). `denyAccess` declares its role guard below the JWT guard;
   decorators apply bottom-up, so the role guard runs first, finds no `req.user`, and the
   malformed cache key is answered 400, whoever asks.

Four more the code does differently from a comment, without a run of their own: the hooks
terminate a message whatever `createUser` failed on, so at-least-once delivery (README.md of the
transport, line 22) ends with one failed query (`DroppedOnlyByItsHook` has the case); a login
with the old password that overlaps a reset leaves a session behind
(`auth.service.ts:214`); hooks return from update and delete events without settling them, so
the messages stay pending and in the end shut out signups (`auth-user.service.ts:64`,
`SignupEventsSettle` has the case); a signup is answered 200 before auth-ms
has tried to store it.

## 9. Not modelled

- A JetStream message that does not decode (it ends the consume loop), and draining the
  connection at shutdown: every publisher is in the repository and encodes what it sends.
- NATS request/reply is taken to deliver a request once while both ends run; auth-ms dying
  with a request is modelled, a lost reply is the same to the gateway.
- `findAll`, `findOneById` of main-api: reads.
- Development mode (`flushdb`, `dropSchema`, seeds): it erases the state on purpose.
- Cryptography, the arithmetic of one-time codes, the SQL engine: libraries; what the
  code relies on is stated in section 3.
- Logging, configuration, bootstrap, the JWKS endpoint, pagination and OpenAPI decorators:
  wiring and pure functions without state.
- `seed.service.ts` of auth-ms and main-api: development only; `run` refuses in production.
- `main-api/src/common/filters`: its handlers are RPC handlers, which that HTTP filter never sees.
- Response bodies and error messages: only the status matters to what happens next.
- The branch of `JwtAuthGuard` that clears cookies for a token that does not verify: the
  cookies have another path and are not cleared by it.

## 10. Plan

In this order; each module with its runs, then its theorems.

1. `RefreshSessions`, `AuthService` and their proofs: done.
2. `RolePolicy`, `UserSync`, `WorkQueue`, `Mirrors` and their proofs: done.
3. `ErrorPath`, `Gateway` composed with `AuthService`, `DeviceSessions`, and their proofs: done.
4. The consume loop on its own: messages that do not decode, drain at shutdown.
5. `UserSync` with `AuthService`: what a deletion or deactivation in main-api means for logins.
6. `Verification`: one-time codes, their window, signup and verification mails.
