# nest-auth-service in TLA+

A TLA+ model of the authentication service in this repository: state machines
translated from the TypeScript of `src/`, instances of them that TLC checks, and
theorems that TLAPS proves for every value of the constants. Paths below are those
of the repository (`src/auth/...`).

```
tlc -workers 2 -config RefreshRaces.cfg MCRedisAuthSessions   # a run: see "Runs"
tlapm RedisAuthSessionsProofs.tla                             # the proofs of a module
```

## The system

The service offers the same operations twice (README of the repository, "DB-backed
mode" and "Redis-backed mode"), over one table of users:

| Component | State it keeps | Operations |
|---|---|---|
| `AuthWithRedisService` (`auth.redis.service.ts`) | none of its own | register, verify, resendOtp, forgotPassword, resetPassword, login, refreshTokens, logout, logoutAllDevices |
| `RedisSessionsService` | `session:<id>` (TTL 7 days), `sessions:<user>` (a set, no TTL) | createSession, getSession, revoke, revokeAllSessions |
| `TokenService` (`redis-token`) | `refresh-token:<user>:<family>` = hash of the family's one redeemable token, `token-families:<user>` | issueToken, verifyRefreshToken, revokeTokenFamily, revokeAllFamilies |
| `OtpService` | `otp:register:<email>`, `otp:reset:<email>` = code, attempts (TTL 10 minutes) | generateOtp_, verifyOtp |
| `AuthService` (`auth.service.ts`) | none of its own | the same operations over PostgreSQL |
| `SessionsService`, `UserTokensService` | tables `sessions` (by jti), `verification_tokens` (by token) | one SQL statement each |
| `UsersService` | table `users` | createUser, activateUser, updateUserPassword |
| `RedisModule`, `RedisService` | a Redis client per worker: its connection, its attempts, the commands that wait | SET EX, GET, DEL, SADD, SREM, SMEMBERS |
| `RedisHealthIndicator`, `HealthController` | a Redis client of their own | PING; live, ready, health |
| `MailServiceService` | none | sends a mail, swallows its errors |
| guards and strategies | none | reject a request whose token is expired or not signed by us |
| controllers, filter, interceptor, DTOs, decorators | none | take a request to its service and the result to an answer |
| throttler, logger | counters in Redis, by a client of the library; none | 429; output |

The service is started as a PM2 cluster (`ecosystem.config.js`): requests run in
several processes that share PostgreSQL and Redis and nothing else. There is no lock,
no `WATCH`/`MULTI`, and one SQL transaction in all (`AuthService.register`). Every
operation is a sequence of commands, and what is hard about this code is what happens
between two of them:

- **interleaving**: two refreshes with one token, a refresh and a logout, a login and
  a logout-all, two verifications of one code, two registers of one address;
- **crashes**: a worker killed, or a command given up, between any two commands;
- **lost answers**: the tokens were rotated and the client does not know, or a command was
  executed and ioredis sends it again;
- **the connection**: commands that wait for Redis to come back, a client that gives up
  for good, beside another that does not;
- **time**: keys that expire by themselves, JWTs whose identity is a whole second, a
  token that expires between the guard that admits it and the service that verifies it;
- **two databases**: a user in PostgreSQL and its codes in Redis, without a transaction;
- **two places that do the same thing**: hashing, or making tokens, in a service and in
  its caller.

`PROJECT.json` lists each such hazard at its line, with the properties that cover it.

## Modules

```
RedisService <- RedisSessionsService <- TokenService <- RedisAuthSessions   Redis flow: sessions
                                    --implements--> RotatingSession
RedisService <- OtpService  --implements--> OneTimeCode                     Redis flow: codes
UsersService <- RedisAccounts                                               Redis flow: accounts
SessionsService <- DbAuthSessions  --implements--> RotatingSession           DB flow: sessions
UsersService, UserTokensService, SessionsService <- DbAccounts              DB flow: accounts
RedisConnection <- HttpRequests                                             routes and connections

RedisAuthSessions <- RedisAuthSessionsProofs <- LogoutAllProofs, RefreshTokenProofs
OtpService <- OtpServiceProofs        RedisAccounts <- RedisAccountsProofs
DbAuthSessions <- DbAuthSessionsProofs        DbAccounts <- DbAccountsProofs
HttpRequests <- HttpRequestsProofs
```

An arrow `A <- B` is `B EXTENDS A`. The lower modules are the stores: variables, and
one operator per command. The upper modules are the services: each has `req[r]`, the
program counter and the local variables of request `r`; one action per command that
request sends; `Arrive(r)`, the requests that clients may send in the present state;
`Progress(r)`, the steps of one that has begun; and `Fail(r)`, which ends it wherever
it is. `MC*` modules add the symmetry sets and definitions the configurations need,
and `*Proofs` modules hold the theorems.

Steps are named by the operation and the command: `RevokeSrem` is the `SREM` of
`RedisSessionsService.revoke`, and `At(r, "refresh.record")` says that `refreshTokens` is
about to read the token record. `PROJECT.json` maps each definition to its lines.

**RedisAuthSessions** is the core. `session[l]`, `userSessions[u]`, `record[l]` and
`tokenFamilies[u]` are the four kinds of keys. A login mints one session id and one
family id, both random and never changed afterwards, so both are named by the login
`l`. A refresh token is a JWT over the user, the session, the family and the whole
second it was signed in, so within a family it is that second. `held[l]` is what the
client has received: a token in `held` may be presented again at any time, which
covers retries, lost answers and copies. `Resend(r)` takes a request back to a command that
was executed and is not known to be answered, because ioredis sends such a command again
after a reconnect; `FailsAt` and `ResendsFrom` name the steps at which a run lets either happen.

**OtpService** is one key. A verification is the `GET` with the branch it selects
(`VerifyMatches`, `VerifyMismatches`, `VerifyExhausted`), and the `DEL` or `SET` that
follows; the `SET` writes back what was read. **OneTimeCode** is what such a service
promises: one current code, a bounded number of refusals, acceptance at most once.

**RotatingSession** is what both flows promise of each login's session, whatever they store it
in: somewhere there is one right to the next refresh token (`right[l]`), with a request that will
hand it out, with the token handed out last, or with nobody after a crash; a token is
exchanged at most once; and a session that has ended hands out nothing. A race
makes the promise void, and the module says how far: a *contended* session may exchange
a token twice, but still ends for good; only an *excused* one may come back. The Redis
flow uses both, the DB flow *excused* alone: there a race of two refreshes also leaves two rows.

**RedisAccounts** is one address: its row in `users`, its two codes, its mailbox.
**DbAuthSessions** and **DbAccounts** are the DB flow for one user, at the grain of SQL
statements. The first is about the rotation of tokens, the second about the account. What they
share is the table `sessions`: resetPassword deletes its rows while refreshTokens, logout,
logoutAllDevices and login of other requests go on, so DbAccounts has these, too, as far as the
table goes (any row may be presented, a refresh may be cut short anywhere). `old` has
the sessions that go back to a password replaced since, through any number of refreshes, and
`spared` those that the reset's `DELETE` cannot see: a request in progress, a login or a refresh,
stores them afterwards.

**HttpRequests** is one worker: a request comes through CORS, the throttler, its route's
guard, pipe and decorators to a handler that awaits rounds of Redis commands, and on to
the interceptor or to `GlobalExceptionFilter`. **RedisConnection** is what it waits for:
the services' client (`"main"`), whose `retryStrategy` stops after ten attempts, and the
health indicator's (`"health"`), which never stops. A client is `wait`, `connecting`,
`ready` or `end`; a command is `queued`, `sent`, `executed`, `answered` or `rejected`. The
services are there only as the commands they send and the errors they may throw: what they do with
the data is in the other modules, which in turn take a connection's trouble as `Fail` and `Resend`.

Definitions introduced as *slips* (`SetRecordIfAbsent`, `RefreshKeepsRow`, ...) are not
part of any specification. Each is the form a definition would take after a plausible
mistake, and for each property one of them makes it fail, so no property holds
emptily. `PROJECT.json` pairs them under "mutants".

### What is abstracted, and why it is sound

- Random values (session ids, families, jtis, verification tokens) are fresh by
  construction, and SHA-256 has no collisions. Six-digit codes are fresh too, so a code
  that is generated again by chance is outside the model.
- Signatures are not modelled: only tokens the service has issued are presented.
- argon2 is symbolic: a stored password is a text and the number of times it was hashed.
- Redis commands and SQL statements are atomic, and each is executed once or (`Fail`)
  not at all. That a command was executed and its answer lost is the same as `Fail` after
  the step. That ioredis sends a command again is modelled where a second execution could do
  most harm, in RedisAuthSessions; in the one-time codes and accounts it is not.
- In HttpRequests an attempt to connect succeeds or fails as a whole, the commands of one
  `await` count as one, and a service may refuse between any two of them. The body of
  an answer is its status, its success and its code (the envelope's own `statusCode` says 200
  where the HTTP status of a POST is 201).
- Commands sent together (`Promise.all` in `createToken`, `revoke` and the rest) travel on one
  connection and run in the order they were sent; others may come between them.
- Columns that are stored and never read are left out: `sessions.expiresAt`,
  `verification_tokens.type` and `.otpCode`, `users.passwordChangedAt`, `users.lastLoginDate`.
- In RedisAccounts a code may lapse or be found exhausted at any time, which
  over-approximates OtpService's counting and clock; OtpService models both exactly.
- A step without any effect on the stores and the request (a refused request, a wrong
  password) is left out: it is a stutter.
- Users are independent in every key and row, so DbAuthSessions, OtpService and the
  account modules have one. RedisAuthSessions has any number, and its proofs hold
  for any number; its runs use one, since only logins of one user share keys.
- `RedisAuthController` routes logout and logout-all without the guard that sets
  `request.user`, so both answer 500 (HttpRequests); and `AuthController` is not among the
  controllers of `auth.module.ts`. RedisAuthSessions, DbAuthSessions and DbAccounts start
  behind the routes, as the services are written to be called.

History variables (`spent`, `replayable`, `revoked`, `raced`, `lost`, ...) are read by no action. They
record what a property has to talk about and the stores have forgotten, or that one of
the races this code cannot survive did take place: the properties say what holds
otherwise. `replayable` has the families with a token that the code may exchange twice, and each of
the ways into it is a step of the code: a refresh finds the record's token valid while another
that has read the record has not replaced it yet (`WasRead`), one is cut short between the two
(`Fail` while `Replacing`), or a token is signed in the second of one already
exchanged (`IssueSign`).

## Runs

Passing runs (times are for two workers):

| Run | Instance | What it shows |
|---|---|---|
| `RefreshRaces` | 1 login, 2 requests, clock 0..2, failures wherever a request has done a part of its writes but in a revocation (`HalfDone`), `SET` of the record sent again | Refresh, logout and logout-all on one session, up to the expiry of token, record and session. A revocation is final (`RevocationSticks`); *reuse detected* and *token revoked* are answered only with a reason (`ReuseReportJustified`, `MissingReportJustified`); every request ends, and a detected reuse ends the session for good. And the session implements RotatingSession (`ImplementsRotation`). 296,000 states, under 3 min |
| `LogoutAll` | 2 logins of one user, 2 requests, failures and resends at every command that writes a session or the index (`IndexCommands`), no clock | Logout-all against concurrent logins, refreshes and logouts: it ends what was in use when it began, but for the two gaps that `missed` records. 1.9 million states, 75 s |
| `OtpRaces` | 3 codes, 2 requests, 2 attempts, clock 0..2, failures | A code that no two requests raced for is accepted once, refused a bounded number of times, and worthless once a newer one exists; the newest works for its whole TTL; and OneTimeCode is implemented. About 50 s |
| `Accounts` | 3 codes, 2 passwords, 2 requests, failures | PostgreSQL and Redis agree after every step: no code without its user, no activation or reset without a code that was mailed. A few seconds |
| `DbSessions` | 4 jtis, 2 requests, failures | Rotation neither multiplies nor loses sessions and an ended login stays ended, unless refreshes of the login overlapped or the end met a refresh; and each login implements RotatingSession (`ImplementsRotation`). 243,000 states, 2 min |
| `DbAccounts` | 3 tokens, 2 passwords, 2 jtis, 2 requests, failures | One token at a time, the latest one kept, redeemed once; and a reset against logins, refreshes and logouts: it ends the sessions of the old password but for those that `spared` records. 694,000 states, 1¼ min |
| `HttpRequests` | 2 requests of one worker, one of any route and one of `login` or `ready`; the services' client stops after 2 attempts, a command is given up after 2 | What is answered as done was done (`SuccessIsDone`); once the client has ended, nothing that needs it succeeds (`EndIsForGood`; that readiness still may is permitted by the model, not checked); every request is answered (`RequestsAnswered`); the services' client is connected to stay in the end, or has given up (`ClientSettles`). 197,000 states, under 2 min |

**Why these bounds.** Every race in this code is between two requests, and a third
process that may crash adds nothing a `Fail` of one of the two and a later arrival
does not: `req[r]` is reused, so two slots run any number of requests, two at a time.
In RedisAuthSessions the numbers of tokens and of requests have no bound but the clock. A clock up to 2 reaches
`REFRESH_EXPIRES` = `REFRESH_TTL` = `SESSION_TTL` = 2, so tokens, records and sessions
all expire, at once or after a rotation that renewed some of them. Where the clock stands still (`LogoutAll`) no property is about expiry. Two
logins let one be created while the other is being revoked. Three codes (tokens) are an
old one, its replacement and one under way; four jtis are two logins refreshed once each
or one refreshed three times. Two attempts separate the first refusal from the last;
`OtpLifetime` uses the code's own five. In HttpRequests the requests meet in the two clients
only, so one of any route and one that uses either client make every pair; the numbers of
attempts (`STOPS_AFTER`, `PER_REQUEST`: 10, and 3 and 1, in the code) let the client give a
command up before it gives itself up, and after; the proofs hold for any numbers. The bounds are
`MaxTime`, `RoutesOf`, and the sizes of `Logins`,
`Codes`, `Tokens`, `Jtis` and `Requests`; the history counter `refusals` stops at
`MAX_OTP_ATTEMPTS + 1`. Runs say `CHECK_DEADLOCK FALSE` where the model stops because
every fresh value has been used or the clock has reached its bound. `LogoutAll` has a `VIEW`
that leaves out the history of the tokens, which neither its properties nor any guard reads.

**Fairness.** `FairSpec` of RedisAuthSessions has weak fairness of `Progress(r)` for each request: one that
has begun goes on, since node runs its continuation, and a command is answered or, after
`maxRetriesPerRequest`, rejected. And it has finitely many resends (`<>[]` without one): a
connection that broke for ever would send one command for ever. Nobody has to send a request,
and time need not pass. `RefreshRaces` lets no request fail before the two commands that
end a session (`HalfDone`), which matters for `ReuseEndsSession` only: a worker
that dies there leaves the session alive, and no one takes it up. `FairSpec` of
HttpRequests has weak fairness of what the worker does for each request, of what the server does while connected, and
of the end of each attempt to connect (`connectTimeout` sees to it); and connections do not
break for ever (`<>[][~Loses]_vars`). That PING times out is not assumed: it may. `RequestsAnswered` and
`ClientSettles` hold under it.

Runs that find a disagreement between the code and what the repository says:

| Run | The code |
|---|---|
| `SameSecond` | "Refresh token rotation": the payload of a refresh token has no jti, so a refresh in the second its token was signed mints the same token again, and the exchanged token stays redeemable. One client, one request at a time |
| `LogoutAllGap` | "Logout current device or all devices": a login whose `SADD` falls between the `SMEMBERS` and the `DEL` of a logout-all leaves the index; the next logout-all, with no other request in progress, answers success and does not end it |
| `OtpLifetime` | "OTP: 10 minutes": each wrong attempt writes the payload back with the full TTL |
| `ResetPassword` | "Password reset successfully.": the new password is hashed by `resetPassword` and again by `updateUserPassword`, and login refuses it |
| `LogoutRefused` | "Logout current device or all devices.": the routes of logout and logout-all have no guard, so no token is read, and each request that gets past the throttler is answered 500 before it reaches the service, whatever token it carries |

Other disagreements, which the models contain and for which there is no run:

- `auth.controller.ts:91`, "Verify email address using token and 6-digit OTP code sent during signup.":
  `sendEmailVerificationLink` mails a token of its own (`auth.service.ts:295`) that no row of
  `verification_tokens` has, so no mailed link verifies. In DbAccounts the mail makes no token
  known; what may be presented is the token that register answers with, or a reset mail's.
- `auth.controller.ts:205` and `:225`, "Invalidates the current session represented by the provided
  refresh token." and "Invalidates all sessions for the current user.": a refresh in progress that
  has found its row stores the next one after the `DELETE` (`auth.service.ts:256`), and the session
  goes on. DbAuthSessions records these logins as `lost`.
- `auth.service.ts:189`: in the same way a login or a refresh in progress outlives a password reset
  (`spared`), though the statement is there to end the sessions of the old password.
- `app.controller.ts:18`, "Simple public endpoint to verify the API is responsive.", and
  `test/app.e2e-spec.ts:18`, which expects 200 of `GET /` without a token: `AppController` is
  behind `JwtAuthGuard`, and HttpRequests answers such a request 401 (route `hello`).

**Recorded races.** Two refreshes at once are both answered (`twice`), overlapping
verifications lose attempts or accept a code twice (`raced`), overlapping
`createVerificationToken`s leave two valid tokens (`overlapped`), a DB logout or reset that meets a
refresh is undone by it (`lost`, `spared`). No property catches these: each says that its guarantee
is broken in *no other way*, and the histories it excepts are exactly the recorded ones.

## Proofs

TLAPS proves, for all users, logins, requests, TTLs and clocks, under the named
assumptions of the modules (constants are of their types, TTLs are positive, `None` is
not a value, a refresh token lives no longer than its record; nothing else):

- **RedisAuthSessionsProofs**
  - `SessionsCorrect`, `RevocationCorrect`: `RevocationSticks` is not inductive: that a refresh which
    arrives late gets no further needs the session to *stay* deleted while other requests
    still write. `SessionInv` says why it does: before the one `SET session:<l>` of a login
    nothing refers to `l` (`UnbornInv`: no index, no listing, no client), and it is sent by
    one request only, which no other acts beside (`OpeningInv`); so whatever deletes `session:<l>` comes after the `SET`,
    and it stays deleted (`RevokedInv`). A record that a refresh in progress
    writes back after a revocation is harmless for that reason only. The one exception is the
    `SET session:<l>` of the login itself when ioredis sends it again (`resent`): it can bring
    back a session that a logout-all ended in between.
  - `RotationCorrect`, `ReuseReportCorrect`: *as long as no token of a family was
    exchanged twice*, the family has one right to a new token: one request on its way
    to replace the record, or one outstanding token, which is the record's
    (`FamilyInv`). So a token that does not match the record has been exchanged before.
- **LogoutAllProofs**: `IndexCorrect` proves `IndexInv`, inductive relative to `SessionInv` and
  `RotationInv`: a session in use is in its user's index, or in one of the two gaps, and
  a logout-all that has listed a session keeps it until its `DEL`. `LogoutAllCorrect` follows.
- **RefreshTokenProofs**
  - `LifetimeCorrect` proves `LifetimeInv`, which the module adds: a record that
    no revocation deleted outlives every token of its family, the one under way included. It
    needs `ExpiryAssumption` (`JWT_REFRESH_EXPIRES` is no longer than the record's TTL) and that
    commands write deadlines from the time they are executed, so that late `SET`s only lengthen.
    `MissingReportCorrect` follows.
  - `ExchangedOnceCorrect`: `twice`, which `RotationCorrect` takes as given, is not
    arbitrary: a token is exchanged a second time only in a family that one of the three ways into
    `replayable` has put there. That is not inductive. `ReplayInv` adds where the right to a new token
    may be in any other family (`ExchangeInv`): with one refresh that has been accepted, and
    then the record still keeps the token it exchanged, or with the record, whose token is in nobody's `spent`.
    So a refresh that finds the record's token valid exchanges a fresh one, unless another
    that has read the record has yet to replace it, which is `WasRead` (`AcceptedAlone`).
  - `PromiseKept`: RedisAuthSessions implements RotatingSession. `RightOf(l)` is read off the
    stores and requests, login by login: `issuing` if a request is `Renewing`, `held` if a token
    is `Outstanding`, `ended` once the session is gone. A
    step moves the right of one login and leaves all others (`OneMoves`), or closes some (`SomeClose`),
    which a `Tick` past deadlines and the `DEL` of a logout-all do to several at once, or
    stutters. It rests on all the invariants above: `SessionInv` for a session that is over staying
    over (`FinalStays`), `RotationInv` and `ReplayInv` for there being one token to exchange, and `ClockInv`
    for tokens within the clock. That `issuing` means one request and not several is `FamilyInv`.
- **OtpServiceProofs**: `OtpCorrect` proves `OtpInv`. Whoever has a copy of a code that no two
  requests raced for, the key or a verification, has its exact number of refusals, and it
  is the latest code and not yet accepted; with no race at all the key keeps the latest
  code for its TTL. `AcceptanceCorrect`, `AttemptsCorrect`, `LatestCorrect` and
  `FreshCodeCorrect` derive `AcceptedOnce`, `AttemptsLimited`, `LatestAccepted` and
  `FreshCodeUsable` from it. `PromiseKept` is the refinement: under the mapping of
  `ImplementsOneTimeCode`, each step of OtpService is one of OneTimeCode or a stutter, until two requests have raced.
- **RedisAccountsProofs**: `AccountCorrect` proves `AccountInv`, inductive, which has as parts the
  stages an account must have reached for a request to be where it is, and
  `CodesBelongToAccounts`, `AcceptedCodeActivates` and `MailboxProved`; the named
  properties follow from it.
- **DbAuthSessionsProofs**: `DbSessionsCorrect` proves `DbSessionInv`, inductive. A
  jti on its way to a client is carried by one request, and has no row before that
  request stores it (`FreshInv`); a request acts on jtis whose tokens its client holds
  (`PresentedInv`), and a refresh passes the login on (`DescentInv`). So a login whose
  refreshes never overlapped has one right to a row, which is its row or the refresh
  that deleted it (`OneRightInv`); and one that was ended with no refresh in progress has
  none, ever after (`NoRightInv`). `DeletionCorrect`, `RotationCorrect`,
  `EndCorrect` and `ClientsCorrect` derive the four named properties. `RowsCorrect` proves `RowInv`:
  of a login that has not ended, a held token has its row or was exchanged, and a refresh
  that found its row finds it again when it deletes it, unless two overlapped. With it
  `RotationKept` shows that DbAuthSessions implements RotatingSession: the `DELETE` is the
  exchange, the reply hands out, and a logout or logout-all that meets no refresh ends. What made
  the mapping possible is that `lost`, the logins whose end met a refresh, leaves out a logout that finds no
  row because the login had ended before.
- **DbAccountsProofs**: `DbAccountsCorrect` proves `DbAccountInv`, inductive: what each request under
  way to replace the token has already created and deleted (`TokenInv`), who holds an unused token
  and who has marked it, with at most one of each as long as no two resets held it at once
  (`ResetInv`), and which sessions of a replaced password are in the table or on their way
  into it (`SessionInv`). The last is what makes `OldSessionsEnd` inductive: with the rows alone, a
  request in progress could add one at any time. A reset's `DELETE` leaves those in progress, which it
  records; a refresh makes a new session that is as old, and as spared, as the one it replaces; and a
  login passes with the present password only.
  `OneTokenCorrect`, `LatestTokenCorrect`, `RedemptionCorrect` and `OldSessionsCorrect` derive the
  four named properties.
- **HttpRequestsProofs**: `HttpCorrect` proves `HttpInv`, inductive: no command waits for a client that has
  ended (`WaitsInv`), a handler waits for its own command (`RoundInv`), what was
  executed and what is left make up what the route needs (`CountInv`), and a request that came
  after the end gets nothing from it (`DoomInv`). `SuccessCorrect` and `EndCorrect` follow.

Each module of a specification's proofs also proves `TypeCorrect`, `Spec => []TypeOK`. Each invariant was checked by
TLC on the instance of its component's run before it was proved. Proofs of steps go by action: a lemma for
what all actions of a kind leave alone (arrivals, continuations, endings), and a step
for what each one changes.

Only model-checked: the liveness properties `RequestsEnd`, `ReuseEndsSession`,
`RequestsAnswered` and `ClientSettles` (temporal reasoning under fairness is beyond the provers used here).
For the first, `PromiseKept` and `SessionInv` prove the part that is safety: a session once ended
stays ended. Every invariant of the passing runs, and the three refinements, are proved for all constants.
`RotationInv`, `ReplayInv`, `DbSessionInv` and `RowInv` were TLC's on the instances of `RefreshRaces` and
`DbSessions`; the configurations now check the refinements, which rest on them.

## Not modelled

- The throttler's counters: a library's script in Redis. That it may refuse any request, or
  fail, is in HttpRequests.
- What a reset password means for open sessions of the Redis flow: `resetPassword` makes no
  call that ends one, so there is no step to compose. `user.dto.ts` says of
  `passwordChangedAt` "used to invalidate sessions after password updates"; nothing reads it.
- Resends in OtpService and RedisAccounts. A `SET` or `DEL` of a code that is executed a
  second time, after another request's, would have to count as a race (`raced`).
- Shutdown and restart of a worker, beyond requests that end anywhere (`Fail`): the hooks that
  would close the clients are not enabled.
- `updateLoginTimestamp`, `findSessionsByUserId`, `LoggingInterceptor`: written columns that
  nothing reads and code that nothing calls.
- The handlers of `AuthController`, which no module registers, but for the services they call.
- Mail transports and templates, the wording of messages, Swagger, the logger, the environment's
  configuration, migrations: no state that another component reads.

## What is left

1. One-time tokens of the DB flow against a specification of their own, as OneTimeCode is for the
   Redis flow: `OneToken`, `LatestTokenKept` and `RedeemedOnce` are its three parts.
2. Resends in OtpService, with a bound on what they add to `raced`.
3. The throttler's three windows, if its storage is ever part of this repository.
