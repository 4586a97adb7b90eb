# Lyncs backend: a verification project

Lyncs is a URL shortener: an HTTP process (NestJS on Fastify) and a worker
process share a PostgreSQL database and a Redis server. Redis holds caches,
rate-limit counters, a token blacklist and two streams; it is not persisted and
evicts any key (`docker-compose.yml:91-95`). Several instances of both processes
may run. The hard part of the program is what happens between its awaits: every
operation is a short sequence of SQL statements and Redis commands, with other
requests, failures and crashes in between and no transaction around them.

All paths below are relative to the repository's root; the TypeScript is under
`src/`.

## Inventory

| Component | State | Operations | Must be true |
| --- | --- | --- | --- |
| Link lifecycle: `UrlService`, `RedirectController` (`url/`) | `urls` rows; `url:<code>` in Redis for 24 h | create, redirect lookup, delete | one owner and target per code; no stale link except in known windows; an unsafe link is not served |
| Safety pipeline: `SafetyWorker`, `AnalyticsService.queueSafetyCheck` | stream `safety:checks`, group `safety-workers` | queue, read a batch, check, persist the verdict, DEL, XACK | a check is settled at most once; in the absence of failures at least once |
| `SafetyService` | `safety:<hash>` (7 days), `web_risk:quota:<month>`, `blocklist:<domain>`, `blocked_domains` | checkUrl, isDomainBlocked | no more API calls than the quota; a blocked domain is refused when anything fails |
| Click pipeline: `AnalyticsService`, `AnalyticsWorker` | stream `clicks:events`, `clicks` rows, `urls.click_count` | trackClick, processBatch | a click makes at most one row; counters never exceed rows |
| `AnalyticsQueryService` | `analytics:<code>:<range>` (60 s) | getAnalytics | the parts of an answer belong together; bounded staleness |
| Caches of a user: `UrlService.getDashboard`, `AuthService.getProfile` | `dashboard:ver:<user>` (30 days), `dashboard:...:v<n>` (15 s), `profile:<user>` (30 s) | read a page, read the profile, INCR and DEL after a write | a page computed before a write is not served after its INCR; nothing stale stays |
| Sessions: `AuthService`, `JwtAuthGuard` | `refresh_tokens`, `bl_<token>` | generateTokens, refreshTokens, logout, canActivate | a login has one refresh token, and keeps it; a logged-out token is refused |
| Accounts: `AuthService` | `users`, `email_otps` | register, request and verify a code, login, reset | bounded guesses; a code is used once; no lost password |
| `GlobalRateLimiterGuard` | one counter per window | canActivate | no more than the limit in a window; a refused caller is told the truth; the headers describe the tightest policy |
| `UrlNormalizerService`, `Base62Generator` | none | normalizeUrl, generate | URLs of one page, and no others, share a hash; every code is six base62 characters |
| Mailer, configuration, DTOs, interceptors, health | none worth modelling | | |

The HTTP process calls the services directly. The processes interact only through
the database and Redis: a create appends to `safety:checks`, a redirect appends
to `clicks:events` without waiting, the workers read those streams and write the
rows the HTTP process reads and caches. `PROJECT.json` lists the hazards at
their lines.

## Modules

| Module | What it is |
| --- | --- |
| `LinkLifecycle` | creates, redirects, deletes and safety workers around the `urls` rows, the link cache and the safety stream |
| `LinkDirectory` | what owners and visitors may rely on: the abstract specification `LinkLifecycle` implements |
| `MCLinkLifecycle` | symmetry sets and values of `ReadBack` for TLC |
| `LinkLifecycleProofs` | TLAPS: types, cache coherence, who owns a new row, the verdicts, the refinement of `LinkDirectory` |
| `ClickPipeline` | tracked clicks, the stream `clicks:events`, analytics workers, `clicks` rows and `urls.click_count` |
| `ClickLedger` | what becomes of a click and of a counter: the abstract specification `ClickPipeline` implements |
| `MCClickPipeline` | symmetry sets for TLC |
| `ClickPipelineProofs` | TLAPS: types, at most one row per click, what an acknowledgement means, the counters, the refinement of `ClickLedger` |
| `Accounts`, `MCAccounts`, `AccountsProofs` | one e-mail address: its account, its one-time codes, registration, login, reset; symmetry for TLC; TLAPS: every invariant, the refinement |
| `OneTimeCodes` | what an address may rely on about its codes: the abstract specification `Accounts` implements |
| `Sessions`, `MCSessions`, `SessionsProofs` | the tokens of one user: issue, rotation, logout, blacklist, guard; symmetry for TLC; TLAPS: every invariant, the refinement |
| `SessionLife` | what a user may rely on after a login: the abstract specification `Sessions` implements |
| `UserCaches`, `UserCachesProofs` | the dashboard pages and the profile of one user under writes; TLAPS: every invariant |
| `ClickAnalytics`, `ClickAnalyticsProofs` | the analytics of one link, computed by several queries and cached; TLAPS: every invariant |
| `RateLimiter`, `MCRateLimiter`, `RateLimiterProofs` | the rate-limit guard on a route with several policies; the policies and callers for TLC; TLAPS: every invariant |
| `SafetyCheck`, `SafetyCheckProofs` | the block list, the verdict cache and the monthly quota of `SafetyService`; TLAPS: every invariant |

The modules meet at the interfaces of the code: what `SafetyCheck` may answer is
the constant `Verdicts` of `LinkLifecycle`; the writes of `UserCaches` are the
creates and deletes of `LinkLifecycle`, the clicks of `ClickPipeline` and the
verdicts; the rows `ClickAnalytics` reads are those `ClickPipeline` inserts; the
login whose password `Accounts` checks is the one that begins a chain of refresh
tokens in `Sessions`. The steps of `LinkLifecycle` and `ClickPipeline` already
compose several operations of two processes; the other modules share no row or
key with them except as just said, so each is a model of its own.

In every module an action ends at an await that touches shared state, a request in
flight is a record with a program counter, and a definition whose comment begins
with "Mistake" is a plausible bug that no action uses: each property is tried
against one, and TLC finds it violated.

### LinkLifecycle

Each request in flight and each worker is a record; the constants give how many
there are at a time.

| Actions | Code |
| --- | --- |
| `ReadCache`, `QueryRow`, `FillCache` | `UrlService.findByCodeWithCache`; `Serve` is what `RedirectController.redirect` answers |
| `Deduplicate`, `GenerateCode`, `InsertRow`, `QueueCheck` | `UrlService.create` and `AnalyticsService.queueSafetyCheck` |
| `LoadForDelete`, `CompareRow`, `UpdateRow`, `FailDelete`, `InvalidateDeleted` | `UrlService.deleteUrl`; TypeORM's `save` reads the row again, compares it with the entity and writes the differing columns (`Diff`, `Merge`) |
| `ReadStream`, `CheckUrl`, `PersistVerdict`, `InvalidateJudged`, `AckMessage`, `StartWorker` | `SafetyWorker` and the stream functions of `RedisService` |
| `CrashReader`, `CrashCreator`, `CrashDeleter`, `CrashWorker` | a process ends between two steps |
| `ExpireCache`, `LoseStream` | the time to live or an eviction of a cached link; Redis restarts empty or evicts the stream |

A failing command appears inside the action of that command, once as never
executed and once as executed with its reply lost, whenever the difference can
be seen. `Faults` says which failures may happen.

What is abstracted:

- A link's URL stands for its `url_hash`; timestamps, `click_count`,
  `normalized_url` and `expires_at` (never written by the code) are left out.
- The stream holds one message per code, as the code's status: nothing published,
  waiting, delivered and pending, acknowledged, or lost. The order of different
  links' messages is not kept: `ReadStream` takes any batch of the allowed size.
- `SafetyService.checkUrl` is one step with any answer of `Verdicts`. `"throws"`
  is an exception, which Redis failures outside its inner try produce.
- `ReadBack` is what `parseFields` (JSON.parse of every field) and the worker's
  `String()` make of a short code: the identity for most codes, another code or
  no code for those that read as a number with an exponent.
- `MAXLEN ~` may trim any unread entries, several at once, as long as `StreamMaxLen`
  are left (with the two codes of the runs, one).
- A command executes at most once: ioredis sending it again after a reconnect,
  and a command executed after the client gave up on it, are not modelled.
- `dirty`, `lapped` and `deleted` are history; no guard reads them.

Properties:

- `CacheCoherent` (and `FillsCoherent`, a part of `IInv`): a cached link, or a row a
  reader is about to cache, is the current row unless a writer still owes its DEL, a DEL was lost,
  or a DEL came between a reader's SELECT and its SET. The last window is in the
  code: the stale entry then lives until its 24 hours end.
- `UnsafeNeverActive`: a delete that writes an old copy of the row back never
  reactivates an unsafe link, no unsafe link is cached, and the warning page of the
  redirect is never sent (a link found unsafe is inactive, so it is a 404). Like
  `ImplementsDirectory` and `PublishedIsJudged`, for codes that the stream gives back as
  they were (`PlainCodes`).
- `NewRowIsOwn`: of several creates that pick the same free code, one owns the row.
- `ImplementsDirectory`: seen as a directory of (target, live, check), a code
  is published once for one target, its check is settled at most once, and after
  that an inactive link stays inactive; for `PlainCodes` only.
- `InactiveIsForgotten`: an inactive link leaves the cache for good.
  `PublishedIsJudged`: without failures every link is judged, or taken down; for
  `PlainCodes` only (a code such as `1e0005` never is).
- `IInv`: the inductive invariant of the proofs.

### ClickPipeline

The stream is the sequence of every entry ever appended and the id of the oldest
it still holds; an entry's id is its position. A worker is a record with a program
counter, its batch and the codes it has still to count.

| Actions | Code |
| --- | --- |
| `TrackClick` | `AnalyticsService.trackClick` and `extractClickData`; XADD with `MAXLEN ~` |
| `ReadBatch`, `Abandon` | `AnalyticsWorker.consumeLoop`: XREADGROUP `>`, and the catch that logs an exception and reads on |
| `InsertClicks`, `CountCode`, `AckBatch` | `AnalyticsWorker.processBatch`: one INSERT for the batch, one UPDATE per code, one XACK |
| `StartWorker`, `CrashWorker` | a process starts (XGROUP CREATE `0`) or ends between two commands |
| `LoadForDelete`, `CompareRow`, `UpdateRow`, `StopDelete` | `UrlService.deleteUrl` as far as its `save` writes `click_count` |
| `LoseStream` | Redis restarts empty or evicts the stream |

What is abstracted: a click is its code and whether its values fit their columns
(the country header is stored unchecked in two characters, so one click can fail
the INSERT of a whole batch); the order in which `processBatch` visits the codes
is free; `MAXLEN ~` may trim at any length from `StreamMaxLen` on; links exist
before they are clicked. `NumericCodes` are the codes `parseFields` turns into
numbers, which `resolveShortCode` refuses. `drifted` is history: a worker ended
between the INSERT and an UPDATE, or a delete wrote an old counter back.

Properties:

- `StoredOnce`: a click makes at most one row, whichever of its two workers,
  restarts, lost replies or new groups comes in between.
- `AckedIsStored`: an acknowledged click has its row (codes of digits excepted).
- `CountNeverAhead`: a counter, with what workers are about to add, never exceeds
  the rows, not even when a delete writes an old value back.
- `CountIsExact`: it equals them unless the code is `drifted`: no other step of
  the program makes the two diverge.
- `ImplementsLedger`: seen as a ledger (`CodeAt`, `FateAt`), a click is taken up in
  its turn, stored at most once, counted at most once after that, and its end
  (settled or lost) is final; a counter moves only by clicks it counts for the
  first time, or back to a value that its settled clicks cover.
- `TrackedIsCounted`: without failures every click is counted in the end.

### Accounts

| Actions | Code |
| --- | --- |
| `RequestRegisterOtp`, `InsertPending`, `RequestForgotPasswordOtp` | `AuthService.requestRegisterOtp`, `requestForgotPasswordOtp`; the unique index on `email` decides between two INSERTs |
| `DeleteUnused`, `IssueOtp` | `requestOtp`: DELETE of unused codes, INSERT of a new one |
| `FindOtp`, `CompareOtp`, `WriteOtp` | `verifyOtp`: the newest unused code is read, compared and, right or wrong, saved; TypeORM's `save` selects the row again, then updates the differing columns or inserts a row that is gone |
| `BeginRegister`, `CommitRegister` | the transaction of `verifyRegisterOtp`, which locks nothing it reads |
| `LoadForReset`, `SaveReset` | `resetPasswordWithOtp` |
| `LoadForLogin`, `CompareLogin`, `UpdateLoginSignals` | `login` and `updateLoginSignals`, which saves the whole entity read at the beginning |
| `ExpireOtp`, `Abandon` | a code's time ends; a statement fails or the process ends |

What is abstracted: a code is the id of its row and a guess is right or wrong (two
codes of one address are taken to differ); mails, the comparison of hashes and
`last_login_*` are left out; a password is one of a set of acceptable ones or one
the validator refuses. `save` may or may not write a password that equals the
one in memory, because the column is not selected by default: both are allowed.
`uses`, `wrong`, `raced`, `late`, `latest` and `overlapped` are history.

- `CodeUsedOnce`, and `GuessesBounded` in `IInv`: a code lets one request through and
  allows `OTP_MAX_ATTEMPTS` guesses, unless two requests worked on it at a time (`raced`).
  The exception is the program's: two requests that read the code before either
  saves it both succeed or count as one guess, and a wrong guess that saves last
  writes `consumed_at = NULL` back.
- `NewestOnly`: an older code is not accepted, unless the requests overlapped.
- `LatestPassword`: the stored password is the one confirmed last, unless a login
  that had read an older one was in flight: its `save` puts the old one back.
- `ImplementsOneTimeCodes`: seen as codes that are open, used, dead or shared
  (`CodeOf`), no code is issued while one of its purpose is open, a code ends
  with its first use, its last wrong guess, its withdrawal or its time, and never
  opens again. A code two requests worked on is shared: of it only the expiry is
  promised.

### Sessions

| Actions | Code |
| --- | --- |
| `LogIn`, `PersistRefreshToken`, `LoseRefreshToken` | `AuthService.login`, `generateTokens` (which returns before the INSERT), `persistRefreshToken` |
| `VerifyRefreshToken`, `FindRefreshToken`, `RefuseRefresh`, `RevokeToken`, `RotateToken`, `FailRefresh` | `refreshTokens`: the JWT and its end, SELECT, save of `revoked`, new tokens |
| `CheckBlacklist`, `VerifyToken` | `JwtAuthGuard.canActivate`; what a guarded route does next is a logout or nothing |
| `MeasureToken`, `BlacklistToken`, `FailAccess` | `AuthController.logout`, `AuthService.logout`: the time the token has left, then SET `bl_<token>` |
| `Tick`, `ExpireBlacklist`, `LoseBlacklist` | the clock, the time to live, an eviction or a restart of Redis |

A token has no id of its own, so it is the second it was signed in: two logins in
one second hold equal tokens in two rows. `login` in a row is the row its
chain began with; `contested`, `broken`, `loggedOut`, `evicted` and `trespassed` are
history. Instants within a second matter because a time to live is computed from
whole seconds and used at a later instant. The processes' clocks are one clock.
The end of a refresh token is looked at when its JWT is verified, before the SELECT;
the row's own `expires_at`, computed when the row is stored and so not before the
JWT's end, is one of the reasons for which `RefuseRefresh` may refuse it after that.

- `OneSession`: a login has one refresh token that can be rotated, unless two
  refreshes read one of its rows before either revoked it.
- `SessionKept` (a part of `IInv`): it has one as long as none of its own statements
  fails, whatever other logins, those with an equal token too, do.
- `ImplementsSessionLife`: seen as sessions that are open, spent or over (`SessionOf`),
  a session goes on by spending its token for the next one, ends only where a
  statement of its own fails, and a session that is over stays over. A session
  one of whose tokens two refreshes presented at a time is shared, and nothing is
  promised of it.
- `LoggedOutIsRefused`: a request that starts after the token was blacklisted is
  refused until the token is over, unless Redis lost the key.

### UserCaches

| Actions | Code |
| --- | --- |
| `CommitWrite`, `BustDashboardCache`, `LoseBust`, `BustProfile`, `LoseProfileBust` | a commit of `create` or `deleteUrl`, the INCR and the DEL sent after it and not waited for; a click or a verdict is a write that sends neither |
| `ReadVersion`, `ServePage`, `QueryPage`, `StorePage` | `getDashboard`, `getDashboardCacheVersion` |
| `MissProfile`, `AggregateProfile`, `StoreProfile` | `getProfile` |
| `ForgetVersion`, `ExpirePage`, `DropProfile`, `Abandon` | times to live, evictions, a logout's DEL, failures |

A copy is the number of writes it shows in all its parts: those committed when the
first SELECT it was computed from ran. `getManyAndCount` runs several; what the later
ones show beyond that, between `QueryPage` and `StorePage`, is left out, and the
properties only ever say that a copy shows at least some write. One page, order and filter stands for all
that are cached; the others have keys of their own. A missing version is read as
1, and the first INCR makes it 1: that is in the model, and the reason
`PageCoversBusts` begins at the second version.

- `PageCoversBusts`: while the version's key is not lost, a page kept under a later
  version shows every write whose INCR made that version or an earlier one.
- `ProfileCoversBusts`: the profile lacks a write only while its DEL is under way,
  after it was lost, or when it came while the profile was on its way to Redis.
- `EventuallyFresh`: every write reaches every cached copy in the end.

### ClickAnalytics

| Actions | Code |
| --- | --- |
| `MissAnswer`, `LoadUrl` | `getAnalytics`: the cache first, then the link, its owner and `calculateStartDate` |
| `Query`, `StoreAnswer`, `Abandon` | the queries, one after another in any order, and the SET |
| `InsertClick`, `Tick`, `ExpireAnswer` | rows the worker inserts, also with an older time; the clock; `ANALYTICS_TTL` |

A part of an answer is the set of rows it was computed from; counts, days, names and
percentages are functions of that set. Three queries stand for the nine: one that
counts the rows of the window, one that lists its largest groups, one for the most
recent clicks (which looks at no window).

- `AnswersAgree`: every part of a cached answer, the list of the largest groups and
  the recent clicks too, is what its query returns on the table as it was at one
  moment since the request began (`Moments`: rows are numbered in the order of
  insertion and never change), for one and the same window. So no part misses a row
  that was there before, none counts one outside the window, and two parts differ
  only in rows inserted between their queries.
- `EventuallyCounted`: of the rows in its window (`Covers`), the cached answer of a range
  in the end counts every one; for all time, every row.

### RateLimiter

| Actions | Code |
| --- | --- |
| `Ask`, `Count`, `Reply`, `Fail` | `canActivate`: identity and keys, the script for one policy after another, the refusal or the headers |
| `Tick`, `Evict` | the clock and Redis's expiry; an eviction or a restart |

`Incremented` is the Lua script, `TtlSeconds` the TTL as Redis rounds it and the
guard corrects it, `Tighter` the selection of the policy the headers describe. Time is
what is left of every window, in parts of a second, so the clock needs no bound. A key
is the set of callers it does not tell apart. `passed`, `advice` and `seen` are
history: what a window let through, what it told those it refused, and the notices
a request has met.

- `LimitKept`: no window lets more through than its policy allows, nor refuses
  anybody before it let as many through.
- `RetryAfterHolds`: whoever returns when told to finds the window over, half a
  second of rounding aside.
- `HeadersTightest`: the headers are those of the tightest policy, against a
  definition that looks at all notices at once.
- `WindowsEnd`: every window ends, however often its key is asked for.

### SafetyCheck

| Actions | Code |
| --- | --- |
| `AskBlockCache`, `QueryBlocked`, `RememberBlocked` | `SafetyService.isDomainBlocked` |
| `ReadVerdict`, `CountCall`, `KeepQuota`, `FetchVerdict`, `NoAnswer`, `StoreVerdict` | `checkUrl` and `isSafetyQuotaAvailable`: the cached verdict, INCR, EXPIRE, the API, SET |
| `ExpireBlocked`, `ExpireVerdict`, `Tick`, `LoseQuota`, `Edit`, `Fail` | times to live, the calendar, Redis forgets, the lists change, a command fails |

A count past the quota is not told from the quota plus one. `calls`,
`forgotten` and `newest` are history.

- `QuotaKept`: no month sees more calls of the API than its quota, unless Redis lost
  its counter: the counter outlives the month whenever EXPIRE came.
- `CachedIsNewest`: a cached verdict is the last one the API gave, unless two checks
  of the URL overlapped; what could not be found out is not cached.
- `EventuallyCurrent`: no verdict and no block outlives what it was learnt from
  for ever.
- `IInv`: the inductive invariant of the proofs.

### Runs

| Run | Instance | Shows |
| --- | --- | --- |
| `link_directory` | 2 codes, 2 owners, 2 creates, 1 delete, 1 worker with batches of 2, a stream that trims at 1; every failure, the stream lost | `IInv`, `NewRowIsOwn`, `ImplementsDirectory` |
| `link_forgotten` | 1 code, 2 redirects, 1 create, 1 delete, 1 worker; database and Redis failures, crashes, fairness | `TypeOK`, `CacheCoherent`, `UnsafeNeverActive`, `InactiveIsForgotten` |
| `link_judged` | 2 codes, batches of 2; no failures, fairness | `PublishedIsJudged` |
| `link_resurrected` | 1 code, a create, a delete, a worker; no failures | the finding |
| `click_counts` | 3 codes, one of digits, 3 clicks, 2 workers with batches of 2, 1 delete, a stream that trims at 2; every failure, the stream lost | `TypeOK`, `StoredOnce`, `AckedIsStored`, `CountNeverAhead`, `CountIsExact`, `ImplementsLedger` |
| `click_arrives` | 3 codes, one of digits, 4 clicks, 2 workers; no failures, fairness | `TrackedIsCounted` |
| `accounts` | 2 requests, 2 passwords, 2 codes, 2 attempts; every failure | `TypeOK`, `CodeUsedOnce`, `NewestOnly`, `LatestPassword`, `ImplementsOneTimeCodes` |
| `sessions` | 2 requests, 3 refresh tokens and 1 access token that live 2 seconds, 3 seconds of 2 instants; every failure | `TypeOK`, `OneSession`, `LoggedOutIsRefused`, `ImplementsSessionLife` |
| `user_caches` | 2 requests, 2 writes; every failure, fairness | `TypeOK`, `PageCoversBusts`, `ProfileCoversBusts`, `EventuallyFresh` |
| `click_analytics` | requests one after another for a range the code does not know, 3 rows of 2 groups, lists of 1 group and 2 recent clicks, a clock that moves by more than the range; fairness | `TypeOK`, `AnswersAgree`, `EventuallyCounted` |
| `rate_limits` | 2 requests of 2 callers with one address, policies of 1 in a second and 2 in two seconds, quarters of a second; fairness | `TypeOK`, `LimitKept`, `RetryAfterHolds`, `HeadersTightest`, `WindowsEnd` |
| `safety_checks` | 2 calls, 1 URL that is checked, 1 trusted, 1 local, 1 domain, a quota of 1, 2 months of 2 days; every failure, fairness | `TypeOK`, `QuotaKept`, `CachedIsNewest`, `EventuallyCurrent` |

Why the bounds are enough to be interesting. The cache races need two readers (one
that fills with an old row after another was served) and two writers of one row (a
delete and a verdict); different codes meet only in a batch, in the trimming of the
stream and in the collision of two creates, so two codes cover them. `MAX_RETRIES`
is 5 in the code; one try (`link_directory`) and two (`link_forgotten`) show a first
try, a retry and a last one. A link is created at most once per code, which bounds
every run of `LinkLifecycle` without further guards. Three clicks (`MaxClicks`) fill
a batch of two clicks of one code or of two, and leave one for the other worker
or for after a restart; a fourth gives both workers full batches.

The windows of the other modules are between two requests, so two are in flight
at a time. Two codes (`MaxCodes`) are one old and one new, of one purpose or of
two; two attempts a first and a last one. Three refresh tokens (`MaxRows`) are a login and
two refreshes, one after another or at a time, or two logins (`MaxLogins`) with
equal tokens of which one is refreshed.
Three seconds (`MaxSecond`) let a refresh token be verified, end and be found after
that, and an access token of two seconds be used, measured at either half of a
second and end. Two writes (`MaxWrites`) are one whose INCR makes the version 1 and
one that makes it 2, or one each before and after the version is lost. In
`ClickAnalytics` three rows (`MaxClicks`) are one more than the recent clicks shown and
make one group larger than another; one request at a time is enough, since
requests touch nothing of one another but the key they replace, and what a slow one
replaces may be lost by expiry just before: it stores an answer older than the rows.
The clock moves once (`MaxTime`), by more than the length of the window (`Week`), so a
click before it is outside a window that starts after it. Two months (`MaxMonth`) show a count that is carried over a month's end. Where a
property is proved (below) the bounds matter no more.

### Fairness

Liveness is stated under weak fairness of what the code's scheduling guarantees,
never of clients (no new request needs to come), of crashed processes or of failures.

- `LinkLifecycle`, `ClickPipeline`: each step of a request already in flight and of the
  worker loop, since Node's event loop runs a resolved await and `startConsuming`
  loops for ever. `GenerateCode` is not fair: a create may pick colliding codes
  until it gives up. `ExpireCache` is the time to live that `findByCodeWithCache`
  gives every entry (86400 seconds), which Redis enforces.
- `UserCaches`: the times to live of a page (15 seconds) and of the profile (30),
  and the SET that follows a query. Without the latter a request could hold an old
  copy for ever; with it, it stores the copy and the time to live ends it.
- `ClickAnalytics`: the next query or the SET of a request under way, and
  `ANALYTICS_TTL`.
- `RateLimiter`: the clock, which with the expiry of Redis is the action `Tick`.
- `SafetyCheck`: each step of a call under way, the 7 days of a verdict and the hour
  of a block-list copy.
- `Accounts` and `Sessions` state no liveness: a client that fails has to ask again.

### Finding

`link_resurrected`: a safe verdict that arrives after the owner's delete reactivates
the link. `SafetyWorker` writes `is_active` without looking at the row
(`src/url/safety.worker.ts:95`), while `README.md:43` says that the soft delete
deactivates the URL.

### Known from the models

The models show the following as well. The properties are stated around them, and
their comments say where; no run is devoted to them.

- A message whose check throws is never delivered again, although
  `safety.worker.ts:118` says it will be: only new entries are read.
- Two concurrent creates of one user for one URL make two active links; the unique
  index that would prevent it is dropped by migration 1774344912827.
- A short code such as `1e0005` is read back from the stream as a number
  (`redis.service.ts:229`), so its verdict is stored on another row or on none. The
  proofs that need `PlainCodes` say so; the runs read codes back as they were.
- Clicks on a link whose code is all digits are skipped and acknowledged
  (`analytics.worker.ts:85`), for the same reason.
- A delete that read the row before clicks were counted writes the old
  `click_count` back (`drifted`).
- A redirect fails although the database answered when the cache could not be
  written (`url.service.ts:67`).
- A password reset is undone by the `save` of an overlapping login
  (`auth.service.ts:531`).
- `logout` reports success when the blacklist could not be written
  (`auth.service.ts:226`).
- A threat whose cache write fails is reported as a skipped check
  (`safety.service.ts:142`), so the link stays active.
- The first bust of a user's dashboard makes version 1, which is what a missing version
  was read as: pages cached before stay until their 15 seconds end
  (`url.service.ts:267`).
- `timeRange=90d`, which the API documentation lists, is answered with a week
  (`analytics-query.service.ts:97-110`).
- The monthly quota is counted before it is known whether the API will be called
  at all: without a key, and for URLs of this host, it counts as well.

## Proofs

`LinkLifecycleProofs` proves, for any sets of codes, users, URLs, readers,
creators, deleters and workers, any positive bounds, any `ReadBack` and any set
of failures:

- `TypeCorrect`: `Spec => []TypeOK`. `TypeOK` alone is not inductive: a delete or
  a verdict reads the row of a code it only remembers. `RowsStay` (no row is ever
  removed, so whatever mentions a code mentions a row) makes it so; the two are
  proved together (`TypeNext`, `RowsNext`).
- `CoherenceHolds`: `Spec => []CacheCoherent`. The invariant adds `FillsCoherent`,
  because an entry is only as fresh as the row a reader held before its SET. Every
  step is one of three: nothing moves (`CoherentQuiet`), a writer writes and owes
  the DEL (`CoherentWritten`), the DEL is sent or lost (`CoherentSettled`).
- `NewRowBelongs`: `Spec => []NewRowIsOwn`, from `CheckInOnePlace` (the check of a
  link is in a creator's hands, on the stream or with one worker).

The module proves the rest under the hypothesis `PlainCodes` (every code
comes back from the stream as it was; without it a code such as `1e0005` breaks all four):

- `InvariantHolds`: `Spec => []IInv`. A check that is still due has no verdict in
  its row (`NoVerdictWhileDue`): for a published link the places that hold its check
  only ever get fewer (`OutstandingNext`), and the UPDATE that stores a verdict
  empties the last one (`PersistSettles`). So a delete that read `checked = FALSE`
  never writes activity back over a verdict (`DeletesAreHarmless`).
- `UnsafeStaysDown`: `Spec => []UnsafeNeverActive`, from the same invariant.
- `DirectoryImplemented`: `Spec => ImplementsDirectory`. A step that leaves the rows
  alone at most loses checks (`ForfeitStep`); the others are an INSERT
  (`PublishStep`), a verdict (`JudgeStep`) or a delete (`TakeDownStep`).
- `GoneStaysGone`: a link that is down, whose check is settled and of which no copy is
  cached or held by a reader (`Gone`) stays so. A delete only writes inactivity,
  a verdict needs an outstanding check, and a reader needs an active row.

`ClickPipelineProofs` proves, for any codes, workers, deletes, number of clicks,
batch size, stream length and set of failures:

- `ClickTypes`, `ClicksStoredOnce`, `AcknowledgedIsStored`: `TypeOK`, `StoredOnce`
  and `AckedIsStored` hold. The strengthening is `Placed` (`TypeOK`, `ReadOnce`,
  `StagesAgree`): an entry is in the hands of one worker at most, a batch that is
  not yet inserted has no rows, and a group made anew begins after every entry
  that was ever delivered.
- `CounterBehind`, `CounterExact`: `CountNeverAhead` and `CountIsExact` hold. The
  argument counts the settled clicks of a code, those that are stored and not
  about to be counted (`SettledOf`): an INSERT adds as many to the rows as to
  what is due (`InsertSettled`), and an UPDATE settles exactly what it adds
  (`CountedSettled`). Settled clicks only grow, so a counter that a delete
  remembers stays behind (`CopiesBehind`).
- `ClickInvariant`: the whole `IInv` of the module.
- `LedgerImplemented`: `Spec => ImplementsLedger`. What the invariant knows of an entry
  fixes its fate (`FateKnown`), each action moves one set of clicks to one fate
  (`Becomes`), and an entry in the hands of a worker is in those of no other
  (`OneWorker`). An abandoned or crashed batch leaves the ledger through `Store` or
  `Count` with nothing counted (`OutOfHands`, `CountedOut`); a stale save is a
  `WriteBack`, which `CopiesBehind` bounds.

`AccountsProofs` proves, for any number of requests, codes, passwords and attempts:

- `AccountTypes`, `CodesUsedOnce`, `GuessesAreBounded`, `OnlyNewestAccepted`,
  `PasswordStays`: every invariant of the module. The strengthening for the codes is
  `HeldAlone` (a code that no two requests worked on is exactly as its only holder
  read it, and its attempts are the wrong guesses answered) with `UnusedIsNewest`
  and `Unissued`; every action gives the new value of `raced`, and `AloneNext` argues
  about the codes outside it. For the password it is `PasswordsKept`: logins in
  flight carry the password set last, unless the reset overlapped one.
- `OneTimeCodesImplemented`: `Spec => ImplementsOneTimeCodes`. The state of a code is a
  function of its row, its holders and `raced` (`Phase`). A step that changes no
  answer moves codes only to dead or shared; a right guess is an `Accept` and a
  wrong one a `Refuse`, for which `WriteAlone` shows that the row still is as the
  request read it.

`UserCachesProofs` proves, for any number of requests and writes:

- `CacheTypes`, `PagesCover`, `ProfileCovers`. `TypeOK` needs `Outstanding`: the version
  plus the INCRs still to come never exceeds the writes, a fact about `Cardinality`.
  `PageCoversBusts` needs `VersionsPast` (nothing is ahead of the version) and
  `PageCopiesCover` (a request that read its version before its page holds a page
  that shows the writes of that version); the profile needs the same for a copy on
  its way (`ProfileCopiesCover`).
- `FreshIsFinal`: once every cached copy, and every copy a request is about to store,
  shows a write (`Fresh`), no step brings one back that lacks it. This is what is
  safety in `EventuallyFresh`; that `Fresh` is reached rests on the times to live.

`ClickAnalyticsProofs` proves, for any ranges, groups, limits, clicks and requests:

- `AnalyticsTypes`, `PartsAgree`, and `AnswersCoverRange` (an answer was computed over
  the range it is kept under), from `RequestsAgree` (the parts already computed
  agree), `KnownAreRows` and `RowsInOrder`. Rows are only added and never change, so
  the table of an earlier moment is still the same after an insertion, and with it
  what a query returned on it (`Inserted`); a query that runs now returns a part of
  the table of now (`Answered`).
- `CountedForGood`: the same for `EventuallyCounted`: once the cached answer of a range
  covers a row, and every answer of the range that is past its counting query does,
  no slow request, of any number of them, puts an older count back.

`SessionsProofs` proves, for any lives of the tokens, any instants per second, and any
number of requests and logins:

- `SessionTypes`: with `SignedBefore`, no token is signed in the future, which bounds
  the time to live of the blacklist by the token's life.
- `LogoutIsFinal`: `LoggedOutIsRefused`, from `Outlives` (a key, and a SET under way,
  outlive the token) and `LateIsOver` (a guard that began after a logout has a
  lost key to blame or a token that is over).
- `OneSessionPerLogin`, `SessionsAreKept`, from `RowsIssued` and `RowsHeld` (a refresh of
  a login that is not contested works on a row nobody else works on). A refresh
  moves the login from `Live` to `Rotating` and back (`ChainsRevoke`, `ChainsRotate`);
  rows of other logins are left as they are, equal tokens or not.
- `SessionLifeImplemented`: `Spec => ImplementsSessionLife`, with one more invariant,
  `Heads`: the row a chain began with keeps its own id, so the sessions of the
  abstract specification are the rows that head a chain. The state of a session is
  a function of its rows and refreshes (`Phase`), and every action changes that of
  one login at most.

`RateLimiterProofs` proves, for any policies, callers, keys, number of requests and
parts of a second:

- `LimiterTypes`, `LimitIsKept`, `RetryAfterIsKept`, `HeadersNameTightest`. The invariant
  is one fact per key (what passed is the count, up to the limit; what is left is at
  most what was advised, half a second aside) and one per request
  (it holds the tightest notice so far, `TightestSoFar`). `ReportedTime` bounds what
  rounding to whole seconds and replacing 0 by a window can do.
- `WindowsAreFixed`: an action property. A window that is open is never prolonged and
  never forgets its count, and one that refused lets nobody through until it ends
  or Redis loses it: the safety half of `WindowsEnd`.

`SafetyCheckProofs` proves, for any URLs, quota, calendar and finite set of calls under way:

- `SafetyInvariant`, `SafetyTypes`, `QuotaIsKept`, `VerdictsAreNewest`. For the quota
  the invariant is `CallsCounted` (calls made and calls still to be made of a month
  are together no more than its counter, and no more than the quota), a fact about
  the `Cardinality` of the calls between INCR and the API, with `CountersLast`: a
  counter that was given a time to live outlives its month. For the verdicts it is
  `CheckedAlone`: unless checks of a URL overlapped, the one that is under way found
  no verdict and stores what the API answered last.

The assumptions are the named ones of the modules; TLC evaluates them in every
run. Histories are capped one above the limit they are compared with (`Least`), so
the proofs are about the same finite values as the runs.

Only model-checked: the liveness properties (`InactiveIsForgotten`,
`PublishedIsJudged`, `TrackedIsCounted`, `EventuallyFresh`, `EventuallyCounted`,
`WindowsEnd`, `EventuallyCurrent`), which are out of the prover's reach, and
the finding. Every invariant and every refinement a run checks is a theorem. What
the liveness properties promise is final by `GoneStaysGone`, `LedgerImplemented`,
`FreshIsFinal`, `CountedForGood` and `WindowsAreFixed`; `PublishedIsJudged` and
`EventuallyCurrent` have no such half, since a delete may write `checked = FALSE` back
and the lists may change again.

## Plan

Done, in this order: `LinkLifecycle` with the abstract `LinkDirectory`,
`ClickPipeline`, `Accounts`, `Sessions`, `UserCaches`, `ClickAnalytics`,
`RateLimiter`, `SafetyCheck`, each with its proofs; then the abstract specifications
`SessionLife`, `OneTimeCodes` and `ClickLedger` with the refinements.

Left, by what it would add:

1. A refinement of the user's caches and of the link cache to one abstract "copy
   that is fresh but for named windows".
2. A composition of `Accounts` and `Sessions`: a reset does not end sessions.

## Not modelled

- `UrlNormalizerService`: a stateless function of one string. What its only caller
  needs of it, which URLs share a `url_hash`, is the constant `Urls` of
  `LinkLifecycle`. (Applied twice it need not return what it returns once: a name
  that occurs n times among the parameters is visited n times and yields n
  squared values, and one slash is cut off the path each time. No caller does that.)
- `EmailService`: one HTTP request and no state; the code is stored before it is sent.
- `AuthService.register` and `verifyLoginOtp` as far as no route or no code can reach
  them; `SafetyService.checkUrlSafety`, which nobody calls.
- Of `RedisService`: `mget`, `mset`, pipelines and `getStreamLag`, which no modelled
  operation uses to change state; a command that ioredis sends again after a
  reconnect.
- The columns, types and foreign keys of the migrations, beyond the unique
  indexes and initial rows the models use.
- Configuration, request validation, response formatting, interceptors, health and
  metrics routes, the application module: stateless wiring.
- The contents of tokens and hashes, and real time beyond the seconds of `Sessions`,
  the windows of `RateLimiter` and the days of `SafetyCheck`: elsewhere a time to live
  is an action that may happen, and under fairness does.
