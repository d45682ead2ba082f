# Hyper-Tern: TLA+ models, checks and proofs

Hyper-Tern is an OpenAI-compatible router for language models. An agent sends
`/v1/chat/completions`, `/v1/responses` or `/v1/messages` with its agent key. The
backend checks the user's limits, picks a tier and a model, unwraps the provider's
credential, forwards the request, falls back along a chain when the provider fails,
translates the answer, and records a row per attempt. A dashboard manages agents,
providers, tiers, limits and alerts. The backend is one NestJS process over one
Postgres database. It runs on one event loop, so two pieces of code interleave only
where one of them awaits; that is where these models cut it into actions.

`B` stands for `src/packages/backend/src`, `P` for `B/routing/proxy`.

## Inventory

### Modelled, wholly or in part

| Component | Code | State it keeps | Operations | What is hard | What makes it correct |
|---|---|---|---|---|---|
| OAuth refresh coordinator | `B/routing/oauth/core/oauth-refresh-coordinator.ts`, `B/routing/oauth/redirect-pkce-oauth.base.ts`, `P/oauth-credentials.ts` | in-flight map; the row of `user_providers`; at the provider, which refresh tokens are accepted | unwrap, join, re-read, exchange, persist with retries, retry after a 401, connect, disconnect | a second exchange of a rotated token bricks the account; callers hold blobs up to two minutes old; lost answers, failed writes, restarts | one refresh at a time, no dead token presented, the stored token good or lost by a named mishap, every waiter answered |
| Pending OAuth flows, device and vendor logins | `B/routing/oauth/core/oauth-pending-flow.store.ts`, `pending-store.ts`, `redirect-pkce-oauth.base.ts`, the Anthropic, Kiro, MiniMax and xAI services | flows in memory or in the database, the loopback server, the rows the grants are stored in | start a login, callback, paste, poll, take a flow out, exchange its code, name the new row, store it; sweep and expiry | two tabs, callbacks that come twice or late, a shared server that is closed, names chosen before an await and used after it | a flow is used once and with its own code, a page can come back while its flow lives, no grant is written over |
| Provider keys, routing cache, tiers | `B/routing/routing-core/provider.service.ts`, `provider-key.service.ts`, `routing-cache.service.ts`, `tier.service.ts`, `specificity.service.ts`, `B/routing/header-tiers` | keys per (agent, provider, auth type, label) with priorities; routes that name a key; lists cached two minutes | connect, rename, reorder, remove, deactivate; store, clear, relabel and clean routes; fill, expire, invalidate | each mutation is a dozen database calls over three tables; saves write whole entities back; a fill reads before an invalidation and stores after it | a cached list differs from the keys for a named reason only; a route names a key that exists |
| Rate limiter | `P/proxy-rate-limiter.ts` | two LRU maps of windows, slots per user | `checkLimit`, `checkIpLimit`, `acquireSlot`, `releaseSlot`, cleanup | rejection after a partial count; overflow of the maps; bursts across a window's end | slots match requests in flight, bounded bursts, an overflow forgets the least recent |
| Routing decision, scoring, momentum | `B/routing/resolve/resolve.service.ts`, `B/scoring`, `P/session-momentum.service.ts`, `P/proxy.service.ts` | the last tiers and categories of a session; rows per tier, category and header; penalties of categories | header tier, specificity, score with momentum, tier, default; record what was answered; expiry and clean-up | the session feeds back into its own routing; requests that overlap; rows that change between two reads | a session settles, expired history is gone, a flagged category needs more than its history, a route is that of one moment |
| Request handling | `P/proxy.controller.ts`, `P/proxy.service.ts`, `P/proxy-fallback.service.ts`, `P/proxy-response-handler.ts`, `P/stream-warmup.ts`, `P/stream-writer.ts`, `P/proxy-transport.ts` | per request: its place in the chain, failures so far, whether headers are out, slot, abort signal | admit, limits, route, credentials, exchange, peek, fall back, refuse, relay, abort | failures at every await, a client that leaves at every await, streams that break after their headers | one verdict per request, rows name what was forwarded, the handler ends |
| Streamed answers | `P/anthropic-messages-adapter.ts`, `P/responses-adapter.ts`, `P/stream-writer.ts` | the blocks that are open, indexes, what is kept for the end | convert a chunk, finish, flush, cut | reasoning, text and calls in any order; usage after the finish; streams that end early | a strict client reads a well-formed answer, complete and in order |
| Message recorder | `P/proxy-message-recorder.ts`, `P/proxy-message-dedup.ts`, `B/analytics/services/message-recording.service.ts` | `agent_messages`, `message_recordings`, promise chain per key, row lock on the agent, cooldown of 429s | record a success (with payload, canned, fallback), record a 429, delete a recording | lookup and write apart; queue of promises with failing members; restarts | locks exclude and drain, lookups hold at the write, tokens are never overwritten |
| Threshold alerts | `B/notifications/services/notification-cron.service.ts`, `notification-log.service.ts`, `notification-rules.service.ts` | `notification_rules`, `notification_logs` with a unique index | hourly cron, run at startup, check by the user, alert of a refused request | all of them at once; passing hours; failing rules and emails | nobody alerted twice, every alert earned, a run covers its rules |
| Usage limits | `B/notifications/services/limit-check.service.ts`, `B/common/services/ingest-event-bus.service.ts` | cache of block rules, cache of consumption, debounce timer | `checkLimits`, fills, `invalidateCache`, eviction by event | fills under way while an eviction comes; late events; expiry | no decision on data older than the lifetime, refusals earned, staleness only for a reason |
| Agents, tenants and keys | `B/otlp/guards/agent-key-auth.guard.ts`, `B/otlp/services/api-key.service.ts`, `B/analytics/services/agent-lifecycle.service.ts`, `agent-duplication.service.ts`, `B/routing/routing-core/resolve-agent.service.ts` | agents, their keys, the tables that repeat an agent's name, two caches | onboard, rotate, rename, delete, duplicate; look up by key, by name | a call reads an agent by its name and writes by its id; lookups that began before a clearing end after it | a revoked key is forgotten; a cache is wrong for a lifetime at most and for a named reason; records follow their agent |

How they meet: the controller brackets a request between `acquireSlot` and
`releaseSlot` (rate limiter), behind the guard that finds the agent by its key. It asks
`checkLimits` (usage limits), has the route decided from the session's history and the
stored rows, takes a credential from the cached list of provider keys and has it
unwrapped (OAuth), forwards, streams the answer through a converter, and hands rows to
the recorder. What was answered is fed back into the session. The recorder emits on the
ingest bus, which evicts cached consumption. A refusal by `checkLimits` raises an alert
through the same log the cron uses. A login ends in the same `upsertProvider` that
stores an API key; a refresh writes its successor to the same row. Edits by the
dashboard write several tables and then invalidate the caches the requests read.

### Not modelled

| Component | Code | Why |
|---|---|---|
| Copilot tokens | `P/copilot-token.service.ts` | its failure is in `ProxyRequest`; its cache has the shape of the guard's, which `AgentKeys` has |
| Thinking caches | `P/thought-signature-cache.ts`, `thinking-block-cache.ts`, `reasoning-content-cache.ts` | synchronous maps with a lifetime that no decision reads |
| Adapters of whole bodies, other formats | `P/*-adapter.ts`, `P/sse-parser.ts`, `P/provider-client.ts` | data without control; of the provider client only `executeFetch` is modelled |
| Custom providers, model parameters | `B/routing/custom-provider`, `B/routing/model-params.controller.ts` | rows edited by the user and read through the same cache as keys: one more provider, one more fill |
| Model discovery, prices, catalogues | `B/model-discovery`, `B/pricing-catalog`, `B/database/*-sync.service.ts` | downloads that replace maps; `SessionRouting` takes what is available as an input that changes |
| Analytics, public statistics, free models | `B/analytics`, `B/public-stats`, `B/free-models` | read-only queries and cached pages |
| Playground | `B/playground` | one forwarded call per model, over the code of `ProxyRequest` |
| Live updates, telemetry, authentication, setup, migrations | `B/sse`, `B/telemetry`, `B/auth`, `B/setup`, `B/database` | I/O, libraries, schema history; the unique indexes are modelled where the services rely on them |
| Frontend, shared types | `src/packages/frontend`, `src/packages/shared` | views and constants; half of the implementation's lines |

## Modules

| Module | Role |
|---|---|
| `Credential` | abstract: what a stored credential promises |
| `OAuthRefresh`, `OAuthRefreshProofs` | one stored credential, any number of requests; implements `Credential` |
| `OAuthConnect`, `MCOAuthConnect`, `OAuthConnectProofs` | logins of four kinds up to the row their grant is stored in |
| `KeyRouting`, `MCKeyRouting`, `KeyRoutingProofs` | one provider's keys, the routes that name them and the cached lists |
| `ProxyRateLimiter`, `MCProxyRateLimiter`, `ProxyRequestProofs` | any number of requests through both windows and the slots |
| `SessionRouting`, `MCSessionRouting`, `ProxyRequestProofs` | one session's messages, from their scores to their routes and back |
| `ProxyRequest`, `ProxyRequestProofs` | one request, a chain of any length |
| `StreamedAnswer` | abstract: what a client is promised of a streamed answer |
| `MessagesStream`, `MCMessagesStream`, `MessagesStreamProofs` | the two converters of streams and their client; implements `StreamedAnswer` |
| `MessageRecorder`, `MCMessageRecorder`, `UsageProofs` | any number of requests that end and record |
| `UsageAlerts`, `MCUsageAlerts`, `UsageAlertsProofs` | runs of the cron and refused requests, over one agent's rules |
| `LimitCheck`, `MCLimitCheck`, `UsageProofs` | overlapping checks of one agent and its two caches |
| `AgentKeys`, `MCAgentKeys`, `AgentKeysProofs` | one tenant's agents and keys, and the caches requests find them through |

An operator called after the definition before which it stands, and used by no
specification, is that definition with a plausible bug: the properties tell the two
apart. Variables and fields marked ghost are history that only properties read.

### OAuthRefresh and Credential

A blob is a pair of numbers: the access token `t` and the refresh token `r`, numbered
in the order the provider issued them. Whether an access token has expired, or is
within the skew of it, is membership in `expired`, which `Expire` may extend at any
moment. `live` is what the provider accepts: an exchange may rotate, or not
(`Accepts`). An action is an await-free stretch of the code: `Take` reads the key (as
old as the caller's cache may be), `Join` and `Lead` are the synchronous look into the
in-flight map, `ReadRow` is the re-read, `StillValid` and `StartExchange` the decision
on it, `ExchangeSucceeds`, `AnswerLost` and `ExchangeFails` what the token endpoint
may do, `PersistSucceeds`, `PersistRetries`, `PersistGivesUp` the writes (a write may
be made and its answer lost). `Rejected401` is the retry after an upstream 401;
`Connect`, `StartDisconnect` and `Disconnect` are the user; `Crash` empties memory.

`Credential` knows no tokens: the credential is absent, good, rotated (the provider has
a successor that is not stored yet) or lost, and may be lost only while rotated and
only once a mishap (a lost answer, a write that failed to the last, a restart, a
disconnection meanwhile) has `excused` it. The refinement mapping reads `stored` off the
row, what the provider accepts and what the runs hold.

### KeyRouting

A mutation is a job: a list of database calls (`todo`) with what it has read so far.
`Proceed` makes the next one, `Fail` ends the job at it; readers (`Fetch`, `Fill`),
expiries and the other job come in between. Whole-entity saves write back everything
that was read, which is how two mutations overwrite or resurrect each other's rows.
Routes are pins of an (auth type, label) in one of the three tables. `dirty`, `alone`
and `unannounced` say which of the accepted reasons for a stale list or a dangling pin
holds.

### OAuthConnect

A login has a flow from `InsertFlow` (or, for the device kind, `Authorize`) until it is
consumed, swept or run out. `Callback`, `Paste` and `Poll` open a call; `Consume` takes
the flow out and sends its verifier, `Answer` is the vendor's, and `Label`, `Find`,
`Write` are the name chosen for the new row, the look for a row of that name, and the
write, apart as the code has them. The vendor is external: it grants a code once.

### ProxyRateLimiter

The overflow drops the first entries of a map, and `checkLimit` re-inserts what it counts:
so an entry has, besides count and start of its window, the turn at which it was put in,
and `EvictLru` keeps as many as there is room for from the back. Everything between two
awaits of the controller is one action: `AcquireSlot`, `RejectUser`, `RejectAddress` and
`RejectSlot` are the four ways through the three synchronous checks, with what each has
counted by then; `Finish` is the `finally`; `EvictExpired` the cleanup timer.

### SessionRouting

A message is what the scanners find in it: its raw score and momentum's weight, the
signal of each category, the flags of the shortcuts, and whether the user has said
anything at all (`mute`). From there on the arithmetic is the
code's, in hundredths: `ScoredTier` blends and floors, `Detected` adds the bias of the
history, subtracts penalties and compares with threshold and confidence, but finds
nothing in a request that is mute, whatever its header or history. A
route is looked for in the order of the code, `ReadHeader` to `CheckTier`, each read a
step; `Forward` hands it to a slot, `Answered` records tier and category in the session.
The user edits rows, models come and go, and categories are flagged and unflagged in
between.

### ProxyRequest

`pc` is the await the handler is at. `outcome[a]` records what really came of attempt
`a` (0 is the primary), `rows[a]` which rows were handed to the recorder for it; the
properties compare the two. Statuses that fallback treats alike are one value.
`ClientGoes` may come at any await. The handler's first is the look whether the agent's
messages are recorded (`RecordingRead`), and only behind it the listener for the
response's `close` is registered, and the `try` begins: a client that leaves before is
`gone` and never `aborted`, and its request goes on as if it were there; a lookup that
rejects (`RecordingFails`) leaves no row. From then on leaving sets the abort signal, and
every action that follows takes it into account as the code does: an aborted exchange
rejects, an aborted warm-up counts as failed, an aborted stream is truncated.

### MessagesStream and StreamedAnswer

`Read` takes a chunk, `Transform` converts one part of it, `Finalize` is the flush at
the end, `Receive` the client, which drops a delta for a block it has not open, as
strict clients do, and begins a block anew when its index is started again, as a client
does that keeps blocks by index: what it had of it is gone. `Break` is a provider that
fails, `Cut` what the client then sees. A piece of text, reasoning or arguments is known
by the number of the part it came in, so loss, repetition and reordering show. Usage comes in a chunk of its own, with a finish
reason, or beside a choice that has none (`UsageBeside`), which the converter of the
Responses API takes and that of the Messages API does not.
`StreamedAnswer` is that client's view: the answer begins, its blocks open, grow and
close, reasoning and text never beside another block, and it ends when they have. A
call's block may be started again, empty (`RestartCall`), since the code does that. The
mapping keeps the client's `phase` and `blocks` and forgets the converter.

### MessageRecorder

`tail` is the map of promise chains, `previous` the promise each call awaits,
`agentLock` the `SELECT ... FOR UPDATE` on the agent's row, `found` what the lookup
returned. `LockAgentMessageWrites` and `FindExistingSuccessMessage` are steps of their
own because other calls write in between, and a call decides and writes on `seen`, the
copy its lookup returned, whatever the row has become. `Matches` is the rule of the lookup: same
trace, or same usage with a start near the end of the other.

### UsageAlerts

Time is the number of the hour; `before[h]` is what had been recorded when hour `h`
began, so consumption from a period's start is a difference. A run is a loop over a
set of rules (`CheckThresholds`, `FetchGroup`, `EvaluateRule`, `EndRun`), a refusal an
alert of its own (`Refuse`, `NotifyLimitExceeded`). Both go through `AlreadySent`,
`InsertLog` and `SendAlert`, apart; `InsertAllowed` is the unique index. `Restart`
stops everything that is under way and keeps the database.

### LimitCheck

`upTo[t]` is the sum of the tokens of rows stamped `t` or earlier. A query is answered
with the database as it was when it was asked (`query`), and cached when it is
answered. `WriteRow` and `Emit` are apart, `Evict` is the debounce timer's end.
`Loop` goes over the rules left in any order that the list may have, as far as the
next rule that is reached or not cached. `MakeRoom` stands for other agents that fill
the caches. `missed` and `raced` remember that an eviction came while an entry was
being fetched.

### AgentKeys

The dashboard's calls are jobs, as in `KeyRouting`: `Start` reads the agent by its name,
`Proceed` makes the next call by its id, `Fail` stops there. `Look` and `Admit` are the
guard before and after its query, `Hit` its cache; `Find` and `Keep` the same of
`ResolveAgentService`. Of what an agent has, records stand for its messages and rules:
they carry its id and its name. `crossed` holds the agents touched by a call that had
read them under a name that is no longer theirs.

## Runs

| Run | Module | Properties | Shows |
|---|---|---|---|
| `oauthrefresh` | `OAuthRefresh` | `ImplementsCredential`, `SingleFlight`, `NoDeadToken`, `EveryRefreshEnds` | two requests with a 401 retry each, around connects, disconnects, lost answers and restarts: the stored credential keeps what `Credential` promises, nothing is rotated twice, whoever awaits a refresh is answered, and a refresh leaves the map however it ended |
| `oauthconnect` | `MCOAuthConnect` | `UsedOnce`, `CallbackReachable`, `OwnVerifier`, `GrantsAreKept` | three logins of each kind, with callbacks that come early, late, twice or never, around an edit and a refresh: flows are used once and with their own codes, pages can come back, no connected grant is written over |
| `keyrouting` | `MCKeyRouting` | `StaleForAReason`, `PinsResolve` | every sequence of four mutations that run alone and every overlap of two, around reads, expiries and a failure: lists are stale for a named reason only, routes name keys that exist |
| `ratelimiter` | `MCProxyRateLimiter` | `SlotsMatchInFlight`, `SlidingBound`, `ForgetsLeastRecent` | slots never leak, no stretch of a window's length passes twice the limit, an overflow forgets the least recently counted |
| `sessionrouting` | `MCSessionRouting` | `SettlesWithinOne`, `HistoryIsOneSession`, `FlaggedNeedsAnAnchor`, `DecisionIsOfItsTime` | a session of any number of messages of seven kinds, two requests of which overlap, that expires and begins again, under routings that change while a route is looked up: momentum settles, expired history is not carried on, a flagged category needs more than its history, a route is never a mixture of two routings |
| `request` | `ProxyRequest` | `OneVerdict`, `RowsNameTheAttempts`, `ExhaustionIsReal`, `SuccessIsDelivered`, `RequestEnds` | every way a request with up to three fallbacks can go, with a client that leaves before the handler listens or after: rows, answer and status agree with what happened; the handler ends |
| `stream` | `MCMessagesStream` | `OnlyPartedCallsLose`, `InOrder`, `EndTellsAll`, `ImplementsAnswer`, `ClientsAreAnswered` | every stream of up to six parts, in chunks of thirteen kinds, ended or broken off anywhere: a strict client of either API reads an answer block by block, in order, complete but for the calls that text parted, with the end the converter took, and is always answered |
| `recorder` | `MCMessageRecorder` | `KeyExclusion`, `LocksDrain`, `DecisionsHold`, `TokensSettle` | three calls of every kind that overlap, fail and are cut off: locks exclude and drain, a lookup still holds at the write, and no decision taken on the copy it returned overwrites tokens |
| `alerts` | `MCUsageAlerts` | `OneAlertPerPeriod`, `AlertIsEarned`, `RunCoversItsRules` | a run and two refused requests over two rules that change, an hour that passes, failing queries and emails, a restart: nobody is alerted twice, every alert was earned, a run that met no failure leaves no exceeded rule behind |
| `limits` | `MCLimitCheck` | `LimitsUpheld`, `RefusalsEarned`, `StaleForAReason` | two checks over a rule that is edited, usage announced late, entries that expire or are evicted while fetched: no decision rests on anything older than a lifetime |
| `agentkeys` | `MCAgentKeys` | `RevokedIsForgotten`, `StaleForALifetime`, `RecordsFollowTheAgent` | two of the dashboard's calls, and onboardings, in any overlap, around requests, lookups by name and entries that expire: who is revoked is forgotten, what is wrong is so for a named reason and, in a cache, no longer than a lifetime |
| `oauthrefresh_rejected` | `OAuthRefresh` | `RejectedTokenReplaced` | refutes a sentence of the repository; see Findings |

### Bounds, and why they are enough

- `oauthrefresh`: `MaxTokens = 2` issued tokens are the stored credential and its
  successor; two requests are a leader and a joiner, or two leaders one after the
  other; `PersistMax = 2` (the code has 3) still has a write that fails and one that is
  tried again. The proofs, of the refinement too, hold for every value.
- `oauthconnect`: three logins are one that ends, one that is under way and one that
  begins; two callbacks, pastes or polls at a time; at most two keys, so the bound on
  keys is met. Edits and a refresh are explored for the redirecting kind, since from the
  naming of the row on all kinds run the same code, and are single steps, since
  `KeyRouting` has theirs. One agent and provider: flows and rows of others never meet,
  except in the loopback server, which is shared and modelled as such.
- `keyrouting`: two auth types, two labels, two credentials, at most two keys
  (`MAX_KEYS_PER_PROVIDER` is 5) and two routes: a key to keep and one to lose, a route
  to each. `MaxStarted = 4` mutations one after the other make every state the removals
  distinguish; once two have overlapped three in all, and never three at a time. One
  failure, while a mutation runs alone; the lists are read one at a time, since lists
  of two auth types share nothing.
- `ratelimiter`: seven requests, of which five belong to one user, over maps of two
  entries with limits of 2 and 3: a window fills, overflows and is followed by the
  next; `MaxTime = 3` spans two windows. Requests of one user and address are
  interchangeable, and so are the two other users with theirs.
- `sessionrouting`: seven messages take every way through the decision but one (a message
  so large that its tier is raised; the same floor as the one for tools). Two
  categories, one of them with the lowest threshold of the code; three models, of which
  one cannot stream. `MAX_ENTRIES = 3` (the code has 5) is the least number of agreeing
  entries that bias. A request that is forwarded and one whose route is looked for are two
  that overlap; `TTL = 1` and `MaxWait = 1` let a history expire while an answer is
  awaited. One change by the user, of rows and models while the session remembers
  nothing, of flags at any time; a route is found within its tick.
- `request`: `MaxFallbacks = 3` has a first, a middle and a last fallback, so skipped,
  failed and successful ones follow each other in every order. The proofs hold for
  chains of every length.
- `stream`: in six parts a call is opened, parted by text and started again (five), a second
  call comes between, or usage follows a finish that followed text; the thirteen
  payloads mix the parts pairwise in both orders. The safety properties and the
  refinement are proved for every number of parts. Two calls, of which one can close the
  other. The client reads before the next chunk comes: what is on the wire is in order
  whenever it is read.
- `recorder`: three calls are the least that show a queue (holder, waiter, late comer);
  one trace and calls without one make equal and different keys; token counts 0 and 1
  are "no usage reported" and "some"; `MaxTime = 1` with `COOLDOWN = 1` lets a cooldown
  end, and separates requests that start together from those that do not. `LocksDrain`
  and the rest of the locks are proved for any number of calls.
- `alerts`: two rules, since a run goes on after the first fails; two refusals and a
  run are three who alert at once; `MaxHour = 2` passes one hour, and `DayHours = 2` a
  day. The uniqueness is proved for every value.
- `limits`: two checks, since one fills what the other is fetching; two rules, since the
  loop goes on after the first; times 2 to 4 with an hour of 2, a day of 4 and a
  lifetime of 2 contain an entry that expires in the tick an hour and a day end; one
  token decides a threshold of 1, and one edit switches the hourly rule.
- `agentkeys`: two agents and three names, so that names can be swapped, taken over and
  given up; two keys, one to revoke and its successor; one request, since requests meet
  in the cache only. Two of the dashboard's calls on agents that exist overlap, and any
  of them with an onboarding. Lifetimes of 2 (keys) and 1 (names) in two ticks: an entry
  is made, outlives a change and expires. The clock stands still while a call of the
  dashboard or a query runs: they take seconds, the lifetimes minutes. The two caches
  are not filled together, since neither reads the other, and nothing is looked up once
  the one record is kept.

Every cap (`Max...`) is a guard of an action of the environment, so no action of the
code is cut short by one, except that in `sessionrouting` a request ends at `Forward` once
the user has made the change. Deadlock is not checked in these runs: the system may rest
when every request is over or a bound is reached.

### Fairness

Liveness is claimed only of code that goes on by itself. `OAuthRefresh!FairSpec` has
weak fairness per request of everything that request's promises do, since queries and
`fetch` settle; users, the clock and restarts owe nothing. `ProxyRequest!FairSpec` has
weak fairness of the handler: its fetches and bodies end with
`AbortSignal.timeout(PROVIDER_TIMEOUT_MS)` (`P/provider-client.ts`), the warm-up with
its timer, the queries with the pool. `MessagesStream!Spec` has weak fairness of the
converter, the flush and the client, and none of the provider, which may go silent:
`ClientsAreAnswered` speaks of streams that have ended. The other modules claim no
liveness; that nobody waits in vain for a lock is stated as safety (`LocksDrain`).

## What is proved

TLAPS proves the following for every value of the constants under the named
assumptions of the modules (bounds are natural numbers, a null value is none of the
values it stands beside, the fragments of calls come in an array of their own), which
TLC evaluates in the runs.

- `OAuthRefreshProofs`: `CredentialImplemented`, that `OAuthRefresh` implements
  `Credential` under the mapping of `ImplementsCredential`; `TypeOK`, `SingleFlight`,
  `NoDeadToken`, `NotBricked`, `NeverRefreshedTwice`. None but `SingleFlight` is
  inductive by itself. The invariant adds that every blob anywhere was issued
  (`Numbered`), that the row is good or a run holds its stored successor (`RowGood`),
  that what a run has read stays good until the run itself exchanges it (`ReadGood`, by
  `SingleFlight`: nobody else exchanges), and that what it is about to store is new
  (`FreshGood`). A step that settles a run is proved once (`SettleInv`) for all the
  actions that do. The refinement is a step theorem over this invariant: each action is
  a step of the abstract credential or leaves it as it is. Why requests end: who waits
  for a refresh waits for one that is under way (`NobodyWaitsInVain`), and `Left`, the
  awaits a request still has before it, falls with each step of its own, or of the run
  it waits for, and rises with none (`RequestsComeNearer`).
- `OAuthConnectProofs`: `UsedOnce`, `CallbackReachable`, `OwnVerifier` and
  `GrantsAreKept`. A flow whose verifier was
  sent is no longer stored (`FlowsUnused`), because taking it out and sending are one
  stretch of code; the server is up whenever the page of a live flow is out
  (`ServerServes`); both over the shapes of calls and logins (`Shapes`). A code meets its
  own verifier because only the latest login has a flow stored, unless two began at once.
  For the grants: the label a login has chosen names no connected row, a refresh's names
  only its own row, and what a call writes over is its own grant or came after its label.
- `KeyRoutingProofs`: `StaleForAReason` and `PinsResolve`. The promise about cached lists
  is inductive once the same is said of lists that are read and not yet stored: they are
  the keys, or will be marked as raced, or somebody is still to invalidate. For the
  routes, the invariant speaks of the one mutation in flight while it is alone: the steps
  left are a tail of its plan, what it has read still holds, and a route without a key is
  in a table still ahead of it, from which it will drop or rename that route.
- `ProxyRequestProofs`, what becomes of a request, in three parts that are proved apart;
  the three modules it extends share no state.
  - The handler: `TypeOK`, `OneVerdict`, `RowsNameTheAttempts`,
    `ExhaustionIsReal`, `SuccessIsDelivered`. They speak of the end, so the invariant says
    for each await what is known of the attempts so far: which are untouched, which were
    tried, that `failures` lists the failed fallbacks once each (`FailuresTrue`), and
    which rows a relayed body has already led to (`InBody`). Of a success it says that the
    client was there, or had left before the handler listened: no guard speaks of that
    client, so its success is admitted and no other. Each step of the handler
    uses up one of at most `MaxFallbacks + 11` (`RequestsRunDown`), and at the end the
    slot is given back (`TheSlotComesBack`).
  - The limits, for any number of users, requests and sizes of the maps:
    `SlotsMatchInFlight`, and that a user never holds more slots than allowed.
    `SlidingBound`: a stored window has counted all since its start, which is the time of
    a request, and what came within a window's length before it falls short of the limit
    (`InWindow`); a user without a window has no request now and fewer than the limit
    within a window's length (`NoWindow`), and a window that is over comes to that
    (`OverIsNone`). `ForgetsLeastRecent`: the entries stand in the order of their users'
    last requests (`LastHits`), and an overflow by one drops the one that all others
    stand behind (`Drops`).
  - Sessions: `HistoryIsOneSession`. Nothing ages between a request's question for a
    route and its forwarding, and from then on the session ages no faster than the
    request (`AgesTell`). `DecisionIsOfItsTime`: while the routing stands as it is, a
    request gets to what that routing prescribes if it agrees with what the request has
    read (`Agrees`, `AgreeingLeads`), and each read keeps to that course (`Onward`). Of the
    two routings around one change, either the later one agrees as well, or the change
    is to something the course no longer depends on (`OneChange`); the invariant
    `RoutesTell` puts both in terms of what the request ran over. `FlaggedNeedsAnAnchor`:
    a category that is found is over its threshold (`DetectedIsOver`, for a strongest
    one exists, `StrongestExists`), and three flags outweigh the bias
    (`FlagsOutweigh`).
  - Momentum: `SettlesWithinOne`: an answer to a message is of a tier the message may have whatever
    it is blended with (`Kin`, `AnswersAreKin`), for the weight of momentum is at most
    0.6 and the scores of the tiers lie where they do: one that scores 35 or more is
    never made simple, one below -10 never reasoning. The invariant `MomentumTells` says
    that the entries a session counts as answers to one message are of such tiers; their
    mean then moves the message's own score across one boundary at most (`BlendedNear`,
    `KinAreNear`). It needs the weights in 0..60 and that each message has one name,
    which are assumed of `Messages`. The first answers to a short message are not
    counted: it is not scored while the session is empty, and requests that overlap
    then can fill the session with `simple` whatever the score.
- `AgentKeysProofs`: `StaleForALifetime`, `RevokedIsForgotten`, `RecordsFollowTheAgent`. An entry
  that is not marked lost tells the truth, and one that is was not put off since
  (`EntriesTell`). What is revoked has a clearing ahead of it, also in a lookup that
  has read it and not yet cached it (`RevokedIsCleared`); a clearing that is ahead
  is never called off. A rename that is about to commit has all the records of its
  agent that were written in time, and shares neither agent, records nor new name
  with another (`Ready`): so a record it moves is another agent's only if that one
  bore the same name, and live agents never do (`NamesApart`).
- `MessagesStreamProofs`: `BlocksApart`, with the type of the converter's state: no two
  blocks share an index, and reasoning or text is never open beside another block. It
  needs that what is left of a chunk lets a fragment come only behind its array
  (`ArraysClose`) and that an open call has a block (`CallsHaveBlocks`). Then
  `OnlyPartedCallsLose` (theorem `NothingElseLost`), `InOrder`, `EndTellsAll` and the
  refinement `ImplementsAnswer`, from one invariant (`SInv`): unless the client
  was cut off, the events on the wire lead it (`Leads`), one by one and each by a step `StreamedAnswer` allows, to a state that has
  the blocks the converter has numbered, open where it says so, in order, with all the
  pieces sent so far (`Ahead`, `Will`). Until the message has ended, a call's block
  is stopped only behind text (`StoppedByText`), so a call that no text parted is never
  started again. An action of the converter lengthens that chain,
  the client's takes its first event. The lemmas are about the kinds of events
  (`StartLeads`, `AddLeads`, `ShutsLead`, ...); `ToolStops` takes the open calls by their
  rank among the indexes, which `Ranked` shows to name each once. Once the provider's
  stream has ended, each step writes the end or takes an event off the wire, and the
  client is done just when neither is left (`ClientsComeNearer`).
- `UsageProofs`, on the rows: `KeyExclusion`, `LocksDrain`, `TokensSettle` and
  `DecisionsHold`, for any number of calls. The invariant orders each key's queue: a call
  waits for the one before it, the first for nobody, the map's entry is the last, and what
  is waited for is still under way (`Ordered`). For the tokens, `RowInv`: a call that has
  yet to write has no row, and a write of a row that is new or has no tokens leaves the
  others alone. The write is decided on what the lookup returned (`SeenInv`), and the agent's row lock
  keeps that equal to the row until then. A decision holds because only the holder of the agent's row lock looks and
  decides, and the calls that insert without it are rate-limited errors, which no lookup
  finds (`DecideInv`). On the limits that are judged by the rows: `LimitsUpheld`,
  `RefusalsEarned` and `StaleForAReason` of `LimitCheck`. What a cache holds, and what a
  check has in hand, was true of the database at the time of its query (`CountedAt`,
  `Holds`, `InForce`), and the database keeps what shows it: tokens are added to the
  present only, and a rule that is replaced is remembered. So a rule is under its
  threshold, is still to be looked at, or is too new to count (`ReadyToLoop`); and a check
  that awaits rules differs from the database only if an edit's eviction is to come or has
  come (`Filling`). `TTL > 0` is assumed of the caches: a rule read and replaced within
  one tick would otherwise be older than nothing.
- `UsageAlertsProofs`: `TypeOK`, `OneAlertPerPeriod`, `AlertIsEarned` and
  `RunCoversItsRules`. The row is written before the
  email: a key without a row has had no email (`Unlogged`), an actor about to send owns
  a row that has had none (`SenderOwnsRow`), and two such actors own different rows
  (`SendersDiffer`), because only one insert passes the unique index. Restarts only
  take senders away. What an actor is about to send, it has seen earned, and consumption
  only grows; a rule of a run is still to be evaluated, is the one under way, was below
  its threshold, is logged, or met a failure.

Only model-checked, since they lie beyond this prover: `EveryRefreshEnds`, `RequestEnds`
and `ClientsAreAnswered`, liveness under fairness. What is proved of them is the part
that needs no fairness: in each, a natural number that the steps they rely on lower and
no other step raises, which is zero only at the end (`RequestsComeNearer`,
`RequestsRunDown`, and in `ClientsComeNearer` the events left behind an end written
once). That such a step is possible until the end, and comes, is left to TLC's check
of the three. Every other property of the runs is proved. No
module declares a RECURSIVE operator.

## Findings

| Run | The repository says | The code does |
|---|---|---|
| `oauthrefresh_rejected` | a token rejected upstream is refreshed once (`packages/hyper-tern/CHANGELOG.md:32`) | expires the caller's copy only; the coordinator re-reads the row, finds it unexpired and returns the rejected token |

### Divergences the models contain, without a run of their own

Met while modelling. The models have the code's behaviour, and the properties are
stated so that they admit it and nothing more.

Credentials and logins:
- A failed exchange of the xAI login leaves the callback server listening. OpenAI and
  Gemini share port 1455, so their servers exclude each other.
- `nextOAuthLabel` is not unique for logins that overlap: the second to store writes
  over the first's grant (`GrantsAreKept` says when).
- Duplicating an agent copies its OAuth grants with their refresh tokens
  (`agent-duplication.service.ts:178`): two rows then rotate one token, and no
  coordinator knows of both.

Keys and routes:
- Removing the last key by label is said to tear down the provider
  (`provider.service.ts:559-563`); when the call names no auth type, the keys of the other
  auth types count, and the routes to the removed one stay.
- The bound of five keys is checked on an earlier list, and reconnecting an inactive row
  is not counted against it (`provider.service.ts:209`).
- `deactivateAll` keeps the pins of specificity categories. Overlapping connects give two
  keys one priority. `routing-invalidation.service.ts` invalidates before it recalculates.

Routing:
- Three answers in a category bias by more than the threshold of most categories, so every
  later message without a signal goes there and prolongs it; a greeting too, which
  `CHANGELOG.md:671` wants in the simple tier.
- The comment on `MIN_SPECIFICITY_CONFIDENCE` (`resolve.service.ts:32-42`) puts 0.4 below
  0.33. A header that names no known category still bypasses that gate.
- Requests without `x-session-key` share the session `default`, whoever sends them
  (`proxy.controller.ts:113`).
- A header or specificity route without fallbacks takes those of the standard tier
  (`proxy.service.ts:506-514`). `isModelAvailable` asks for a model of that name, at
  whichever provider.
- A short message is made simple while its session is empty and scored afterwards
  (`scoring/index.ts:200`). Requests that overlap as a session begins are so many simple
  answers in its history, two tiers from what the message may score.
- Messages of no category do not enter the recent categories, so a history of categories
  outlives them.

Requests and streams:
- An abort during the stream's warm-up is recorded as an error of the provider. Only the
  primary's stream is warmed up: a fallback's dead stream is served as an answer.
- A client that leaves while the handler awaits `isRecording` (`proxy.controller.ts:121`) is
  never noticed, since the listener is registered behind it: the provider is called and a
  success recorded for nobody. A rejection of that lookup leaves no row.
- A tool call that text has interrupted is started again at the index of its stopped block,
  which the comment at `anthropic-messages-adapter.ts:548-551` and the test at
  `anthropic-messages-adapter.spec.ts:904-908,961` rule out: a client loses what it had of
  the call (`RestartCall` of `StreamedAnswer`; `OnlyPartedCallsLose` admits these calls and
  no other loss).
- Usage beside a choice that has no finish reason is dropped by the converter of the
  Messages API (`anthropic-messages-adapter.ts:421,537-541`), and the request is recorded
  with zeros if no other comes. The Responses converter drops tool calls altogether. A stream of the
  Messages API that ends empty ends without `message_start`.

Rows, alerts, limits, agents:
- A request with the usage of an earlier one, that starts as that one ends, is dropped as
  a duplicate.
- A recording deleted while its call is about to store it is stored afterwards;
  `RecordedMessageModal.tsx:411` promises a permanent deletion.
- An alert whose email failed is never retried, against the warning at
  `notification-cron.service.ts:143`: its log row was inserted before.
- An hourly rule goes on refusing past its reset: its window begins an hour earlier.
- A recreated agent inherits the rules, and for a while the cached consumption, of the
  deleted one of its name; `CHANGELOG.md:352` promises a clean slate.
- A rename clears no cache. Two renames that overlap leave records under a name of
  nobody's.

Hazards that no property covers are listed with a note in `PROJECT.json`.

## Plan

Done, in this order: the credential (its loss is the worst that can happen), the
admission, the request, the rows, the alerts, the limits; then the keys and routes, the
logins, the streams, the agents, and the session that feeds back into its own routing;
the refinements of `Credential` and `StreamedAnswer`. Next:

1. `UsageLedger`, the abstract promise behind alerts and limits (a threshold is judged
   on a recent state of the recorded usage), refined by `LimitCheck`.
2. The rest of `KeyRouting`'s operations (regions, registered subscriptions, retagged
   auth types) and the loopback-only paths of the guard.
3. The Copilot token cache, and the first-run setup with two users at once.

New questions replace the runs of findings that are settled, so that the set of runs
stays short enough to be repeated on every change.
