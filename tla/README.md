# TLA+ verification of the TGW gateway platform

This directory holds TLA+ models of the gateway (`src/`), the TLC configurations
that check them on small instances, and TLAPS proofs of the properties that
matter most. `PROJECT.json` maps every definition to the lines it models, lists
the runs, the mutants that each property is tested against, the hazards of the
code and the findings. Paths below are those of the repository.

## 1. The system

A C++17 HTTP gateway. `HttpServer` accepts connections on io threads and posts
each request to a pool of worker threads; a worker runs `Router::Dispatch`, which
has handlers for a few pages and otherwise calls `GatewayHandler::Handle`: match a
route, check the token and the role, check the rate limit, forward through the
governance decorator (deadline, retry, circuit breaker, fallback) to
`LocalRpcUpstreamClient`, which calls the file or task service in the same process
and the user service there or, over TCP, in a process of its own. Metrics and spans
are recorded on the way out. All workers run the same code at the same time; what
they share is listed here.

| Component | Source | State | Operations | What is hard about it |
|---|---|---|---|---|
| HTTP server, sessions | `src/gateway/http_server.cc` | socket, two timers, request and response of a session; worker pool; io_context | accept, read, dispatch, write, keep-alive, close, stop on a signal | completions in any order (no strand), timeouts that fire late, shutdown in the middle of a request |
| Gateway handler | `src/gateway/gateway_handler.cc` | none of its own | `Handle` | four exits that must all leave metrics and spans behind |
| Governance | `src/governance/governance_upstream_client.cc` | `circuit_states_` under `mutex_`; a `DeadlineContext` per request | `Forward`, `AllowRequest`, `RecordResult` | clock read before the mutex, results of old requests, retries against deadlines |
| Rate limit | `src/governance/rate_limit_filter.cc` | `buckets_` under `mutex_`, or keys in Redis | `Check`, `CheckLocal`, `CheckRedis` | stale clock, three Redis commands of which each may fail, clocks of several hosts |
| Tracing | `src/observability/tracing.cc` | `id_counter_`, `finished_spans_` under `mutex_`; detached exporter threads | start and finish spans, export | ids from many threads, the ring at its limit |
| Metrics | `src/observability/metrics.cc` | `requests_` under `mutex_` | `RecordRequest`, render | counting each request once |
| Local RPC client, task and file service | `src/gateway/local_rpc_upstream_client.cc`, `src/service/task_service.cc`, `file_meta_service.cc` | a map and a sequence number under a `mutex_`, in each service | create, get, event | the deadline passing between the checks, events that are dropped in silence |
| User service | `src/service/user_service.cc`, `user_repository.cc` | none, or the users table behind a mysql command line | login, profile | a lookup that failed looks like a user who is not there |
| Remote user service | `src/service/remote_user_service_client.cc`, `user_service_server_main.cc` | a connection per call, a thread per connection | blocking call per request | the server down, crashing or restarting in the middle of a call; no timeout |
| Routes, RBAC, tokens | `src/gateway/route_rule.cc`, `src/auth/` | fixed at start; tokens are stateless JWTs | match, check, issue, validate | three tables searched by three loops for the longest prefix; user data inside the token's text; roles that outlive themselves in tokens |
| Configuration | `src/common/config.cc` | none | `LoadFromFile` | values that later code divides by, waits for or indexes with |
| Router, main | `src/gateway/router.cc`, `src/main.cc` | a table fixed at start | `Dispatch`, `BuildRouter`, `RequireAuth` | the filter is applied in two places |
| Logger, admin pages, mock client, RPC demo | | fixed at start | | |

What makes each component correct: a session answers in order and nobody waits for
ever; every request is counted and traced once; the breaker opens, probes and
closes as a breaker should whatever the interleaving, and the caller is called at
most as often as it allows; no window admits more than the limit; a failure that
is reported has had no effect; a retry creates nothing twice and no success in time
is hidden; an accident on the way to the user service is never taken for its
verdict; routing, authorisation and limits agree on which rule governs a path; a
token says what it was issued for and its role does not outlive it; what the loader
accepts is what the other parts assume.

## 2. Modules

| Module | Models | Checked by | Proved in |
|---|---|---|---|
| `CircuitBreaker` | abstract: what a circuit breaker promises | refinement target | |
| `Governance` | `GovernanceUpstreamClient`, `DeadlineContext`, `ForwardContext::Build` | `MCGovernance` | `Governance_proofs` |
| `RateLimit` | `RateLimitFilter` and the Redis it talks to | `MCRateLimit` | `RateLimit_proofs` |
| `Gateway` | `GatewayHandler::Handle`, `Tracer`, `MetricsRegistry::RecordRequest` | `MCGateway` | `Gateway_proofs` |
| `HttpServer` | `HttpServer`, `HttpSession` | `MCHttpServer` | `HttpServer_proofs` |
| `LocalRpc` | `LocalRpcUpstreamClient`, `TaskServiceImpl`, `FileMetaServiceImpl`; user calls by their outcome | `MCLocalRpc` | `LocalRpc_proofs` |
| `UserService` | extends `LocalRpc`: `UserServiceImpl`, both repositories, `RemoteUserServiceClient`, the server process | `MCUserService` | `LocalRpc_proofs` |
| `Forwarding` | composes `Governance` with `LocalRpc`, as `BuildRouter` does | `MCForwarding` | `Governance_proofs` |
| `ConfigLoader` | `ConfigLoader::LoadFromFile`: defaults, and what is refused | through `MCGovernance` and `Access` | `ConfigLoader_proofs` |
| `PathRules` | the lookups of routes, role rules and limit rules | through `Access` | `Access_proofs` |
| `TokenCodec` | the text of a token: `JsonEscape`, base64url, `JsonStringValue`, `JsonIntValue` | through `Access` | `TokenCodec_proofs` |
| `Access` | `Router::Dispatch`, `RequireAuth`, and the filters of `Handle` in their order: `RouteRuleManager`, `AuthFilter`, `TokenService`, `ResolveLimit`; the login | `MCAccess` | `Access_proofs` |

Each worker thread has a `pc` and local variables named after the C++ ones; shared
variables are those the code keeps under a mutex. An action is the code between two
points at which another thread, the clock or the outside could make a difference:
one critical section, or the code before or after it. Variables under "History"
are not in the code; no action's guard reads them. Definitions that a comment calls
"Mutation" are plausible bugs; they are used by `PROJECT.json` only, each to show
that a property would catch one.

**Governance.** `Arrive` starts `Forward` with a fresh deadline; `AllowRequest`
and `RecordResult` are the two critical sections, each acting on `now`, the clock
the thread read before. Between them are the loop head (`NextAttempt`), `CallOnce`
(and `CallTimesOut`, its exits by the deadline), the inner client's answer
(`InnerReturn`, any outcome after any delay), the check after the call
(`CheckTimeout`), `Backoff` and the fallback (`Finish`). Responses are reduced to
the classes `Forward` tells apart. `SleepEnds` keeps the truncation of
`RemainingMs`: the sleep may cancel a deadline a tick early. The clock is one
counter; a tick stands for any unit. `CircuitBreaker` has one counter, `run`; the
mapping reads it from `consecutive_failures` or `consecutive_successes`, whichever
counts in the present state. It says what time has no part in: opening after a
run of failures, closing after a run of successes, a failed probe reopening.

**RateLimit.** `Check` reads the clock (`EnterLocal`) or builds the Redis key;
`CheckLocal` is the critical section; `Incr`, `Expire` and `Ttl` are the commands,
`RedisThrows` is any exception among them, before or after Redis took the command.
`Incremented`, `Expiring`, `TimeToLive` and the expiry in `Tick` model Redis from the
way the code uses it. `Offset` is the difference between a host's steady clock and
real time.

**Gateway.** `Arrive` to `GenerateSpanId` are `StartServerSpan`; `Reject` stands for
the three early exits; `FinishClientSpan`, `RecordRequest` and `FinishServerSpan` are
three critical sections of two objects. `Captured` is what the exporter's lambda
copies: the moved-from span.

**HttpServer.** An asynchronous operation is `pending` until the outside, a timer or
`Close` ends it, then its completion waits (`ready`, `done`, `failed`) for an io
thread to run the handler. `readFired` and `writeFired` count timeouts that are
queued and can no longer be cancelled. `Signal`, `StopPool` and `Exit` are the
shutdown: the io_context stops, the pool's destructor drops what waits and joins.
Each handler is one action, so two handlers of one session that run in the same
moment are not modelled; any order of them is. `OneStage` states that the stages of
a session, each of which begins in one handler and ends in another, exclude one
another.

**LocalRpc.** The two services keep records of a `kind`, each with its store and
sequence number. A field of a record is represented by the event that wrote it, so a
torn read is visible. `expired` is the request's deadline, which may pass in any
state; `Forward`, `ParseRequest`, `CallService` and `EnterService` are the four
places that look at it. A body may be good, be without a field the service asks
for, or throw when it is read. `known` marks a request that names an id its client
was given before. `UserReply` stands for any answer of the user service.

**UserService.** Replaces `UserReply` by what the deployment of `main.cc` does:
`LocalCall` over either repository, or the steps of a remote call: `StartCall`
(payload, deadline), `Connect`, `ReadAnswer`, `ReadFails`. `conn` is the connection's
state seen from both ends. `Accept` and `HandleSession` are the server process,
`Crash` and `Restart` its life; a crash breaks the connections it holds and may or
may not lose an answer that was sent. `Narrow` is the `int` the server reads a
64-bit id into. A name may be "special": one that the quoting of the mysql command
line does not keep (`SqlQuote` leaves a backslash as it is, `ShellQuote` a dollar sign
and a backtick), so that `LocalVerdicts` takes any row, none, or one that `stoll`
refuses for its answer. `ImplementsLocalRpc` is refinement with the identity mapping.

**Forwarding.** `Governance` takes the inner client by any answer at any time.
Here `Inner` takes that client's steps, on the same clock and the same
`DeadlineContext` (`expired` of `LocalRpc` is `DeadlineExceeded` of `Governance`),
and `StatusClass` is what `MapHttpStatus` makes of its code. `created` counts, over
all attempts, the records a request has caused.

**ConfigLoader.** A YAML map is a function from its keys; `Bad` is a value that does
not convert. A section that is absent has its defaults, which pass the checks, so
the checks of a section the code skips need no case of their own.

**PathRules, TokenCodec, Access.** A path is the sequence of its characters, because
the code compares characters; the rules' meaning is stated by segments: `Segments`
is the set of a path's segments, each with its place, a rule `Governs` the paths that
have all of its segments, and the `MostSpecific` of the rules that do have all the
segments of the others. The loops (`Match`, `BestRule` in `IsRoleAllowed`, `BestLimit`
in `ResolveLimit`, the last two by their state after each round) are checked against
it, and proved to agree with it. `SortedRoutes` leaves open how `std::sort` orders routes of
equal length. A token is the text of its payload as `IssueToken` writes it; key
names are single symbols, values are characters. In `Access`, `Arrive` is the
router, `RequireAuth` and `Authenticate` are the two callers of `AuthFilter::Check`,
`CheckLimit` and `Forward` the further steps of `Handle`; `Login` reads the user's
role and `IssueToken`, a step later, puts it into a token with the time of that
moment. `ChangeRole` is the user table changing behind the gateway. HMAC is taken as
unforgeable: requests present tokens that were issued, or none.

## 3. Runs

| Run | Instance | Shows |
|---|---|---|
| `breaker_race` | 2 threads, 1 upstream, thresholds 2 and 2, clock to 3 | consistency of the table, `OpenAdmitsNobody`, refinement |
| `forward_paths` | 1 thread, 4 configurations, debug headers, 5 operations, fairness | bounds on calls, records, timeliness; no second creation, no success hidden; termination, recovery of the breaker |
| `local_limit` | 3 threads, 1 process | the quota and the windows under stale clocks |
| `redis_limit` | 2 processes with one clock, failing Redis, `fail_open` in one of them | the quota across processes, keys that expire |
| `redis_two_hosts` | 2 processes on hosts with different uptimes | **violated**: see Findings |
| `gateway` | 2 threads, 2 requests, ring of 2, exporter on | metrics, ring, ids, traces |
| `gateway_export` | the same | **violated**: see Findings |
| `sessions` | 2 connections, 1 worker thread, 2 requests each, fairness | stages, order; nobody waits for ever, requests are answered |
| `graceful_exit` | 1 connection and a signal | **violated**: see Findings |
| `services` | 2 threads, 4 requests, 2 ids, 2 events | failures without effect, ids, whole reads, issued ids that are heard |
| `users` | 2 threads, 2 requests, 3 deployments, 3 user ids, 1 crash, fairness | real verdicts but for the exceptions stated, answers through crashes, refinement of `LocalRpc` |
| `access` | 1 thread, 26 configurations and 2 that are refused, 11 requests, 8 names, 1 user with a changing role | most specific rules, enforced roles, tokens that keep their claims, roles that expire |

Why the bounds suffice. A breaker with thresholds 2 has every state and both
counters between 0 and their limits; two threads give every pair of stale clock,
late result and concurrent probe, and the proofs cover the rest. The clock's bound
allows a breaker to open, be probed, reopen and be probed again. Windows are two
seconds and the clock crosses from one into the next. The ring of 2 overflows with the spans of
two requests. One worker thread for two connections makes requests wait. Four
requests let one thread create and name a record while the other changes it. One
crash and any number of restarts meet a remote call in each of its steps; `IdSpan`
is 4 so that an id can be cut to the admin's. One thread meets every path of
`forward_paths`, the breaker being the only thing threads share there, and the
proofs hold for any number. `MaxStale`, `MaxRequests`, `MaxIds`, `MaxCrashes`,
`MaxTokens`, `MaxCount`, `MaxTime` are the bounds; nothing else is capped.
`MaxCount` saturates a Redis counter above all limits, where its value no longer
matters. The rules and paths of `access` are equal, nested, prefixes of each
other inside a segment, with a final slash and with empty segments, in every order of
up to two rules; its clock lets a token expire, be presented late and have been
issued late. The names hold what a token's text is made of (quotes, a role, a final
backslash, newlines, carriage returns, tabs and another control character) and have
every length modulo 3. A request's way through `Handle` meets other threads only in
the tokens, so one thread suffices there. Symmetry is used on threads only, never in a run
with a liveness property.

`Governance`, `RateLimit` and `Access` never deadlock because new requests may arrive; `Gateway`,
`HttpServer` and `LocalRpc` end in a named stuttering step (`Finished`, `Exited`),
so TLC's deadlock check is on in every run.

**Fairness.** `Forwarding`: weak fairness of each thread's steps (a runnable thread
runs; a mutex is held for a few assignments only) and of the clock; the local
services never block, so their steps are among the thread's; that is the deployment the repository ships, for with a
remote user service or a mysql client that hangs a call may last for ever.
`UserService`: weak
fairness of the threads and, for a remote call, of the server's accept loop and
session threads while the process runs, and of the network's delivery of an answer
or of the end of a connection. That last part is an assumption on the
environment: the client has no timeout. Restarts are not fair; a server that stays
down refuses connections. `HttpServer`: weak fairness of the timers, the handlers
and the workers; strong fairness of `WorkerTakes`, because the pool's queue is first
in, first out, so a job that waits is taken when those before it were. That a worker ends
(`WorkerEnds`) holds where nothing it calls can hang: not with a Redis that accepts
and never answers, nor with such a user service or mysql client, for the code waits
for these without a timeout. Clients owe nothing.

## 4. Findings

- `gateway_export`: `Tracer::FinishSpan` moves the span into the ring
  (`tracing.cc:146`) and then copies the moved-from object for the exporter
  (`tracing.cc:154`). The collector receives spans with empty ids and names.
- `redis_two_hosts`: the Redis key holds `steady_clock` seconds divided by the window
  (`rate_limit_filter.cc:26`, `:229`). Hosts with different uptimes count the same
  second in different keys, so the limit is not one across instances.
- `graceful_exit`: the signal handler stops the io_context (`http_server.cc:287`);
  requests in the workers or in their queue get no response.

## 5. Proofs

Checked by TLAPS for every value of the constants, under the named assumptions of
the modules: thresholds, timeouts and windows are positive (the loader, as
`ConfigLoader_proofs` shows, or the code enforces it), there is a limit, the sets
of worker threads are finite (the pool is made with a fixed number of them; only
the theorems that count threads use it), no host serves in second 0 of its
steady clock, a configuration file has values of the types the loader converts
them to, or values that do not convert, user names are bytes, and role names are bytes
without newline, carriage return and tab (`RoleAssumption`: these three come back from a
token as the letters `n`, `r` and `t`).

- `Governance_proofs`: `TypeCorrect`; `BreakerSafe` (`BreakerConsistent` is
  inductive with the types: every update of a breaker is one of three operators, and
  `ConsistentUpdates` shows that each keeps the counters below their thresholds);
  `Refinement` (each of the three operators is a step of the abstract breaker or
  leaves its view unchanged, `CircuitSteps` and `MappedUpdate`; it needs
  `BreakerConsistent`, without which a closed breaker might be one failure past its
  threshold); `OpenBreakerAdmitsNobody` (strengthened to `AdmissionInv`: while the
  breaker is not open `admitted` may equal `openings`, so the bound must be carried
  through those states too); `CallsAreBounded` (strengthened to `CallsInv`, which
  relates calls, attempts and the permission to retry at each `pc`);
  `OutcomesAreRecorded` (strengthened to `RecordsInv`: one call at most is not yet
  recorded, and only between the call and `RecordResult`); `SuccessesAreTimely`
  (strengthened to `TimelyInv`: at which `pc` a success may be held, and that it is
  within the deadline once `CheckTimeout` let it pass).
- `Governance_proofs`, on `Forwarding`: `ForwardingGoverned`, that the composition is a behaviour of
  `Governance` (every step of the inner client stutters there), which carries all
  of the above over to it; `CreatedAtMostOnce` and `LostAnswersCameLate`, both from
  `CreationInv`: a request that has created its record either still holds the
  success on its way out, or its deadline, which the next attempt looks at before
  it calls, is over. Neither property is inductive without saying where the success
  is held at each `pc`.
- `RateLimit_proofs`: `TypeCorrect`; `LocalQuotaHolds` (strengthened to `QuotaInv`:
  the bucket's count is what was admitted since its window began);
  `WindowsStayApart`, an action property, from the types alone: only `CheckLocal`
  moves `window_start`, and `now` is positive there; `KeysDoExpire`, inductive as it
  stands with the types: only `Incr` makes a key, and its worker is then at `expire`
  until `Expire` or a failure, which puts the key among the orphans;
  `ClusterQuotaHolds`, which has one hypothesis, `SharedClock`: all processes read
  the same steady clock, as those on one host do (without it the statement is false,
  as `redis_two_hosts` shows). It is strengthened to `ClusterInv`. A window is in one
  of two regimes. While its key lives, every admission has a count of its own in
  the key, so that no more than the limit can be admitted. A key expires only when
  its window is over (`KeysOutliveWindow`, from `EXPIRE` being sent with the whole
  window after `INCR`); from then on no check joins the window (`ChecksInWindow`),
  and each that had its `INCR` still to send may be admitted once by the new key. The
  sum of the admitted and of those that wait therefore does not grow, and it began
  below the limit and the number of threads.
- `Gateway_proofs`: `TypeCorrect`, together with `RequestsInHand` (each request that
  came was answered or is in the hands of one worker; without it `arrived` would not
  be bounded by what the answers count); `RingIsNewest`, from what one `FinishSpan`
  does to the ring and the history (`PushedDoes`), with the suffix of a sequence
  written position by position (`SuffixAt`); `MetricsCountAnswers`, by counting
  the workers between `RecordRequest` and their return (`CountWorkers`);
  `SpanIdsAreUnique` and `TracesStayConnected`, from one inductive invariant:
  `LiveSpan` (what `Handle` has made of its two spans at each `pc`, ids being at most
  `idCounter`), `IdsApart` (live spans of different workers, the two spans of one
  worker and recorded spans have different ids) and `ParentsToCome` (a recorded
  client span's parent is a live gateway span of its trace, or recorded later).
- `HttpServer_proofs`: `TypeCorrect`, `SessionsInOneStage` and `ResponsesInOrder`, from
  `ServerInv`. Neither property is inductive: `StageInv` adds what the stage of a
  session says about its counters (a request that a worker has, or whose response
  is being written, is the only one without an answer; after a completed write there
  is none; a session not yet accepted has taken nothing). Sessions do not disturb each
  other (`OthersStay`), so each step is looked at for its own session only.
- `LocalRpc_proofs`: `TypeCorrect`; `FailuresAreHarmless` (strengthened to
  `WritesAnswered`: a request writes in the step that answers it);
  `IdsIssuedOnce`; `ReadsWholeRecords` (strengthened to `StoresAreWhole`);
  `IssuedIdsHeard` (strengthened to `KnownIdsStay`: a known id stays in its store).
- `LocalRpc_proofs`, on `UserService`: `UserServiceRefines`, that each deployment's step is a step
  of `LocalRpc` or stutters, so that its theorems hold of the detailed service;
  `VerdictsReal` (strengthened by `CallsWait`, a connection belongs to a call that
  waits, and `LinesAreVerdicts`, the line in it is the server's verdict on that
  call's own request, or its failure). The statement has three exceptions: an id that
  the remote server cuts to 32 bits, a mysql client that fails and is answered as a
  user who is not there, and, over mysql, a name that the quoting does not keep. No
  doc or test says what the code owes in the first and the last.
- `ConfigLoader_proofs`: `GovernanceConfigured` and `FiltersConfigured`, from the
  types that `as<T>()` gives the values (`WellTyped`): what the loader accepts
  satisfies the assumptions on the constants of `Governance` and `Gateway`, and the
  rules that `PathRules` searches are not empty.

- `Access_proofs`: `RoutesAreMostSpecific`, `UpstreamPathsRejoin`,
  `LimitsAreMostSpecific`, `RolesAreEnforced`, `TokensDoKeepClaims` and the action
  property `RolesDoExpire`. The argument has four parts.
  - The tables. `GovernsIsPrefixMatch`: a rule that tests characters
    (`IsPrefixMatch`, and `RbacApplies`, which is the same for rules that are not
    empty) fits exactly the paths it governs by segments, so that the longest that
    fit are the most specific (`LongestFit`). The loops of `IsRoleAllowed` and
    `ResolveLimit` are functions of the round; what they have found after n rounds is
    shown by induction on n, as a statement about a set of rounds (`UpTo`, from
    the least element of a set of natural numbers, because the library's induction
    theorems cannot be used): the first of the longest so far (`BestRuleIs`), the
    last of the longest so far (`BestLimitIs`). That the first route of the sorted
    table that fits is a longest one uses only that `SortedRoutes` is some order by
    decreasing length (`MatchIsMostSpecific`).
  - The configuration. `LoadedIsTyped`: in a file the loader accepts, every rule has a
    path that is not empty and every limit is positive (`Configured`). Without the
    loader's checks the loops would not agree with the meaning.
  - The way of a request (`FrameInv`: what is known of it at each `pc`) and the
    tokens (`TokenInv`), which together are `AccessInv`. `RolesExpire` is not
    inductive: `TokenInv` says that the user had the role of a token at some time
    since the record was read, which was at most `skew` before the token was issued,
    and the same of a record that `Login` has found and `IssueToken` has not yet used.
  - The claims. `ClaimsOfToken`: by `TokensReadBack` (below) what is read from a token
    in `tokens` is what it was issued for. `TokensKeepClaims` speaks of every token
    with the text a worker presents, so that a login which issues one more could
    disturb it; it is strengthened to `ClaimsKept`, which speaks of what is read from
    the presented text and does not mention `tokens`. That a token is not empty, so
    that presenting it is not presenting none, is `NothingSaysNothing`.

  One theorem has a hypothesis on the constants. `UpstreamPathsRejoin` has
  `OriginForm`: the paths of requests begin with a slash, as they do in HTTP but for
  requests to a proxy and `OPTIONS *`.
- `TokenCodec_proofs`: `TokensReadBack`, that the claims read from a token's text are
  those written into it, for every user id, name, role, time and lifetime (integers of
  any size, so those of 64 bits too). Nothing is assumed. Every loop is a fold, run
  round by round (`LoopRuns`) and reasoned about by the induction over rounds that the
  tables use (`UpTo`).
  - `Base64UrlKeepsBytes`. `EncodeInv`: after n bytes the sextets that are out spell
    the n bytes but for the bits still in `value`, of which there are 0, 2 or 4; the rest
    after the loop completes them (`SextetsSpell`). `DecodeInv`: after m characters the
    bytes that are out are those that the sextets spell. The bits are arithmetic with
    `div` and `%`, in cases by the place modulo 3 or 4.
  - Integers: `IntOf` undoes `IntText`, by induction on the number for its digits, and
    the characters of a number end where the comma or brace behind it stands.
  - Strings: in an escaped text every quote has a backslash before it
    (`QuotesEscaped`), and `ReadStep` has after the escape of n characters just those n,
    with newline, carriage return and tab as letters (`ReadUpTo`).
  - The search. A name may hold quotes, colons and the letters of another key. The text
    before a field ends in a comma and has nowhere the key, a quote and a colon in a row
    (`Before`): inside a string a quote that follows a letter ends the string, and a
    comma, not a colon, comes next. So the first place where the marker of a key is found
    is its own field's.

Only model-checked: all liveness (out of the prover's reach, as is `ENABLED`). Every
invariant, action property and refinement that a run checks and that holds is stated
by a theorem.

## 6. Not modelled

- Texts: JSON bodies, headers, logs, Prometheus and OTLP formats, the syntax of YAML,
  HTTP and trace headers. Where a property depends on a conversion (a token's payload,
  a path, the narrowing of an id, values that do not convert) it is modelled.
- HMAC-SHA-256, taken as unforgeable, and the mysql command line, taken by its
  outcome. In `UserService` that is any outcome for a name that its quoting does not
  keep; in `Access` the row that a login gets is the row of its user.
- The mask of `GenerateSpanId`: the low 32 bits of a counter of 64 are the counter
  itself until 2^32 ids are used up.
- Admin pages (text made from what is fixed at start; who may read them is in
  `Access`), the mock upstream client and the RPC demo (not used by the gateway),
  logging.
- Durations in the metrics, and the data race between `remote_endpoint` and `Close` on
  `socket_`, which has no outcome the control depends on.
- `RateLimit` has the limiter switched on; `Access` has the switch. Exceptions out of
  `Router::Dispatch` in a worker thread are taken not to happen.
- No property is stated where the code and its docs promise nothing: timeouts
  towards Redis and the collector, the number of exporter threads, the order of task
  events (a late one sets a finished task back), ids after the counter's 32 bits are
  used up. Second 0 of a host's uptime, in which `window_start == 0` would restart
  the window with every request, is excluded by `ClockAssumption`.

## 7. Plan

Done: the modules of section 2, in the order governance, rate limit, gateway with
observability, sessions, local services, access, user service, composition,
configuration; then the proofs, in the same order. Nothing of the plan is left. A change
of the code would begin at the definitions that `PROJECT.json` maps to its lines, with
the run of its module, and end with the proof module.
