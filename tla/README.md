# Verification of the Cortex Gateway

TLA+ models, TLC runs and TLAPS proofs for the gateway in `src/backend/app`:
a FastAPI process that takes chat completions from tenants, limits their rate,
keeps their budgets, answers from a semantic cache or routes them to an LLM
provider, and retries and fails over when a provider does not answer. Paths
below are relative to `src/backend/app` unless they begin with `src/`.

## 1. The system

One process is one asyncio event loop: code between two `await`s is never
interrupted, and everything else interleaves. Several processes may share one
PostgreSQL and one Redis.

| Part | State | Operations | Interacts with |
|---|---|---|---|
| Circuit breakers (`reliability/circuit_breaker.py`) | per provider: state, failure count, last failure time, trials used; in memory, per process | `can_execute`, `record_success`, `record_failure`, `get_state`, `trip`, `reset`, `reset_all` | called by the executor and by failover selection, by every request of the process |
| Reliability executor (`reliability/executor.py`, `failover.py`, `retry.py`) | per request: provider, attempts, failovers, deadline, providers tried | `execute`: breaker check, retries with backoff, failover | breakers, candidate discovery, provider adapters |
| Budgets (`budget/service.py`, `models.py`, `cost.py`) | one row per team: limit, usage, reserved, period, policy, enabled | `check_and_reserve`, `reconcile`, `release_reservation`, rollover; create, update, delete | chat service before and after the provider call; SQLAlchemy session of the request |
| Rate limiter (`rate_limit/limiter.py`) | counters in Redis per scope, id and window | `check_all`: three scripts, one after the other | chat service; fails open |
| Team limits (`rate_limit/team_limits.py`) | override per team in PostgreSQL | set, delete, read | meant for the rate limiter, which never sees it |
| Semantic cache (`semantic_cache/`) | per team in Redis: index list, entries with a time to live, disable flag | `lookup`, `store`, disable, enable | chat service; `store` runs as a task nobody awaits |
| Model catalog (`routing/metadata.py`, `model_registry/`) | table of models; per process a dictionary loaded from it | create, update, delete; refresh at start, every 60 s and after each mutation | routing and cost calculation read the dictionary |
| Routing (`routing/router.py`, `scorer.py`, `candidates.py`, `stats.py`) | rolling success and latency statistics per provider and model | `route`, scoring | catalog, provider health checks |
| Policies (`policy/`), experiments (`experiment/`), guardrails (`guardrails/`) | policy rows per organization and team | resolve; assign an arm; run checks | chat endpoint |
| Authentication (`auth/`, `api/v1/endpoints/bootstrap.py` ...) | organizations, teams, API keys | bootstrap, create, revoke, authenticate | every endpoint |
| Chat pipeline (`services/chat_service.py`, `api/v1/endpoints/chat.py`) | locals of one request | guardrails, rate limit, routing, cache, experiment, budget, execution, reconciliation, cache store, request log | all of the above |
| Provider adapters (`providers/`) | registered adapters | `chat`, `health_check`, `list_models`; translation of the vendors' errors | executor, candidate discovery, embeddings |
| Observability (`observability/`) | request log rows, metrics | write, query | background tasks of the chat endpoint |

What is hard here, and what makes each part correct:

* **Breakers.** Calls that began while a breaker was CLOSED report back when it
  is OPEN or on trial. The fields must stay consistent, a cooling breaker must
  hold, trials must not be exceeded, and a blocked provider must be tried again.
* **Executor.** Retries, sleeps, failovers and short-circuits alternate while
  the deadline runs. Every request must end, within a bounded number of calls,
  without going round in circles or going on after its deadline.
* **Budgets.** A reservation and its settlement are separate transactions with
  a provider call in between, in which other requests, the administrator, the
  end of the period and crashes take place. The row must tell the truth about
  the period, and a BLOCK budget must not be overspent.
* **Rate limiter.** The clock is read before the script is sent, windows end
  meanwhile, counters expire, answers get lost. No scope may exceed its limit,
  and whoever waits for Retry-After must get through.
* **Catalog.** Refreshes overlap with each other and with open transactions.
  The dictionary must follow the table.
* **Cache.** Lookup and store run over several round trips while entries
  expire, the index is trimmed and the team is disabled.
  A hit must fit the request and its team, and disabling must take effect.
* **Tenancy.** Calls check and later commit, and an update of `last_used_at`
  comes later still. No tenant may reach another's rows, a dead key must stay
  dead, and bootstrap must close for good.
* **Policies, routing, pipeline.** A target is chosen from figures that change
  meanwhile and is replaced up to three times on the way (experiment, downgrade,
  failover), under a policy that may be replaced meanwhile. What a refused
  request consumes, which policy and which requirements it is served under, what
  status it ends with and what its log row says must all fit what happened.

`PROJECT.json` lists every hazard with its line and the properties aimed at it.

## 2. Modules

| Module | Content |
|---|---|
| `CircuitBreaker` | the methods of a breaker as operators on a record, and a specification in which anybody calls any of them at any moment |
| `BreakerContract` | abstract specification: the three states, rest before trial, trials used up |
| `ReliabilityExecutor` | extends `CircuitBreaker`; any number of requests running `execute`; refinement mapping to `BreakerContract` |
| `BudgetLedger` | one team's row, requests with their SQLAlchemy sessions, administrator, periods |
| `RateLimiter` | callers, scopes and ids over the Redis counters; clock, lag, expiry, lost answers |
| `ModelCatalog` | the table of models, administrators' transactions, and each process's dictionary with its refresh loop |
| `SemanticCache` | `lookup` and `store`, one round trip at a time, over the lists, hashes and flags of Redis |
| `Tenancy` | organizations, teams and keys; bootstrap, authentication and the administrators' calls |
| `TeamPolicy` | policy merge and validation, guardrails, arms of experiments, as operators |
| `Routing` | statistics, candidates, scores and the decision, as operators |
| `ProviderErrors` | what each adapter makes of a failed call, and what becomes of it, as operators |
| `ChatPipeline` | extends the three before: one request from its policy to its log row |
| `MCReliabilityExecutor`, `MCBudgetLedger`, `MCRateLimiter`, `MCSemanticCache`, `MCTenancy`, `MCChatPipeline` | symmetry sets and constant values for TLC |
| `FiniteSums` | lemmas on sums over finite sets, the first element of one, and division; induction over subsets |
| `ReliabilityExecutorProofs` (with `CircuitBreaker`), `BudgetLedgerProofs`, `RateLimiterProofs`, `ModelCatalogProofs`, `SemanticCacheProofs`, `TenancyProofs`, `ChatPipelineProofs` | theorems about the module in the name (section 4) |

Definitions named "Mutant" in the modules are the code with a plausible mistake
in it. Each property of a passing run is broken by one of them
(`PROJECT.json`, "mutants").

### 2.1 CircuitBreaker and ReliabilityExecutor

`breaker[p]` is `CircuitBreakerRegistry._breakers[p]`. The code only compares
`time.monotonic() - _last_failure_time` with the cooldown, so a breaker keeps
the ticks since its last failure, up to the cooldown. `CanExecute` is the answer
of `can_execute`, `AfterCanExecute` the state it leaves: asking takes a trial.
The model keeps the order of the code where it matters: `record_failure` stores
the failure time *before* it resolves the state, so a late failure of an OPEN
breaker whose cooldown is over sends it back to the start of the cooldown.

`req[r]` holds the `ReliabilityContext` and the locals of `execute`. An action
is the code between two awaits: `Start` (entry to the first call), the four
ways a call ends (`CallSucceeds`, `CallFailsForGood`, `CallFailsRetry`,
`CallFailsLast`), `Wake` (after the backoff), `SelectFallback` (after candidate
discovery), `Cancel`. `TryProvider` is one turn of the outer loop and is shared
by `Start` and `SelectFallback`. `select_fallback` asks `can_execute` once per
candidate model, so `ProbeAll` may use up the trials of several providers in
one step, including those of the provider it then picks, which `TryProvider`
asks again. The provider's answer, the candidates found and the winner of the
scoring are left open, which covers every statistic and every weight.

Time passes at any moment, also for a sleeper whose timer is due: a timer fires
no earlier than its delay and any time after. `execute` looks at the deadline at
the top of its two loops and, before a backoff, at the time that the sleep will
take, but not after the sleep (`executor.py:169-187`); `late` counts the calls
that begin after the deadline.

Two requests that differ only in data the properties do not mention are equal:
models, messages, latencies and metadata are left out.

### 2.2 BudgetLedger

Each database transaction is one action: `SELECT ... FOR UPDATE` locks the row
from its first read to the commit. `Price` is the estimate and, with action
DOWNGRADE, the search for a cheaper candidate; `Reserve` is `check_and_reserve`
up to its commit, `Refresh` the `session.refresh` after it; `Reconcile`,
`Release` and `FailFree` end the request; `Abandon` is a cancellation, a crash
or a failed settlement.

The session is made with `expire_on_commit=False` (`database/session.py:53`)
and `complete` holds the `Budget` object in `budget_obj` until it returns, so
the `SELECT ... FOR UPDATE` of `reconcile` returns that same object with the
attribute values the refresh loaded: SQLAlchemy overwrites attributes of an
object that is in the identity map only on request (`populate_existing`).
`snap` holds these values, `Loaded` is the object `reconcile` computes with and
`Written` the UPDATE of the attributes that changed. The object that
`_attempt_budget_downgrade` loads is dropped when that method returns, so it
leaves nothing behind. `book` is a history, for the row's present period, of what
requests were charged (`spent`), have left behind (`left`) and were charged
beyond their reservation (`beyond`), of whether the administrator edited the row
and of the columns that a settlement has falsified (`spoiled`): a settlement
falsifies a column when it computes from an object that no longer says what the
row says, or gives back what it does not hold.

### 2.3 RateLimiter

`Begin` reads the clock for the first scope, `RunScript` is the Lua script,
`Reply` delivers its answer and goes on to the next scope, `RedisFails` is each
fail-open path, before or after the script ran. Every request goes through the
three scopes in their order (`Scopes`), whatever the first ones say, and gets the
longest of the waits of those that blocked. The limits are the configured ones:
the overrides of `rate_limit/team_limits.py` are never read
(`api/v1/endpoints/chat.py:241`). `MaxLag` bounds the time from
the clock reading to the script; the Redis client's socket timeout
(`utils/redis_client.py:39`, 5 s) is far below a window (60 s), and the module
assumes only `MaxLag <= Window`. `Effective` is the weighted count in exact
arithmetic with its ceiling. `passed` and `passedAt` are histories of the
checks that passed, `late` the windows with a check that passed after their end.
`was` remembers which scopes had blocked the request before, for a caller that
waits for its Retry-After.

### 2.4 ModelCatalog

`table` is the committed `model_registry`, `catalog[p]` the `_catalog` of
process `p`. A POST, PATCH or DELETE is one transaction `tx[s]` in four steps:
look the row up (`CreateModel`, `UpdateModel`, `DeleteModel`), flush
(`FlushCreate`, `FlushUpdate`, `FlushDelete`: from here on the row is locked),
reload the dictionary (`RefreshRead`, `RefreshInstall`, or the swallowed
`RefreshFails`), and `Commit` in the exit of `get_db_session`. `Rollback` may
come at any moment. 404 and 409 answers change nothing and are no actions,
except the 409 and the StaleDataError found only at the flush.

Three facts about the libraries matter and are marked external. An UPDATE names
only the attributes whose value changed, and a PATCH that changes nothing sends
none. The reload runs in the open transaction, so it sees that transaction's
own write, and for the row the handler holds it sees the object's attributes
rather than the row's. After a failed statement PostgreSQL answers COMMIT with
a rollback and no error. The start-up load and the rounds of the loop are the
same actions; `up` says that the first one is over and the process serves. A
request handled by another process commits without reloading this dictionary,
which `RefreshFails` covers, so the run has one process; the theorems are for
any number.

### 2.5 SemanticCache

`index[t]` is the Redis list of a team, `hash` its entries with the tick at
which each expires, `disabled` its flag. A request is a task that looks its
question up (`Lookup`, `ReadFlag`, `Embed`, `ReadIndex`, then `ReadEntry` once
per id, `Decide`), gets its answer from a provider if there was no hit
(`Answered`) and stores it (`ReadFlag` and `Embed` again, `Write`). The pipeline
of HSET, EXPIRE, LPUSH and LTRIM is one MULTI/EXEC and one action. Every round
trip can fail, in the way its `except` says: `FlagFails` goes on as if enabled,
`EntryFails` skips the entry, the others give up. Redis removes an entry by
itself: `Live` compares with the clock. Embeddings are vectors of small
integers; the cosine is kept as a sign and the square of a fraction, so that
comparisons with the best so far and with the threshold are exact. What a
request asks is reduced to its last user message, its system message, the
parameters of `build_config_hash` and the stream flag that makes it ineligible.

### 2.6 Tenancy

A call is two steps, the check (`Authenticate`, `BootstrapChecks`) and the
commit of its handler (`CreateOrganization`, `CreateTeam`, `CreateApiKey`,
`RevokeApiKey`, `Bootstrap`), or `Return` if it only reads or is refused. Between
the two others commit. A unique constraint makes the later of two conflicting
commits fail. The update of `last_used_at`, which the code starts as a task and
does not await, is `UpdateLastUsed` on a key in `touch`. Ids are uuids and are
never reused; the key's text and its hash are its id. The team that bootstrap
creates has a slug of its own; here it is taken equal to the organization's,
which cannot collide in an organization that is just being created.

### 2.7 TeamPolicy, Routing, ProviderErrors, ChatPipeline

`TeamPolicy`: a stored policy is a function on the sections the team has set,
`Merge` completes it with the default, `ValidPolicy` is what PUT accepts,
`GuardrailAction` and `Assign` are the runner and the assigner. What the regular
expressions find in a prompt is part of the question; the SHA-256 bucket of a
request may be any bucket.

`Routing`: `Candidates` is built from what the providers answer to `health_check`
and `list_models`, from the catalog (with `get`'s two lookups and its default)
and from the statistics; `Score` is the weighted sum in units of 1/10000 with
the rounding of the code, `SortKey` its tie-breaks, `Eligible` the filters before
it.

`ProviderErrors`: `OpenAIChat`, `GroqChat`, `GeminiChat` and `OllamaChat` give the
exceptions that an HTTP status, a timeout, a refused connection or an unreadable
answer may become (two where the words of a message decide), `IsTransientError`
whether it is tried again, `StatusOf` what the client sees.

`ChatPipeline`: `req[r]` is what the endpoint and `complete` know of a request,
`pc` the next stage. `Arrive` is policy resolution and guardrails; `RateLimit`,
`RouteManual` or `Route`, `CacheHit` or `CacheMiss` (with the experiment's arm),
`Estimate` (with the downgrade), `Reserve`, the calls, and `Settle` follow.
`CallServed`, `CallFails`, `CallUnknown`, `CallShortCircuited` and `OutOfTime` are
`execute` in brief: a failure stands for those of the retries before it, and
failover goes to any capable candidate of a provider not yet tried. The limiter,
the ledger, the breakers and the cache give any verdict here, which includes
those they can give in their own modules; `tasks` are the background log tasks,
`rows` the table they write. `Raise` leaves `tasks` unchanged because the
exception handler's response does not carry the endpoint's background tasks.
`OtherRequest` is what requests that are not followed leave in the statistics.

## 3. Runs

| Run | Bounds | Shows |
|---|---|---|
| `executor_safety` | 2 providers, 2 requests, 1 retry, 1 failover, deadline 3, up to 2 models per provider | `TrialsRespected`, `BreakerSound`, refinement of `BreakerContract` |
| `executor_ends` | 4 providers, 1 request, 1 retry, 2 failovers, deadline 5 | `RequestsEnd`, `ExecTypeOK`, `CallsBounded`, `OneLateCall`, `FailoverNeverReturns` |
| `executor_stuck` | 1 provider, 2 requests, 1 trial | violation of `BlockedProviderIsRetried` |
| `budget` | 2 requests in flight, estimates from 0 to the limit, BLOCK and WARN, action BLOCK and DOWNGRADE, 2 administrator operations, 2 periods, 1 reservation left behind | `LedgerAccurate`, `OverspendExplained`, `UsageNeverInvented` |
| `budget_overspend` | 2 requests in flight, BLOCK, one period | violation of `NoOverspend` |
| `budget_rollover` | 1 caller, DOWNGRADE, 2 periods | violation of `ExpiredIsRolledOver` |
| `limiter` | 2 API keys of a team, the 3 scopes with windows of 1, 2 and 2 ticks, lag of a tick, 3 requests, 1 lost answer or cancellation | `WithinLimit`, `BurstExplained`, `RetryAfterSuffices` |
| `pipeline_log` | as `pipeline` | violation of `EveryRequestLogged` |
| `catalog` | 1 process, 1 model with 2 prices, 2 administrators, 3 requests or restarts | `PatchKeepsOthers`, `CatalogCatchesUp` |
| `cache` | 2 teams, 3 requests of which 2 at a time, 4 questions (two of them close, cosine 0.96 with a threshold of 0.9), lists of 2, time to live 1 tick | `HitSound`, `ClosestServed`, `IndexKeepsLive`, `DisableRespected` |
| `tenancy` | 2 organizations, 3 teams, 3 keys, 2 slugs, 2 calls at a time, one tick for expiry | `DeadKeysStayDead`, `TenantIsolation`, `BootstrapCloses` |
| `pipeline` | 1 request of 6 kinds, 3 policies of which one is refused, 3 registered providers and one that is not, 5 ways to fail, 1 change of the policy, 1 effect of another request | `RefusedIsFree`, `PolicyPinned`, `FailureExplained`, `CapsHonoured`, `RouteUndominated`, `ArmsGetTheirShare` |

The bounds are the smallest in which the interesting case happens: two requests
are needed for a late answer to meet a breaker another request opened; a
cooldown and a deadline of two or three ticks let each fall before and after
the other. In `executor_ends` a fourth provider is there for a failover too many,
and the deadline is later than the three backoffs that six calls take, so that
only the counters bound the calls. In the ledger two requests in flight let one
reserve between the other's refresh and its settlement, two periods let a
request settle in a period it did not reserve in, and the administrator can
delete a row and create it again under a running request. In the limiter the
last tick is in the second window of the team and the third of a key, three
requests are one more than the limits allow, and a lag of a tick puts a script
of the key scope into the window after its clock reading. Three administrator requests
are needed to delete a catalog row and create it again under a PATCH that read the first.
In the cache three entries are needed to
push one out of a list of two, two requests at a time for a write to fall into a
scan, and one tick for an entry to expire during it. In the tenancy run two
callers race through bootstrap, and there is still a team and a key for one of
the two tenants to create. In the pipeline one request is enough, because requests meet only
in the statistics, the cache and the policy: a cached answer is there from the
beginning or not, an effect on the statistics comes when the request is about to
read them, and the policy changes at any moment. `Window` = 1 there, so that one
more outcome pushes another out; the questions take the automatic, lowest-cost,
capability (with failover, so that each of the three replacements of a target is
exercised), provider-and-model and manual paths, and the providers' lists hold a
tagged Ollama model and models that the catalog does not know.

Every run finishes within about three minutes on two workers; the largest are
`budget` (3,700,000 states), `pipeline` (915,000), `cache` (817,000) and
`tenancy` (424,000). Callers of the executor, the ledger and the limiter are
interchangeable and so are providers, the cache's teams and tasks and all sets
of the tenancy run, hence the symmetry sets; no liveness run uses symmetry. The
limiter, budget, cache, tenancy and pipeline runs stop at their bounds, so they
do not check deadlock; the executor and catalog runs do.

**Fairness.** `FairExecSpec`: timers fire and the clock runs (asyncio), a
provider call ends because each adapter sets an HTTP timeout, candidate
discovery ends because each health check does; clients keep sending, which only
`BlockedProviderIsRetried` needs. `FairLedgerSpec`: clients keep sending,
transactions commit, provider calls end. `FairCatalogSpec`: a request that has
begun goes on, the loop goes round, and the database does not fail a process's
reload every single time (strong fairness of `LoopInstall`). None assumes that a call succeeds,
and nothing is assumed of cancellations or of the administrator.

**What the violations show.**

* `executor_stuck`: a trial is only given back by `record_success` or
  `record_failure` of that provider. A trial call that ends in a permanent
  error, an uncounted 429, the deadline or a cancellation, and a trial that
  `select_fallback` took for a candidate it did not pick, are lost; with
  `half_open_trials` = 1 the provider is then refused until the process
  restarts. `src/docs/deployment.md:489` promises a retry after the cooldown.
* `budget_overspend`: the first of two requests loads `reserved` = 1 before the
  second reserves, and on settling writes 1 - 1 = 0 over the 2 in the row. The
  reservation of the second is gone while its call runs, and a third request is
  admitted. Stale usage is written back in the same way. `OverspendExplained`
  says that this, an administrator's edit, and charges that no reservation of
  the period covers are the only ways in which a BLOCK or DOWNGRADE budget is
  overspent, `LedgerAccurate` that the row is right until a settlement makes it
  wrong, and again from the next rollover.
* `budget_rollover`: the downgrade looks at the remaining amount of a period
  that may be over, and rejects before `check_and_reserve`, the only code that
  rolls a period over, is called. Such a team stays locked out, although
  `budget/models.py:60` and `src/README.md:145` promise that its next request
  starts the new period. (A rejection by `check_and_reserve` itself, for an
  estimate above the limit, rolls the new period back with its transaction.)
* `pipeline_log`: on an error path the endpoint adds the log task to its
  `BackgroundTasks` and raises. Background tasks are run with the response that
  the endpoint returns, and the exception handler's response carries none, so a
  refused or failed request has no row; `src/README.md:153` and
  `api/v1/endpoints/chat.py:13,166` say that each has one.

Other disagreements met while modelling, not made into runs: the total timeout
does not interrupt a running provider call (`src/README.md:444` calls it a hard
deadline), and a backoff sleep that oversleeps is followed by a call without a look
at the clock; what holds is `OneLateCall`; `Retry-After` is the time to
live of a counter that lives for two windows, not the "exact window reset time"
of `src/README.md:138` (what holds is `RetryAfterSuffices`: the
scopes that blocked do not block again, unless the caller shares its id there;
another scope may be full by then);
the weighted count "eliminates the fixed-window 2x boundary burst"
(`src/README.md:134`) while scripts run in the order of their clock readings,
but a check chooses its window before it awaits Redis: a script stamped at the
end of a window that runs after scripts of the next one was not weighed by
these and does not look at their counter, so that twice the limit can pass
together; what holds is `BurstExplained`, that only such late checks do it;
after a mutation the catalog is not always "immediately refreshed"
(`src/backend/app/api/v1/endpoints/model_registry.py:18-20`): a loop that read
the table before the commit may install its dictionary after it, other
processes wait for their loop, and a reload that fails on the server undoes the
mutation itself; what holds is `CatalogCatchesUp`;
`src/docs/architecture.md:336` describes a fixed window; `check_all` says its
three increments are atomic, they are three round trips; `ChatService` builds
its own executor and so ignores the `RELIABILITY_*` settings. Further:

* Budgets. A refusal of `check_and_reserve` reads the budget
  after its rollback and reaches the client as 500, not 402
  (`budget/service.py:208-216`; `ChatPipeline.Reserve`). The policy enforced is
  that of the budget row, not the team policy's `budget.action`.
* Rate limits. `chat.py:241` calls `complete` without the service that reads the
  overrides, so they have no effect (`src/README.md:471`).
* Order. `src/README.md:868-874` draws the rate limiter before the guardrails; the
  guardrails run first (`api/v1/endpoints/chat.py:189`), as `RefusedIsFree` has it.
* Tenancy. Two bootstraps that race both succeed; what holds is
  `BootstrapCloses`. `POST` of a key makes it for the caller's own team
  (`api/v1/endpoints/api_keys.py:47`), so a team created through the API never
  gets a first key, although `auth/models.py:147` gives an admin "full management
  within the organization" (see also `src/README.md:124,180`).
* Policies. `policy.routing` changes no decision: `complete` goes on with the
  mode that the engine resolved without it. `store` is called whatever
  `policy.cache.enabled` says. An arm with an unknown provider ends in 500, not
  422 (`api/v1/endpoints/policy.py:215` calls a property).
* Routing. A request that names provider, model and capabilities takes the
  manual branch, where the capabilities are not looked at. Statistics have no
  age: a target that failed is scored down until other calls displace that.
* Cache. Earlier messages of a conversation are not part of the configuration
  hash.
* Errors. A 400 of a provider becomes `ProviderError`, is tried again and counts
  for the breaker, although `reliability/errors.py:107-108` says that 4xx errors
  do not. An unreadable answer of Ollama is parsed outside the `try` and ends in
  500 at once, where the other adapters give 502 and a retry.

## 4. Proofs

TLAPS proves for every value of the constants that satisfies the assumption
named in each module (natural bounds, finitely many providers, models, requests
or tasks, positive windows and thresholds, a catalog and policies of the right
shape): any number of requests, callers, tenants and providers, where a run has
two or three.

| Component | Theorems | Inductive invariant |
|---|---|---|
| breakers | `BreakersStaySound` | `BreakerTypeOK`, `BreakerSound` |
| executor | `ExecutorTyped`, `ExecutorBreakersSound`, `ExecutorCallsBounded`, `ExecutorTrialsRespected`, `ExecutorOneLateCall`, `ExecutorFailoverNeverReturns`, `ExecutorKeepsContract` | `ExecInv` |
| budgets | `LedgerTyped`, `LedgerIsAccurate`, `LedgerOverspendExplained`, `LedgerUsageNeverInvented` | `LedgerTypeOK`, `LedgerInv` |
| rate limiter | `LimiterTyped`, `LimiterWithinLimit`, `LimiterBurstExplained`, `LimiterRetryAfterSuffices` | `LimiterInv`, `BurstInv`, `RetryInv` |
| catalog | `CatalogTyped`, `PatchesKeepOthers` | `CatalogInv` |
| cache | `CacheTyped`, `CacheHitsSound`, `CacheIndexKeepsLive`, `CacheDisableRespected`, `CacheClosestServed` | `CacheInv`, `ScanInv` |
| tenancy | `TenancyTyped`, `TenancyDeadKeys`, `TenancyIsolated`, `TenancyBootstrapCloses` | `TenancyTypeOK` |
| pipeline | `PipelineSound`, `PipelineRefusedIsFree`, `PipelinePolicyPinned`, `PipelineFailureExplained`; `PipelineTyped`, `PipelineTypes`, `PipelineCapsHonoured`, `PipelineRouteUndominated`, `PipelineArmsGetTheirShare` | `PipelineInv`; `TypeInv` |

In every module each action has a lemma (`StartKeeps`, `ReserveKeeps`, ...) that
it preserves the invariant, resting on lemmas about the operators it uses.

**Executor.** `CallsBounded` and `TrialsRespected` are not inductive.
`RequestHalf` says how many calls a request can have made given its failover
count and attempt index (each provider tried costs at most 1 + `max_retries`
calls, and a short-circuit costs none), that a request that sleeps has begun no
call after its deadline yet, and that `failover_attempts` exceeds its maximum only
on the way out. `BreakerHalf` adds to `BreakerSound` that the
requests admitted by a HALF_OPEN breaker are finitely many and no more than the
trials it counts, although `select_fallback` uses trials that admit nobody.
`TryProvider` is proved once for its two callers. `ExecutorOneLateCall` goes
through the same actions: a turn of the loop has just looked at the clock, so
that only `Wake` begins a late call, and a request that has begun one is past its
deadline, where the next look ends it. `ExecutorKeepsContract` is the refinement: a
step of the executor is, for each breaker, a composition of method calls, and
each is a step of `BreakerContract` or a stutter.

**Budgets.** The theorems hold with any number of requests in flight. `LedgerInv`
holds the three properties together, with what they need of a request
(`Sound`): it holds nothing but between its reservation and its end, its
reservation is of a period no later than the row's, and the usage its session
loaded is no more than the row's charges. What all requests hold is a sum over
them, which a step of one request changes in one summand (`StepHolds`). The
settlement is the step worth reading: either it falsifies a column, and the book
says so, or the object it computes from agrees with the row.
`UsageNeverInvented` does not ask which: a stale usage was true once, and what is
added to it is charged at the same moment.

**Rate limiter.** `WithinLimit` needs that a counter outlives every check that
refers to it. `LimiterInv` says that a check in progress was begun at most
`MaxLag` ago and that a counter for which something passed has not lapsed while
its window can still be referred to; while it lives, no more passed than it
counts and than the limit. `BurstInv` says that a window after one in which
something passed does not fill up, because the weight of the old counter, rounded
up, is at least one, unless a check of either came through late, and that the
two histories of what passed agree; the sum over a stretch is then at most that
of two windows (`FiniteSums`). `RetryInv` follows one scope of one caller through
the three checks: the counters of a bucket expire in the order of their windows,
so that the one whose TTL a rejection reports is the last; the wait announced is
the longest of the blocked scopes'; and a caller that has waited finds each
bucket that had blocked it empty, if nobody else is counted there.

**Catalog.** `PatchKeepsOthers` is about the commit, but what is committed was
computed at the flush. `CatalogInv` carries it over: a PATCH that has written
differs from the committed row in its own fields only, and no two transactions
have written the same row (`Exclusive`, from the row lock), so nobody's commit
can invalidate it.

**Cache.** A hit is decided after a scan over many round trips. `CacheInv` keeps,
for each task, what the best candidate says of the entry it was read from: that
the entry was stored under this id for this team, and ids are never used again,
so that it stays true whatever expires or is trimmed meanwhile. The lists are
decreasing in ids, which gives the order in which entries are pushed out.
`ClosestServed` compares the entry served with all the others, so a second
invariant is needed: `ScanInv` says that every id of a scan has an entry, and
that of the ids before its place, when no read failed, each entry that could be
served is no closer than the best so far (`Passed`). It survives the clock,
which only takes entries away, and a change of the best, because similarities
are totally ordered: `CosineIs` shows that each is a fraction with a positive
denominator (a product of sums of squares, or 1 where an embedding is zero), and
`GreaterStill` that such fractions compare transitively.

**Tenancy.** `TenancyTypeOK` is inductive, and the three action properties follow
from it step by step. Rows of organizations and teams never change, so what a
call has read of them when it was authenticated still holds when it commits.

**Pipeline.** What a request knows is in its record, so the invariant is one
predicate on records, `Sound`: how far the request has come and what it has used
by then (`Staged`), and the parts of the three properties in the form that is
inductive (`Free`, `Pinned`, `Explained`). A lemma per change of a record takes
a sound record to a sound one; `StepKeeps` lifts them to the state. Nothing is
used of what the routing engine or the assigner choose, so these theorems
hold for any scores and weights. The step that is worth reading is
`GivenUpSound` with `RaisedIs`: the status is right because of how each adapter
classifies errors and because what is wrong for good is never failed over.

The other four theorems are about those choices. `TypeInv` says that each record
is `Proper`: its fields have their types, its experiment is one that the
validators accept, and from routing on it has a target, with the capabilities
asked for if the request is routed automatically and in no arm. To show that
routing keeps it, the candidates are shown to be finitely many with integer
scores (the averages and cutoffs of the statistics, `CandidatesAre`), and a
finite nonempty set to have a first element in the order of the sort keys
(`FirstOf`), so that `Best` is a candidate. `RouteUndominated` follows since each
part of the score only falls as its measure gets worse (`DivFalls`), and the
tie-breaks decide what rounding makes equal (`BestUndominated`).
`ArmsGetTheirShare` follows since the arm of a bucket is the first whose
cumulative weight exceeds it: the buckets of an arm are an interval between two
sums, as long as its weight times `BucketSize` / 100 (`ShareOfArm`). The catalog
is finite and the arms of a stored experiment have names, targets and integer
weights (what Pydantic parses them to); nothing else is assumed for these.

**Only model-checked.** Liveness (`RequestsEnd`, `CatalogCatchesUp`) is out of
the prover's reach, with the fairness it needs. Every other property of a passing
run is stated by a theorem. TLC also finds `TypeInv` and `ScanInv` true on the instances of the runs `pipeline` and
`cache`. Inductions over finite sets are done in the form of `FiniteSums`, where a
property becomes the set of the subsets that have it.

## 5. Left out

* Data: message texts, tokens, model names, prices, log texts, HTTP formats.
* The breaker registry is per process; two processes do not share breakers and
  the model is of one.
* What a chat request says and what a provider answers: adapters are modelled
  by what they make of failures. Regular expressions, hashes, tokens and
  embeddings are replaced by what depends on them.
* The database connection pool: a request keeps its connection during the
  provider call, and how many share the pool is a question of capacity.
* Two requests in one pipeline: they meet through the limiter, the ledger and
  the breakers, each of which has a module with several of them.
* The overrides of `rate_limit/team_limits.py`: they are stored and never read by
  a request. A model of them would have to invent their effect.
* Tracing, metrics, analytics queries, the dashboard, migrations and the
  deployment files (`PROJECT.json`, "components", says why).

## 6. What could be added

The modules are complete for the parts that section 1 lists, and what the runs
check is proved but for liveness. Three properties say when a promise of the
code's documentation does not hold, rather than that it does, and are those to
look at again when the code changes: once `reconcile` reads the row afresh,
`spoiled` stays empty of "usage" and `OverspendExplained` becomes stronger; once
the window is chosen inside the script, `late` stays empty and `BurstExplained`
is the documented claim; once `execute` looks at the deadline after a sleep,
`OneLateCall` becomes zero.
