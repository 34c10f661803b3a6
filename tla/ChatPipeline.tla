---------------------------- MODULE ChatPipeline ----------------------------
(***************************************************************************)
(* One chat request from its arrival to its log row: the endpoint          *)
(* (api/v1/endpoints/chat.py), ChatService.complete, and the background    *)
(* log writer (observability/log_writer.py), with the team's policy, the   *)
(* statistics of the routing engine and the cache that requests share.     *)
(*                                                                         *)
(* Each step runs to the next await of the code.  The requests followed    *)
(* here interleave with each other, with all the other requests, which act *)
(* on them through the statistics and the cache, with the administrator    *)
(* who replaces the policy, and with a restart, which loses what is in     *)
(* memory.  The rate limiter, the budget ledger, the cache and the retries *)
(* of a call have modules of their own; here each gives any verdict.       *)
(***************************************************************************)
EXTENDS TeamPolicy, Routing, ProviderErrors

CONSTANTS
    Request,            \* request ids
    Question,           \* what clients send, see QuestionRecord
    Policies,           \* policies an administrator may store
    Registered,         \* providers registered at startup
    Measured,           \* latencies that a call may take
    Failing,            \* what a provider may do in place of serving a call
    Cached,             \* targets of answers in the cache at the beginning
    MaxOthers,          \* bound: effects of requests that are not followed
    MaxEdits            \* bound: changes of the policy

\* `text' stands for what the cache compares, size and finds for what the
\* guardrails see.
QuestionRecord ==
    [text : STRING, size : Nat, finds : SUBSET {"pii", "injection"},
     mode : Mode \cup {"none", "manual"}, provider : Provider \cup {"none"},
     model : Model \cup {"auto"}, caps : SUBSET Cap, failover : BOOLEAN]

\* ExperimentArm and ExperimentConfig, before they are validated.
Arm == [name : STRING, target : Target, weight : Int]
Experiment == [on : BOOLEAN, arms : Seq(Arm)]

ASSUME PipelineAssumption ==
    /\ Question \subseteq QuestionRecord
    /\ Provider \subseteq Adapter /\ Local = "ollama" /\ Registered \subseteq Provider
    /\ Cached \subseteq Target /\ Failing \subseteq Happening
    /\ Measured \subseteq Nat \ {0}
    /\ MaxOthers \in Nat /\ MaxEdits \in Nat
    /\ \A raw \in Policies : DOMAIN raw \subseteq Section
    /\ \A raw \in Policies :
         ("experiment" \in DOMAIN raw => raw["experiment"] \in Experiment)

VARIABLES
    policy,             \* team_policies: the team's row, if any
    stats,              \* ProviderStatsTracker, in memory
    cache,              \* the team's cache: questions' texts with targets
    req,                \* the requests
    tasks,              \* background log tasks, to run after the response
    rows,               \* request_logs
    edits,              \* changes of the policy so far
    others              \* effects of other requests so far

pipelineVars == <<policy, stats, cache, req, tasks, rows, edits, others>>

NoTarget == <<"none", "none">>
NoAnswer == <<"none", 0>>
Row == [id : Request, target : Target, hit : BOOLEAN, arm : Nat]

\* What a request knows: its question, the policy it was resolved to and
\* whether that was read or the default for a failed read; the stored policy
\* when it arrived (history); then, as it goes on, the target, the providers
\* tried, what the last call came to, the experiment's arm, and what the
\* request has used up.
RequestRecord ==
    [pc : {"limit", "route", "lookup", "price", "reserve", "call", "settle",
           "answered", "failed"},
     q : Question, policy : {Merge(raw) : raw \in Policies} \cup {GlobalDefault},
     read : BOOLEAN, stored : SUBSET Policies,
     target : Target \cup {NoTarget}, tried : SUBSET Provider,
     last : (Provider \X Failing) \cup {NoAnswer}, arm : Nat,
     counted : BOOLEAN, called : BOOLEAN, held : Nat, hit : BOOLEAN,
     status : {0, 200, 400, 402, 404, 429, 500, 502, 503, 504}]
New == [pc |-> "new"]           \* not sent yet
Lost == [pc |-> "lost"]         \* in progress when the process stopped

Become(r, x) == req' = [req EXCEPT ![r] = x]
Known == {r \in Request : req[r] \notin {New, Lost}}
Over == {"answered", "failed"}

\* The exception handlers' response.
Refusal(x, status) == [x EXCEPT !.pc = "failed", !.status = status]

\* An exception: the endpoint registers an error log as a background task and
\* raises.  The handler's response does not carry the task, so it never runs.
Raise(r, x, status) == Become(r, Refusal(x, status)) /\ UNCHANGED tasks

\* build_success_log
SuccessRow(r, x, served) ==
    [id |-> r, target |-> served, hit |-> x.hit, arm |-> x.arm]

Answer(r, x, served) ==
    /\ Become(r, [x EXCEPT !.pc = "answered", !.status = 200, !.target = served])
    /\ tasks' = tasks \cup {SuccessRow(r, x, served)}

-----------------------------------------------------------------------------
(* The endpoint.                                                           *)

\* A request with the policy it has been resolved to.
Fresh(q, resolved, read) ==
    [pc |-> "limit", q |-> q, policy |-> resolved, read |-> read, stored |-> policy,
     target |-> NoTarget, tried |-> {}, last |-> NoAnswer, arm |-> 0, counted |-> FALSE,
     called |-> FALSE, held |-> 0, hit |-> FALSE, status |-> 0]

\* Mutant: a prompt that is blocked has already been counted by the limiter.
GuardedLate(r, x) ==
    IF GuardrailAction(x.policy["guardrails"], x.q.size, x.q.finds) = "block"
      THEN Raise(r, [x EXCEPT !.counted = TRUE], 400)
      ELSE Become(r, x) /\ UNCHANGED tasks

\* The guardrails run before complete is called.
Guarded(r, x) ==
    IF GuardrailAction(x.policy["guardrails"], x.q.size, x.q.finds) = "block"
      THEN Raise(r, x, 400)
      ELSE Become(r, x) /\ UNCHANGED tasks

\* Authenticated; the policy is resolved, once; a read that fails gives the
\* default; the guardrails run.
Arrive(r) ==
    /\ req[r] = New
    /\ \E q \in Question :
         \/ Guarded(r, Fresh(q, GlobalDefault, policy = {}))
         \/ \E raw \in policy : Guarded(r, Fresh(q, Merge(raw), TRUE))
    /\ UNCHANGED <<policy, stats, cache, rows, edits, others>>

-----------------------------------------------------------------------------
(* ChatService.complete.                                                   *)

RateLimit(r) ==
    LET x == [req[r] EXCEPT !.counted = TRUE]
    IN  /\ req[r].pc = "limit"
        /\ \/ Become(r, [x EXCEPT !.pc = "route"]) /\ UNCHANGED tasks
           \/ Raise(r, x, 429)
        /\ UNCHANGED <<policy, stats, cache, rows, edits, others>>

\* The client names provider and model.
RouteManual(r) ==
    LET x == req[r]
        t == <<x.q.provider, x.q.model>>
        named == x.q.provider # "none" /\ x.q.model # "auto"
    IN  /\ x.pc = "route" /\ IsManual(x.q)
        /\ IF named /\ (x.q.mode = "none" /\ x.q.caps # {} => x.q.provider \in Registered)
             THEN Become(r, [x EXCEPT !.pc = "lookup", !.target = t]) /\ UNCHANGED tasks
             ELSE Raise(r, x, IF named THEN 503 ELSE 400)
        /\ UNCHANGED <<policy, stats, cache, rows, edits, others>>

\* What the providers answer to health_check and to list_models.
Environment == [healthy : SUBSET Registered, listing : SUBSET Registered]

PoolOf(env) == Candidates(Registered, env.healthy, env.listing, stats)

\* The targets that some answer makes a candidate.
Targets ==
    {t \in Target : /\ t[1] \in Registered
                    /\ t[2] \in ModelsOf(t[1], Serves[t[1]]) \cup ModelsOf(t[1], {})}

Decide(q, pool) == Best(Eligible(q, pool), Weights(ResolveMode(q))).target

Route(r) ==
    LET x == req[r]
    IN  /\ x.pc = "route" /\ ~IsManual(x.q)
        /\ \E env \in Environment :
             LET pool == PoolOf(env)
             IN  IF Eligible(x.q, pool) = {}
                   THEN Raise(r, x, IF Eligible([x.q EXCEPT !.caps = {}], pool) = {}
                                      THEN 503 ELSE 400)
                   ELSE /\ Become(r, [x EXCEPT !.pc = "lookup", !.target = Decide(x.q, pool)])
                        /\ UNCHANGED tasks
        /\ UNCHANGED <<policy, stats, cache, rows, edits, others>>

\* policy.cache.enabled
UsesCache(x) == x.policy["cache"]

\* Only a lookup the policy allows can hit.
CacheHit(r) ==
    LET x == req[r]
    IN  /\ x.pc = "lookup" /\ UsesCache(x)
        /\ \E e \in cache : /\ e.text = x.q.text
                            /\ Answer(r, [x EXCEPT !.hit = TRUE], e.target)
        /\ UNCHANGED <<policy, stats, cache, rows, edits, others>>

\* Without a hit: the experiment's arm, if there is one, takes over.
CacheMiss(r) ==
    LET x == req[r]
        e == x.policy["experiment"]
    IN  /\ x.pc = "lookup"
        /\ \E n \in {Assign(e, bucket) : bucket \in 0 .. BucketSize - 1} :
             Become(r, [x EXCEPT !.pc = "price", !.arm = n,
                                 !.target = IF n = 0 THEN @ ELSE e.arms[n].target])
        /\ UNCHANGED <<policy, stats, cache, tasks, rows, edits, others>>

\* estimate_cost and calculate_actual_cost for a request of unit size.  A
\* target that is not in the catalog has no input and output prices.
Price(t) == IF InCatalog(t) THEN MetaOf(t).cost ELSE 0

\* Mutant: what the request needs is forgotten on the way down.
AffordableAnyCaps(x, pool, left) ==
    {c \in pool : c.healthy /\ c.target # x.target /\ Price(c.target) <= left}

\* _attempt_budget_downgrade, for what is left of the budget.
Affordable(x, pool, left) ==
    {c \in pool : /\ c.healthy /\ c.target # x.target
                  /\ x.q.caps \subseteq c.caps /\ Price(c.target) <= left}

Estimate(r) ==
    LET x == req[r]
    IN  /\ x.pc = "price"
        /\ \/ /\ Become(r, [x EXCEPT !.pc = "reserve"])
              /\ UNCHANGED tasks
           \/ /\ x.policy["budget"] = "DOWNGRADE"
              /\ \E env \in Environment, left \in 0 .. Price(x.target) - 1 :
                   LET cheaper == Affordable(x, PoolOf(env), left)
                   IN  IF cheaper = {}
                         THEN Raise(r, x, 402)
                         ELSE /\ Become(r, [x EXCEPT !.pc = "reserve",
                                     !.target = Best(cheaper, Weights("auto")).target])
                              /\ UNCHANGED tasks
        /\ UNCHANGED <<policy, stats, cache, rows, edits, others>>

\* check_and_reserve.  When it refuses, the message of BudgetExceeded reads
\* the budget after the rollback, which fails in its turn.
Reserve(r) ==
    LET x == req[r]
    IN  /\ x.pc = "reserve"
        /\ \/ /\ Become(r, [x EXCEPT !.pc = "call", !.held = Price(x.target)])
              /\ UNCHANGED tasks
           \/ Raise(r, x, 500)
        /\ UNCHANGED <<policy, stats, cache, rows, edits, others>>

-----------------------------------------------------------------------------
(* The call, ReliabilityExecutor.execute in brief.                         *)

\* Mutant: the policy is read again when a call has failed.
MayFailOverNow(x) ==
    x.q.failover /\ \A raw \in policy : Merge(raw)["fallback"]

\* failover_enabled, of the request and of its policy.
MayFailOver(x) == x.q.failover /\ x.policy["fallback"]

\* select_fallback: a target of a provider not yet tried.
FailOver(r, x) ==
    /\ MayFailOver(x)
    /\ \E t \in Targets :
         /\ t[1] \notin x.tried /\ x.q.caps \subseteq MetaOf(t).caps
         /\ Become(r, [x EXCEPT !.target = t])
    /\ UNCHANGED tasks

\* The reservation is released, if that works, and the error is raised.
GiveUp(r, x, status) ==
    \E left \in {0, x.held} : Raise(r, [x EXCEPT !.held = left], status)

CallServed(r) ==
    LET x == req[r]
    IN  /\ x.pc = "call" /\ x.target[1] \in Registered
        /\ Become(r, [x EXCEPT !.pc = "settle", !.called = TRUE, !.last = NoAnswer])
        /\ \E ms \in Measured :
             stats' = [stats EXCEPT ![x.target] = AfterSuccess(@, ms)]
        /\ UNCHANGED <<policy, cache, tasks, rows, edits, others>>

\* The call fails; one failure stands for those of the retries before it.  The
\* request goes elsewhere or is given up, at once if the error is for good.
CallFails(r) ==
    LET p == req[r].target[1]
    IN  /\ req[r].pc = "call" /\ p \in Registered
        /\ \E what \in Failing : \E e \in Raised(p, what) :
             LET x == [req[r] EXCEPT !.called = TRUE, !.tried = @ \cup {p},
                                 !.last = <<p, what>>]
             IN  \/ IsTransientError(e) /\ FailOver(r, x)
                 \/ GiveUp(r, x, StatusOf(e))
        /\ stats' = [stats EXCEPT ![req[r].target] = AfterFailure(@)]
        /\ UNCHANGED <<policy, cache, rows, edits, others>>

\* The registry does not know the provider that the client has named.
CallUnknown(r) ==
    LET x == req[r]
    IN  /\ x.pc = "call" /\ x.target[1] \notin Registered
        /\ GiveUp(r, [x EXCEPT !.tried = @ \cup {x.target[1]}], StatusOf("InvalidProvider"))
        /\ stats' = [stats EXCEPT ![x.target] = AfterFailure(@)]
        /\ UNCHANGED <<policy, cache, rows, edits, others>>

\* The provider's breaker refuses the call, before the first attempt on it.
CallShortCircuited(r) ==
    LET p == req[r].target[1]
        x == [req[r] EXCEPT !.tried = @ \cup {p}]
    IN  /\ req[r].pc = "call" /\ p \notin req[r].tried
        /\ FailOver(r, x) \/ GiveUp(r, x, StatusOf("Unavailable"))
        /\ UNCHANGED <<policy, stats, cache, rows, edits, others>>

\* The deadline has passed before a later call.
OutOfTime(r) ==
    LET x == req[r]
    IN  /\ x.pc = "call" /\ x.tried # {}
        /\ GiveUp(r, x, StatusOf("Timeout"))
        /\ UNCHANGED <<policy, stats, cache, rows, edits, others>>

\* The cost is reconciled, the answer is handed to the cache, whatever the
\* policy says of it, and the log is left for after the response.
Settle(r) ==
    LET x == req[r]
    IN  /\ x.pc = "settle"
        /\ \/ /\ Answer(r, [x EXCEPT !.held = 0], x.target)
              /\ cache' \in {cache, cache \cup {[text |-> x.q.text, target |-> x.target]}}
           \/ /\ Raise(r, x, 500)
              /\ UNCHANGED cache
        /\ UNCHANGED <<policy, stats, rows, edits, others>>

-----------------------------------------------------------------------------
(* write_request_log, the administrator, and the process.                  *)

WriteLog(row) ==
    /\ row \in tasks
    /\ tasks' = tasks \ {row}
    /\ rows' = rows \cup {row}
    /\ UNCHANGED <<policy, stats, cache, req, edits, others>>

\* Any failure is swallowed.
LogFails(row) ==
    /\ row \in tasks
    /\ tasks' = tasks \ {row}
    /\ UNCHANGED <<policy, stats, cache, req, rows, edits, others>>

\* A call of another request has been served by a target, or has failed.
\* (What the other requests leave in the cache is there from the beginning:
\* a request reads the cache once.  Likewise what they leave in the statistics
\* is put there when a request is about to read them.)
OtherRequest(t) ==
    /\ others < MaxOthers /\ others' = others + 1
    /\ \E r \in Known : \/ req[r].pc = "route" /\ ~IsManual(req[r].q)
                        \/ req[r].pc = "price" /\ req[r].policy["budget"] = "DOWNGRADE"
    /\ \/ \E ms \in Measured : stats' = [stats EXCEPT ![t] = AfterSuccess(@, ms)]
       \/ stats' = [stats EXCEPT ![t] = AfterFailure(@)]
    /\ UNCHANGED <<policy, cache, req, tasks, rows, edits>>

\* upsert_policy: the row is replaced, sections that are left out included.
UpsertPolicy(raw) == policy' = {raw}

PutPolicy(raw) ==
    /\ edits < MaxEdits /\ ValidPolicy(raw, Registered)
    /\ UpsertPolicy(raw) /\ edits' = edits + 1
    /\ UNCHANGED <<stats, cache, req, tasks, rows, others>>

DeletePolicy ==
    /\ edits < MaxEdits /\ policy # {}
    /\ policy' = {} /\ edits' = edits + 1
    /\ UNCHANGED <<stats, cache, req, tasks, rows, others>>

Restart ==
    /\ req' = [r \in Request |->
                 IF req[r] = New \/ req[r].pc \in Over THEN req[r] ELSE Lost]
    /\ stats' = [t \in Target |-> NoStats]
    /\ tasks' = {}
    /\ UNCHANGED <<policy, cache, rows, edits, others>>

PipelineInit ==
    /\ policy = {} \/ \E raw \in Policies : ValidPolicy(raw, Registered) /\ policy = {raw}
    /\ \/ cache = {}
       \/ \E q \in Question, t \in Cached : cache = {[text |-> q.text, target |-> t]}
    /\ tasks = {} /\ rows = {}
    /\ edits = 0 /\ others = 0
    /\ stats = [t \in Target |-> NoStats]
    /\ req = [r \in Request |-> New]

PipelineNext ==
    \/ \E r \in Request :
         \/ Arrive(r) \/ RateLimit(r) \/ RouteManual(r) \/ Route(r)
         \/ CacheHit(r) \/ CacheMiss(r) \/ Estimate(r) \/ Reserve(r)
         \/ CallServed(r) \/ CallFails(r) \/ CallUnknown(r)
         \/ CallShortCircuited(r) \/ OutOfTime(r) \/ Settle(r)
    \/ \E row \in tasks : WriteLog(row) \/ LogFails(row)
    \/ \E t \in Targets : OtherRequest(t)
    \/ \E raw \in Policies : PutPolicy(raw)
    \/ DeletePolicy \/ Restart

PipelineSpec == PipelineInit /\ [][PipelineNext]_pipelineVars

-----------------------------------------------------------------------------
(* Properties.                                                             *)

PipelineTypeOK ==
    /\ policy \in {{}} \cup {{raw} : raw \in Policies}
    /\ stats \in [Target -> [outcomes : Seq(BOOLEAN), latencies : Seq(Measured)]]
    /\ \A t \in Target : Len(stats[t].outcomes) <= Window /\ Len(stats[t].latencies) <= Window
    /\ \A e \in cache : e.target \in Target
    /\ \A r \in Known : req[r] \in RequestRecord
    /\ tasks \cup rows \subseteq Row
    /\ edits \in 0 .. MaxEdits /\ others \in 0 .. MaxOthers

\* "blocked requests never consume" a rate-limit slot, a budget reservation or
\* provider capacity, and "cache hits cost $0": a request the guardrails
\* refused has used nothing, one answered from the cache only its slot, one
\* the limiter refused neither budget nor provider.
RefusedIsFree ==
    \A r \in Known :
      LET x == req[r]
      IN  /\ GuardrailAction(x.policy["guardrails"], x.q.size, x.q.finds) = "block"
               => ~x.counted /\ ~x.called /\ x.held = 0
          /\ x.pc = "failed" /\ x.target = NoTarget => ~x.called /\ x.held = 0
          /\ x.hit => x.counted /\ ~x.called /\ x.held = 0 /\ x.arm = 0
          /\ x.called => x.counted
          /\ x.pc = "failed" /\ x.tried = {} /\ ~x.called => x.held = 0

\* The policy that was stored when the request arrived is the one it is
\* served under to its end, whatever is stored meanwhile (unless it could not
\* be read, when the default is): a prompt that policy blocks gets no further, a
\* cached answer is served, an arm assigned, another provider tried, only
\* where that policy says so.
PolicyPinned ==
    \A r \in Known :
      LET x == req[r]
          p == IF x.read /\ x.stored # {} THEN Merge(CHOOSE raw \in x.stored : TRUE)
                                          ELSE GlobalDefault
          g == p["guardrails"]
          barred == \/ g.max # NoLimit /\ x.q.size > g.max
                    \/ g.pii = "block" /\ "pii" \in x.q.finds
                    \/ g.injection = "block" /\ "injection" \in x.q.finds
      IN  /\ barred => x.pc = "failed" /\ x.target = NoTarget
          /\ x.hit => p["cache"]
          /\ x.arm # 0 => p["experiment"].on
          /\ Cardinality(x.tried \cup {x.target[1]}) > 1 => p["fallback"] /\ x.q.failover

\* These statuses have their cause, through retries, failovers and refusals by
\* a breaker: when a provider says that the gateway's key or the model is
\* wrong, no other call is made and the client sees that (502, 400); it is told
\* to slow down (429) only by the limiter or when the provider it ended with
\* said so, and about its budget (402) only when nothing was called.  (Ollama
\* has no keys; it and Gemini tell a missing model by the words of a message.
\* A refusal of the budget that comes out as 500 is not excluded.)
FailureExplained ==
    \A r \in Known :
      LET x == req[r]
      IN  /\ x.last[2] \in {401, 403} /\ x.last[1] # Local =>
               x.pc = "failed" /\ x.status = 502
          /\ x.last[2] = 404 /\ x.last[1] \in {"openai", "groq"} =>
               x.pc = "failed" /\ x.status = 400
          /\ x.status = 429 => x.target = NoTarget \/ x.last = <<x.target[1], 429>>
          /\ x.status = 402 => ~x.called
          /\ x.status = 404 => x.target[1] \notin Registered

\* What the client requires of a model survives the decision, a downgrade for
\* the budget and every failover: unless the client names the target itself,
\* or the policy gives it an experiment's arm, the target that is called has
\* the capabilities.
CapsHonoured ==
    \A r \in Known :
      LET x == req[r]
      IN  x.pc \in {"reserve", "call", "settle"} /\ ~IsManual(x.q) /\ x.arm = 0
            => x.q.caps \subseteq MetaOf(x.target).caps

\* "every request writes one RequestLog row": a request that is over, however
\* it ended, has its row, or a task that will write it.
EveryRequestLogged ==
    \A r \in Known :
      req[r].pc \in Over => \E row \in rows \cup tasks : row.id = r

\* Whatever the statistics are by then, and whatever the providers answer, the
\* routing engine never gives a request a candidate that another one beats: at
\* least as good in health, success rate, latency and cost, better in one.
RouteUndominated ==
    \A r \in Known :
      req[r].pc = "route" /\ ~IsManual(req[r].q) =>
        \A env \in Environment :
          LET q == req[r].q
              pool == Eligible(q, PoolOf(env))
              best == Best(pool, Weights(ResolveMode(q)))
          IN  \A c \in pool :
                /\ c.healthy => best.healthy
                /\ c.success >= best.success /\ c.latency <= best.latency
                     /\ c.cost <= best.cost
                   => /\ c.success = best.success /\ c.latency = best.latency
                      /\ c.cost = best.cost

\* A request that comes to an experiment, under whatever policy it was resolved
\* to, gets each arm for exactly the arm's share of the buckets.
ArmsGetTheirShare ==
    \A r \in Known :
      LET e == req[r].policy["experiment"]
      IN  req[r].pc = "lookup" /\ e.on =>
            \A n \in 1 .. Len(e.arms) :
              100 * Cardinality({b \in 0 .. BucketSize - 1 : Assign(e, b) = n})
                = e.arms[n].weight * BucketSize
=============================================================================
