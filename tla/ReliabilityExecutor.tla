------------------------ MODULE ReliabilityExecutor ------------------------
(***************************************************************************)
(* ReliabilityExecutor.execute (reliability/executor.py) run by several    *)
(* requests at once over the shared circuit breakers: deadline, breaker    *)
(* check, retries with backoff, failover through                           *)
(* FailoverSelector.select_fallback.                                       *)
(*                                                                         *)
(* One event loop runs every request, so a request is interrupted only at  *)
(* its three awaits: the backoff sleep, provider.chat and the candidate    *)
(* discovery inside select_fallback.  An action is the code from one await *)
(* to the next.  What each provider answers, which candidates discovery    *)
(* finds and which of them the scorer puts first are left open.            *)
(***************************************************************************)
EXTENDS CircuitBreaker, FiniteSets

CONSTANTS
    Request,            \* concurrent callers; each sends one request at a time
    MaxRetries,         \* RetryPolicy.max_retries
    BaseDelay,          \* RetryPolicy.base_delay_seconds, in ticks
    MaxDelay,           \* RetryPolicy.max_delay_seconds, in ticks
    MaxFailover,        \* max_failover_attempts
    DeadlineTicks,      \* total_request_timeout_seconds, in ticks
    MaxModels           \* bound: candidates (models) one provider contributes

ASSUME ExecutorAssumption ==
    /\ IsFiniteSet(Provider)
    /\ MaxRetries \in Nat /\ MaxFailover \in Nat
    /\ BaseDelay \in Nat \ {0} /\ MaxDelay \in Nat \ {0}
    /\ DeadlineTicks \in Nat \ {0} /\ MaxModels \in Nat

VARIABLES
    req,                \* each caller's ReliabilityContext and local variables
    admitted            \* history: whom a HALF_OPEN breaker has let through

execVars == <<breaker, req, admitted>>

Awaiting == {"calling", "sleeping", "selecting"}

RequestRecord ==
    [pc        : {"idle", "done"} \cup Awaiting,
     provider  : Provider,              \* current_provider
     failover  : BOOLEAN,               \* request.failover_enabled is not False
     attempted : SUBSET Provider,       \* attempted_providers
     attempt   : 0 .. MaxRetries,       \* attempt_idx
     failovers : 0 .. MaxFailover + 1,  \* failover_attempts
     left      : 0 .. DeadlineTicks,    \* ticks to deadline_timestamp
     wake      : Nat,                   \* ticks of backoff still to sleep
     calls     : Nat,                   \* len(context.attempts), plus the running one
     late      : Nat,                   \* history: calls begun after the deadline
     result    : {"none", "response", "provider_error", "circuit_open",
                  "deadline", "cancelled"}]

\* The context execute builds on entry.  `result' holds last_error until the
\* request ends, and then what the caller got.
NewContext(p, f) ==
    [pc |-> "idle", provider |-> p, failover |-> f, attempted |-> {},
     attempt |-> 0, failovers |-> 0, left |-> DeadlineTicks, wake |-> 0,
     calls |-> 0, late |-> 0, result |-> "none"]

-----------------------------------------------------------------------------
(* RetryPolicy and FailoverSelector.                                       *)

Least(a, b) == IF a <= b THEN a ELSE b

\* compute_delay: capped exponential backoff plus up to 15% of jitter, still
\* capped; in whole ticks, the jitter rounded up.
DelaysOf(n) ==
    LET capped == Least(MaxDelay, BaseDelay * 2^n)
    IN  {d \in 0 .. MaxDelay :
           capped <= d /\ 100 * (d - capped) < 15 * capped + 100}

\* select_fallback asks can_execute once for every eligible candidate, that
\* is once per model of the provider, and so may take several trials.
AfterProbes(b, n) ==
    LET s == ResolveState(b)
    IN  IF HasTrial(s)
          THEN [s EXCEPT !.trials = Least(HalfOpenTrials, @ + n)] ELSE s

ProbeAll(models, eligible) ==
    [p \in Provider |-> IF p \in eligible
                          THEN AfterProbes(breaker[p], models[p])
                          ELSE breaker[p]]

-----------------------------------------------------------------------------
(* Pieces of execute that run without an await.                            *)

\* Every assignment of the breakers goes through here, to keep the history
\* of who was let through since the breaker last turned HALF_OPEN.
SetBreakers(bs, letIn) ==
    /\ breaker' = bs
    /\ admitted' = [p \in Provider |->
                      IF bs[p].state = "HALF_OPEN"
                        THEN admitted[p] \cup letIn[p] ELSE {}]

Nobody == [p \in Provider |-> {}]

Become(r, q) == req' = [req EXCEPT ![r] = q]

\* execute returns or raises: its context and local variables are gone, and
\* what the caller got remains.
Finish(r, q, what) ==
    Become(r, [pc |-> "done", provider |-> q.provider, failover |-> TRUE,
               attempted |-> {}, attempt |-> 0, failovers |-> 0,
               left |-> 0, wake |-> 0, calls |-> 0, late |-> 0,
               result |-> what])

\* is_deadline_exceeded; the mutant never says so.
DeadlineNeverExceeded(q) == FALSE
DeadlineExceeded(q) == q.left = 0

\* One more upstream call, counted as late when the deadline has passed.
Calling(q) == [q EXCEPT !.pc = "calling", !.calls = @ + 1,
                        !.late = IF q.left = 0 THEN @ + 1 ELSE @]

Call(r, q) == Become(r, Calling(q))

\* max_attempts of the retry loop; the mutant takes max_retries for the
\* number of attempts after the first retry.
MaxAttemptsOneMore == 2 + MaxRetries
MaxAttempts == 1 + MaxRetries

\* Back off for d ticks before the next attempt.
BackOff(q, d) == [q EXCEPT !.pc = "sleeping", !.wake = d, !.attempt = @ + 1,
                           !.result = "provider_error"]

\* A tick nearer to the deadline and to the end of the sleep.
Waited(q) == [q EXCEPT !.left = IF @ > 0 THEN @ - 1 ELSE 0,
                       !.wake = IF @ > 0 THEN @ - 1 ELSE 0]

\* The condition of the outer while loop; the mutant loops until it returns.
GoesOnForever(q) == TRUE
GoesOn(q) == q.failovers <= MaxFailover

\* One turn of the outer while loop, from its condition to the first await.
\* bs are the breakers as select_fallback has left them.
TryProvider(r, q, bs) ==
    LET p     == q.provider
        tried == [q EXCEPT !.attempted = @ \cup {p}, !.attempt = 0]
        asked == [bs EXCEPT ![p] = AfterCanExecute(@)]
    IN  \/ /\ ~ GoesOn(q)
           /\ SetBreakers(bs, Nobody)
           /\ Finish(r, q, q.result)
        \/ /\ GoesOn(q) /\ DeadlineExceeded(q)
           /\ SetBreakers(bs, Nobody)
           /\ Finish(r, q, "deadline")
        \/ /\ GoesOn(q) /\ ~ DeadlineExceeded(q)
           /\ CanExecute(bs[p])
           /\ SetBreakers(asked, [Nobody EXCEPT ![p] = {r}])
           /\ Call(r, tried)
        \/ /\ GoesOn(q) /\ ~ DeadlineExceeded(q)
           /\ ~ CanExecute(bs[p])
           /\ SetBreakers(asked, Nobody)
           /\ IF q.failover
                THEN Become(r, [tried EXCEPT !.pc = "selecting",
                                             !.result = "circuit_open"])
                ELSE Finish(r, tried, "circuit_open")

-----------------------------------------------------------------------------
(* Actions.                                                                *)

Start(r) ==
    /\ req[r].pc \in {"idle", "done"}
    /\ \E p \in Provider, f \in BOOLEAN :
         TryProvider(r, NewContext(p, f), breaker)

\* provider.chat returns.
CallSucceeds(r) ==
    LET p == req[r].provider
    IN  /\ req[r].pc = "calling"
        /\ SetBreakers([breaker EXCEPT ![p] = AfterRecordSuccess(@)], Nobody)
        /\ Finish(r, req[r], "response")

\* provider.chat raises an error that is_transient_error rejects.
CallFailsForGood(r) ==
    /\ req[r].pc = "calling"
    /\ Finish(r, req[r], "provider_error")
    /\ UNCHANGED <<breaker, admitted>>

\* A transient error with attempts left: check the deadline, then back off.
CallFailsRetry(r) ==
    LET q == req[r]
    IN  /\ q.pc = "calling" /\ q.attempt < MaxAttempts - 1
        /\ \E d \in DelaysOf(q.attempt) :
             IF q.left <= d
               THEN Finish(r, q, "deadline")
               ELSE Become(r, BackOff(q, d))
        /\ UNCHANGED <<breaker, admitted>>

\* A transient error of the last attempt.  Only the errors that
\* is_circuit_breaker_failure accepts reach the breaker: a 429 is transient
\* and is not counted.
CallFailsLast(r, counted) ==
    LET q == req[r]
    IN  /\ q.pc = "calling" /\ q.attempt = MaxAttempts - 1
        /\ IF counted
             THEN SetBreakers([breaker EXCEPT ![q.provider] =
                                 AfterRecordFailure(@)], Nobody)
             ELSE UNCHANGED <<breaker, admitted>>
        /\ IF q.failover /\ q.failovers < MaxFailover
             THEN Become(r, [q EXCEPT !.pc = "selecting",
                                      !.result = "provider_error"])
             ELSE Finish(r, q, "provider_error")

\* The backoff sleep is over; the deadline is not looked at again.
Wake(r) ==
    /\ req[r].pc = "sleeping" /\ req[r].wake = 0
    /\ Call(r, req[r])
    /\ UNCHANGED <<breaker, admitted>>

\* Mutants: failover leaves out only the provider that failed last, or keeps
\* asking until there is a candidate.
SelectFallbackFrom(r, tried, patient) ==
    LET q == req[r]
    IN  /\ q.pc = "selecting"
        /\ \E models \in [Provider -> 0 .. MaxModels] :
             LET eligible  == {p \in Provider \ tried : models[p] > 0}
                 available == {p \in eligible : CanExecute(breaker[p])}
                 probed    == ProbeAll(models, eligible)
             IN  \E capable \in SUBSET available :
                   \/ /\ capable = {}
                      /\ SetBreakers(probed, Nobody)
                      /\ IF patient THEN Become(r, q) ELSE Finish(r, q, q.result)
                   \/ \E p \in capable :
                        TryProvider(r, [q EXCEPT !.provider = p,
                                                 !.failovers = @ + 1], probed)
SelectFallbackAgain(r) == SelectFallbackFrom(r, {req[r].provider}, FALSE)
SelectFallbackWaits(r) == SelectFallbackFrom(r, req[r].attempted, TRUE)

\* Candidate discovery is over: the rest of select_fallback, and the next
\* turn of the outer loop.  models[p] is the number of p's candidates,
\* capable the providers with a candidate that passes the capability filter.
SelectFallback(r) ==
    LET q == req[r]
    IN  /\ q.pc = "selecting"
        /\ \E models \in [Provider -> 0 .. MaxModels] :
             LET eligible  == {p \in Provider \ q.attempted : models[p] > 0}
                 available == {p \in eligible : CanExecute(breaker[p])}
                 probed    == ProbeAll(models, eligible)
             IN  \E capable \in SUBSET available :
                   \/ /\ capable = {}
                      /\ SetBreakers(probed, Nobody)
                      /\ Finish(r, q, q.result)
                   \/ \E p \in capable :
                        TryProvider(r, [q EXCEPT !.provider = p,
                                                 !.failovers = @ + 1], probed)

\* The task is cancelled at its await (client gone, server shutting down):
\* CancelledError is not an Exception, so nothing is recorded.
Cancel(r) ==
    /\ req[r].pc \in Awaiting
    /\ Finish(r, req[r], "cancelled")
    /\ UNCHANGED <<breaker, admitted>>

\* Time passes, also for a sleeper whose timer is due: asyncio.sleep returns
\* some time after the delay, whenever the event loop comes round to it.
Tick ==
    /\ TimePasses
    /\ req' = [r \in Request |->
                 IF req[r].pc \in Awaiting THEN Waited(req[r]) ELSE req[r]]
    /\ UNCHANGED admitted

ExecInit ==
    /\ BreakerInit
    /\ admitted = Nobody
    /\ \E p \in Provider : req = [r \in Request |-> NewContext(p, TRUE)]

ExecNext ==
    \/ \E r \in Request :
         \/ Start(r)
         \/ CallSucceeds(r)
         \/ CallFailsForGood(r)
         \/ CallFailsRetry(r)
         \/ \E counted \in BOOLEAN : CallFailsLast(r, counted)
         \/ Wake(r)
         \/ SelectFallback(r)
         \/ Cancel(r)
    \/ Tick

ExecSpec == ExecInit /\ [][ExecNext]_execVars

\* Clients keep sending, timers fire, the clock runs, discovery ends, and a
\* provider call ends one way or another because the HTTP clients time out.
CallEnds(r) ==
    \/ CallSucceeds(r)
    \/ CallFailsForGood(r)
    \/ CallFailsRetry(r)
    \/ \E counted \in BOOLEAN : CallFailsLast(r, counted)

ExecFairness ==
    /\ WF_execVars(Tick)
    /\ \A r \in Request :
         /\ WF_execVars(Start(r))
         /\ WF_execVars(CallEnds(r))
         /\ WF_execVars(Wake(r))
         /\ WF_execVars(SelectFallback(r))

FairExecSpec == ExecSpec /\ ExecFairness

-----------------------------------------------------------------------------
(* Properties.                                                             *)

\* Types; and a request that waits for anything has made no more failovers
\* than it may (the counter passes the limit only to end the outer loop).
ExecTypeOK ==
    /\ BreakerTypeOK
    /\ req \in [Request -> RequestRecord]
    /\ \A r \in Request : req[r].failovers <= MaxFailover
    /\ admitted \in [Provider -> SUBSET Request]

\* However retries, failovers and short-circuits alternate, one request makes
\* at most (1 + max_failover_attempts) * (1 + max_retries) upstream calls.
CallsBounded ==
    \A r \in Request : req[r].calls <= (1 + MaxFailover) * (1 + MaxRetries)

\* No more than half_open_trials callers are let through a breaker between
\* the moment it turns HALF_OPEN and the moment it leaves, whoever asks and
\* whatever select_fallback has probed before.
TrialsRespected ==
    \A p \in Provider :
      breaker[p].state = "HALF_OPEN" =>
        Cardinality(admitted[p]) <= HalfOpenTrials

\* A step of a request that is still running.
Continues(r) == req[r].pc \in Awaiting /\ req'[r].pc \in Awaiting

\* Failover never goes back: the provider a running request moves to is one
\* it has not tried, although a select_fallback and a check lie in between.
FailoverNeverReturns ==
    [][\A r \in Request :
         Continues(r) /\ req'[r].provider # req[r].provider
         => req'[r].provider \notin req[r].attempted]_execVars

\* The deadline stops "unbounded retry chains" (README.md): of all the calls
\* of a request at most one begins after it, a retry whose sleep has overrun.
\* No retry and no failover follows that one, whatever the timers do.
OneLateCall == \A r \in Request : req[r].late <= 1

\* Every request gets an answer: retries, sleeps and failovers end.
RequestsEnd ==
    \A r \in Request : (req[r].pc \in Awaiting) ~> (req[r].pc = "done")

\* A breaker lets somebody through now, or as soon as it is asked.
Admits(p) == CanExecute(breaker[p])

\* docs/deployment.md: after the cooldown "the breaker will enter half-open
\* state and retry automatically", so a blocked provider is tried again.
BlockedProviderIsRetried == \A p \in Provider : []<>Admits(p)

Contract == INSTANCE BreakerContract WITH
    phase <- [p \in Provider |-> breaker[p].state],
    rest  <- [p \in Provider |-> IF breaker[p].state = "OPEN"
                                   THEN breaker[p].since ELSE 0],
    used  <- [p \in Provider |-> IF breaker[p].state = "HALF_OPEN"
                                   THEN breaker[p].trials ELSE 0]

\* Under every interleaving of requests the breakers implement the contract.
KeepsBreakerContract == Contract!Spec
=============================================================================
