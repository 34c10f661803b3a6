--------------------------- MODULE CircuitBreaker ---------------------------
(***************************************************************************)
(* The in-memory circuit breakers of reliability/circuit_breaker.py: one   *)
(* ProviderCircuitBreaker per provider, kept by CircuitBreakerRegistry.    *)
(*                                                                         *)
(* The operators on a breaker record are the methods of the class; the     *)
(* asyncio event loop runs each of them without interruption.  BreakerSpec *)
(* lets any caller call any method at any moment; ReliabilityExecutor      *)
(* extends this module and calls them in the order the executor does.      *)
(*                                                                         *)
(* The code compares time.monotonic() - _last_failure_time with the        *)
(* cooldown and nothing else, so a breaker keeps `since', the ticks since  *)
(* the last counted failure, which stops at CooldownTicks.                 *)
(***************************************************************************)
EXTENDS Integers

CONSTANTS
    Provider,           \* keys of the registry
    FailureThreshold,   \* circuit_breaker_failure_threshold
    CooldownTicks,      \* circuit_breaker_cooldown_seconds, in ticks
    HalfOpenTrials      \* circuit_breaker_half_open_trials

ASSUME BreakerAssumption ==
    /\ FailureThreshold \in Nat \ {0}
    /\ CooldownTicks \in Nat
    /\ HalfOpenTrials \in Nat

VARIABLE breaker        \* CircuitBreakerRegistry._breakers

NeverFailed == -1       \* _last_failure_time is None

BreakerRecord ==
    [state  : {"CLOSED", "OPEN", "HALF_OPEN"},
     fails  : Nat,                             \* _failure_count
     since  : (0 .. CooldownTicks) \cup {NeverFailed},
     trials : Nat]                             \* _half_open_trial_count

\* A breaker is built by get_breaker when its provider is first named.
NewBreaker ==
    [state |-> "CLOSED", fails |-> 0, since |-> NeverFailed, trials |-> 0]

-----------------------------------------------------------------------------
(* The methods of ProviderCircuitBreaker.                                  *)

\* _resolve_state: an OPEN breaker whose cooldown has elapsed turns
\* HALF_OPEN with no trial used.
ResolveState(b) ==
    IF b.state = "OPEN" /\ b.since = CooldownTicks
      THEN [b EXCEPT !.state = "HALF_OPEN", !.trials = 0]
      ELSE b

HasTrial(b) == b.state = "HALF_OPEN" /\ b.trials < HalfOpenTrials

\* The answer of can_execute.
CanExecute(b) ==
    LET s == ResolveState(b) IN s.state = "CLOSED" \/ HasTrial(s)

\* Mutant: the answer is given and the trial is not counted.
AfterCanExecuteUncounted(b) == ResolveState(b)

\* What can_execute leaves behind: asking takes a trial.
AfterCanExecute(b) ==
    LET s == ResolveState(b)
    IN  IF HasTrial(s) THEN [s EXCEPT !.trials = @ + 1] ELSE s

AfterRecordSuccess(b) ==
    LET s == ResolveState(b)
    IN  CASE s.state = "HALF_OPEN" -> NewBreaker
          [] s.state = "CLOSED"    -> [s EXCEPT !.fails = 0]
          [] s.state = "OPEN"      -> s

\* Mutant: failures are counted in every state.
AfterRecordFailureAlwaysCounts(b) ==
    LET s == [b EXCEPT !.since = 0, !.fails = @ + 1]
    IN  IF s.fails >= FailureThreshold THEN [s EXCEPT !.state = "OPEN"] ELSE s

\* Mutant: the failure time is stored only while the breaker is CLOSED.
AfterRecordFailureKeepsTime(b) ==
    LET s == ResolveState(b)
    IN  CASE s.state = "HALF_OPEN" -> [s EXCEPT !.state = "OPEN"]
          [] s.state = "CLOSED"    ->
               [s EXCEPT !.fails = @ + 1, !.since = 0,
                         !.state = IF s.fails + 1 >= FailureThreshold
                                     THEN "OPEN" ELSE "CLOSED"]
          [] s.state = "OPEN"      -> s

\* record_failure for an error that counts.  The failure time is stored
\* before the state is resolved: an OPEN breaker whose cooldown is over but
\* which nobody has looked at stays OPEN and waits another cooldown.
AfterRecordFailure(b) ==
    LET s == ResolveState([b EXCEPT !.since = 0])
    IN  CASE s.state = "HALF_OPEN" -> [s EXCEPT !.state = "OPEN"]
          [] s.state = "CLOSED"    ->
               [s EXCEPT !.fails = @ + 1,
                         !.state = IF b.fails + 1 >= FailureThreshold
                                     THEN "OPEN" ELSE "CLOSED"]
          [] s.state = "OPEN"      -> s

AfterTrip(b) ==
    [state |-> "OPEN", fails |-> FailureThreshold, since |-> 0,
     trials |-> b.trials]

\* A tick of time.monotonic() as this breaker sees it.
Older(b) ==
    IF b.since \in 0 .. CooldownTicks - 1
      THEN [b EXCEPT !.since = @ + 1] ELSE b

-----------------------------------------------------------------------------
(* The registry, called in any order.                                      *)

BreakerInit == breaker = [p \in Provider |-> NewBreaker]

Set(p, b) == breaker' = [breaker EXCEPT ![p] = b]

AskCanExecute(p)  == Set(p, AfterCanExecute(breaker[p]))
GetState(p)       == Set(p, ResolveState(breaker[p]))
RecordSuccess(p)  == Set(p, AfterRecordSuccess(breaker[p]))
RecordFailure(p)  == Set(p, AfterRecordFailure(breaker[p]))
Trip(p)           == Set(p, AfterTrip(breaker[p]))
Reset(p)          == Set(p, NewBreaker)
ResetAll          == breaker' = [p \in Provider |-> NewBreaker]
TimePasses        == breaker' = [p \in Provider |-> Older(breaker[p])]

BreakerNext ==
    \/ \E p \in Provider : AskCanExecute(p)
    \/ \E p \in Provider : GetState(p)
    \/ \E p \in Provider : RecordSuccess(p)
    \/ \E p \in Provider : RecordFailure(p)
    \/ \E p \in Provider : Trip(p)
    \/ \E p \in Provider : Reset(p)
    \/ ResetAll
    \/ TimePasses

BreakerSpec == BreakerInit /\ [][BreakerNext]_breaker

-----------------------------------------------------------------------------
(* Properties.                                                             *)

BreakerTypeOK == breaker \in [Provider -> BreakerRecord]

\* What one breaker's fields say about each other.
SoundBreaker(b) ==
    /\ b.state = "CLOSED" => b.fails < FailureThreshold /\ b.trials = 0
    /\ b.state # "CLOSED" => b.fails = FailureThreshold
    /\ b.state = "OPEN" => b.since # NeverFailed
    /\ b.trials <= HalfOpenTrials

\* After any sequence of method calls the four fields of a breaker fit
\* together: a CLOSED breaker is below its threshold and has no trial left
\* over from an earlier HALF_OPEN, the failure count stops at the threshold
\* while the breaker is not CLOSED, an OPEN breaker always has a failure time
\* (without one _resolve_state would never let it go), and no more than
\* half_open_trials trials are handed out.
BreakerSound == \A p \in Provider : SoundBreaker(breaker[p])
=============================================================================
