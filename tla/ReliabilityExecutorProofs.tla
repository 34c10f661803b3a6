--------------------- MODULE ReliabilityExecutorProofs ---------------------
(***************************************************************************)
(* Theorems about CircuitBreaker and ReliabilityExecutor for any number of *)
(* requests and providers and any retry, failover and breaker settings.    *)
(*                                                                         *)
(* The inductive invariant ExecInv has two halves.  BreakerHalf: every     *)
(* breaker is good, and the callers let through a HALF_OPEN breaker are no *)
(* more than the trials it has handed out (the probes of select_fallback   *)
(* take trials and let nobody through, so equality fails).  RequestHalf: a *)
(* running request has made no more calls than its failovers and attempts  *)
(* account for, and one that has called after its deadline does not sleep  *)
(* again.  That no request returns to a provider, and that the breakers    *)
(* implement BreakerContract, are statements about single steps from       *)
(* ExecInv.                                                                *)
(***************************************************************************)
EXTENDS ReliabilityExecutor, FiniteSetTheorems, TLAPS

-----------------------------------------------------------------------------
(* The breakers on their own (CircuitBreaker): the four fields of a        *)
(* breaker are sound together, and every method keeps them so.             *)

\* A breaker record that is well typed and whose fields fit together.
Good(b) == b \in BreakerRecord /\ SoundBreaker(b)

\* A record is good when its four fields are.
LEMMA FieldsGood ==
  ASSUME NEW st \in {"CLOSED", "OPEN", "HALF_OPEN"}, NEW f \in Nat,
         NEW since \in (0 .. CooldownTicks) \cup {NeverFailed}, NEW t \in Nat,
         st = "CLOSED" => f < FailureThreshold /\ t = 0,
         st # "CLOSED" => f = FailureThreshold,
         st = "OPEN" => since # NeverFailed,
         t <= HalfOpenTrials
  PROVE  Good([state |-> st, fails |-> f, since |-> since, trials |-> t])
  BY DEF Good, BreakerRecord, SoundBreaker

\* The record get_breaker builds is good.
LEMMA NewBreakerGood == Good(NewBreaker)
  BY BreakerAssumption DEF Good, NewBreaker, BreakerRecord, SoundBreaker, NeverFailed

\* Resolving the state keeps a breaker good, moves no failure count or time,
\* and leaves no OPEN breaker that has cooled down.
LEMMA ResolveGood ==
  ASSUME NEW b, Good(b)
  PROVE  /\ Good(ResolveState(b))
         /\ ResolveState(b).since = b.since /\ ResolveState(b).fails = b.fails
         /\ ResolveState(b).state = "OPEN" => b.state = "OPEN" /\ b.since # CooldownTicks
         /\ ResolveState(b).state = "CLOSED" <=> b.state = "CLOSED"
         /\ b.state # "OPEN" => ResolveState(b) = b
<1>1. CASE b.state = "OPEN" /\ b.since = CooldownTicks
  <2>1. ResolveState(b) = [b EXCEPT !.state = "HALF_OPEN", !.trials = 0]
    BY <1>1 DEF ResolveState
  <2>2. ResolveState(b) = [state |-> "HALF_OPEN", fails |-> b.fails,
                           since |-> b.since, trials |-> 0]
    BY <2>1 DEF Good, BreakerRecord
  <2>3. b.fails = FailureThreshold /\ b.since \in (0 .. CooldownTicks) \cup {NeverFailed}
    BY <1>1 DEF Good, BreakerRecord, SoundBreaker
  <2>4. Good(ResolveState(b))
    BY <2>2, <2>3, BreakerAssumption DEF Good, BreakerRecord, SoundBreaker
  <2>5. QED
    BY <1>1, <2>2, <2>4
<1>2. CASE ~ (b.state = "OPEN" /\ b.since = CooldownTicks)
  BY <1>2 DEF ResolveState
<1>3. QED
  BY <1>1, <1>2

\* can_execute takes a trial only while one is left.
LEMMA CanExecuteGood ==
  ASSUME NEW b, Good(b)
  PROVE  Good(AfterCanExecute(b))
<1> DEFINE s == ResolveState(b)
<1>1. Good(s)
  BY ResolveGood
<1>2. CASE HasTrial(s)
  <2>1. AfterCanExecute(b) = [s EXCEPT !.trials = @ + 1]
    BY <1>2 DEF AfterCanExecute
  <2> HIDE DEF s
  <2>2. QED
    BY <1>1, <1>2, <2>1, BreakerAssumption
    DEF Good, HasTrial, BreakerRecord, SoundBreaker
<1>3. CASE ~ HasTrial(s)
  BY <1>1, <1>3 DEF AfterCanExecute
<1>4. QED
  BY <1>2, <1>3

LEMMA RecordSuccessGood ==
  ASSUME NEW b, Good(b)
  PROVE  Good(AfterRecordSuccess(b))
<1> DEFINE s == ResolveState(b)
<1>1. Good(s)
  BY ResolveGood
<1>2. AfterRecordSuccess(b) = CASE s.state = "HALF_OPEN" -> NewBreaker
                                [] s.state = "CLOSED"    -> [s EXCEPT !.fails = 0]
                                [] s.state = "OPEN"      -> s
  BY DEF AfterRecordSuccess
<1> HIDE DEF s
<1>3. s.state \in {"CLOSED", "OPEN", "HALF_OPEN"}
  BY <1>1 DEF Good, BreakerRecord
<1>4. CASE s.state = "HALF_OPEN"
  BY <1>2, <1>4, NewBreakerGood
<1>5. CASE s.state = "CLOSED"
  <2>1. AfterRecordSuccess(b) = [s EXCEPT !.fails = 0]
    BY <1>2, <1>5
  <2>2. QED
    BY <1>1, <1>5, <2>1, BreakerAssumption DEF Good, BreakerRecord, SoundBreaker
<1>6. CASE s.state = "OPEN"
  BY <1>1, <1>2, <1>6
<1>7. QED
  BY <1>3, <1>4, <1>5, <1>6

\* The failure time is stored first, which a good breaker survives.
LEMMA RecordFailureGood ==
  ASSUME NEW b, Good(b)
  PROVE  Good(AfterRecordFailure(b))
<1> DEFINE c == [b EXCEPT !.since = 0]
           s == ResolveState(c)
<1>1. Good(c) /\ c.fails = b.fails
  BY BreakerAssumption DEF Good, BreakerRecord, SoundBreaker, NeverFailed
<1>2. Good(s) /\ s.fails = b.fails /\ s.since = 0
  BY <1>1, ResolveGood DEF Good, BreakerRecord
<1>3. AfterRecordFailure(b) =
        CASE s.state = "HALF_OPEN" -> [s EXCEPT !.state = "OPEN"]
          [] s.state = "CLOSED"    ->
               [s EXCEPT !.fails = @ + 1,
                         !.state = IF b.fails + 1 >= FailureThreshold
                                     THEN "OPEN" ELSE "CLOSED"]
          [] s.state = "OPEN"      -> s
  BY DEF AfterRecordFailure
<1> HIDE DEF s
<1>4. s.state \in {"CLOSED", "OPEN", "HALF_OPEN"}
  BY <1>2 DEF Good, BreakerRecord
<1>5. CASE s.state = "HALF_OPEN"
  <2>1. AfterRecordFailure(b) = [s EXCEPT !.state = "OPEN"]
    BY <1>3, <1>5
  <2>2. QED
    BY <1>2, <1>5, <2>1, BreakerAssumption
    DEF Good, BreakerRecord, SoundBreaker, NeverFailed
<1>6. CASE s.state = "CLOSED"
  <2>1. AfterRecordFailure(b) =
          [s EXCEPT !.fails = @ + 1,
                    !.state = IF b.fails + 1 >= FailureThreshold
                                THEN "OPEN" ELSE "CLOSED"]
    BY <1>3, <1>6
  <2>2. CASE b.fails + 1 >= FailureThreshold
    <3>1. AfterRecordFailure(b) = [s EXCEPT !.fails = @ + 1, !.state = "OPEN"]
      BY <2>1, <2>2
    <3>2. s.fails + 1 = FailureThreshold
      BY <1>2, <1>6, <2>2, BreakerAssumption DEF Good, BreakerRecord, SoundBreaker
    <3>3. AfterRecordFailure(b) =
            [state |-> "OPEN", fails |-> FailureThreshold, since |-> 0,
             trials |-> s.trials]
      BY <1>2, <3>1, <3>2 DEF Good, BreakerRecord
    <3>4. QED
      BY <1>2, <3>3, FieldsGood, BreakerAssumption
      DEF Good, BreakerRecord, SoundBreaker, NeverFailed
  <2>3. CASE ~ (b.fails + 1 >= FailureThreshold)
    <3>1. AfterRecordFailure(b) = [s EXCEPT !.fails = @ + 1, !.state = "CLOSED"]
      BY <2>1, <2>3
    <3>2. s.fails + 1 < FailureThreshold
      BY <1>2, <1>6, <2>3, BreakerAssumption DEF Good, BreakerRecord, SoundBreaker
    <3>3. AfterRecordFailure(b) =
            [state |-> "CLOSED", fails |-> s.fails + 1, since |-> 0,
             trials |-> s.trials]
      BY <1>2, <3>1 DEF Good, BreakerRecord
    <3>4. QED
      BY <1>2, <1>6, <3>2, <3>3, FieldsGood, BreakerAssumption
      DEF Good, BreakerRecord, SoundBreaker
  <2>4. QED
    BY <2>2, <2>3
<1>7. CASE s.state = "OPEN"
  BY <1>2, <1>3, <1>7
<1>8. QED
  BY <1>4, <1>5, <1>6, <1>7

LEMMA TripGood ==
  ASSUME NEW b, Good(b)
  PROVE  Good(AfterTrip(b))
  BY FieldsGood, BreakerAssumption
  DEF Good, AfterTrip, BreakerRecord, SoundBreaker, NeverFailed

\* Time changes nothing but the age of the last failure.
LEMMA OlderGood ==
  ASSUME NEW b, Good(b)
  PROVE  /\ Good(Older(b))
         /\ Older(b).state = b.state /\ Older(b).trials = b.trials
  BY BreakerAssumption DEF Good, Older, BreakerRecord, SoundBreaker, NeverFailed

-----------------------------------------------------------------------------
\* The inductive invariant: every breaker of the registry is good.
AllGood == breaker \in [Provider -> BreakerRecord] /\ \A p \in Provider : Good(breaker[p])

\* One method call on one provider keeps every breaker good.
LEMMA SetGood ==
  ASSUME AllGood, NEW p \in Provider, NEW b, Good(b), Set(p, b)
  PROVE  AllGood'
  BY DEF AllGood, Set, Good

LEMMA BreakerStep == AllGood /\ [BreakerNext]_breaker => AllGood'
<1> SUFFICES ASSUME AllGood, [BreakerNext]_breaker
             PROVE  AllGood'
  OBVIOUS
<1>1. ASSUME NEW p \in Provider, AskCanExecute(p)
      PROVE  AllGood'
  BY <1>1, CanExecuteGood, SetGood DEF AskCanExecute, AllGood
<1>2. ASSUME NEW p \in Provider, GetState(p)
      PROVE  AllGood'
  BY <1>2, ResolveGood, SetGood DEF GetState, AllGood
<1>3. ASSUME NEW p \in Provider, RecordSuccess(p)
      PROVE  AllGood'
  BY <1>3, RecordSuccessGood, SetGood DEF RecordSuccess, AllGood
<1>4. ASSUME NEW p \in Provider, RecordFailure(p)
      PROVE  AllGood'
  BY <1>4, RecordFailureGood, SetGood DEF RecordFailure, AllGood
<1>5. ASSUME NEW p \in Provider, Trip(p)
      PROVE  AllGood'
  BY <1>5, TripGood, SetGood DEF Trip, AllGood
<1>6. ASSUME NEW p \in Provider, Reset(p)
      PROVE  AllGood'
  BY <1>6, NewBreakerGood, SetGood DEF Reset, AllGood
<1>7. CASE ResetAll
  BY <1>7, NewBreakerGood DEF ResetAll, AllGood, Good
<1>8. CASE TimePasses
  BY <1>8, OlderGood DEF TimePasses, AllGood, Good
<1>9. CASE UNCHANGED breaker
  BY <1>9 DEF AllGood, Good
<1>10. QED
  BY <1>1, <1>2, <1>3, <1>4, <1>5, <1>6, <1>7, <1>8, <1>9 DEF BreakerNext

\* Whatever methods of the breakers are called, in whatever order, the
\* registry stays well typed and every breaker's fields fit together.
THEOREM BreakersStaySound == BreakerSpec => [](BreakerTypeOK /\ BreakerSound)
<1>1. BreakerInit => AllGood
  BY NewBreakerGood DEF BreakerInit, AllGood, Good
<1>2. AllGood => BreakerTypeOK /\ BreakerSound
  BY DEF AllGood, Good, BreakerTypeOK, BreakerSound
<1>3. QED
  BY <1>1, <1>2, BreakerStep, PTL DEF BreakerSpec

-----------------------------------------------------------------------------
(* The inductive invariant of the executor.                                *)

Tries == 1 + MaxRetries     \* calls of one provider in one request

\* A late call comes after the deadline, and alone.
LateOK(q) == q.late = 0 \/ (q.late = 1 /\ q.left = 0)

RequestInv(q) ==
    /\ q.failovers <= MaxFailover
    /\ LateOK(q)
    /\ q.pc = "calling" => q.calls <= q.failovers * Tries + q.attempt + 1
    /\ q.pc = "sleeping" => q.calls <= q.failovers * Tries + q.attempt /\ q.late = 0
    /\ q.pc = "selecting" => q.calls <= q.failovers * Tries + Tries
    /\ q.calls <= (1 + MaxFailover) * Tries

Let(b, who) ==
    /\ IsFiniteSet(who)
    /\ b.state = "HALF_OPEN" => Cardinality(who) <= b.trials
    /\ b.state # "HALF_OPEN" => who = {}

BreakerInv == \A p \in Provider : Let(breaker[p], admitted[p])

-----------------------------------------------------------------------------
(* What the breaker methods do to the trials.                              *)

Taken(b) == IF b.state = "HALF_OPEN" THEN b.trials ELSE 0

\* c is b after some checks, of which n let somebody through.
Grows(b, c, n) ==
    /\ Good(c)
    /\ b.state = "HALF_OPEN" => c.state = "HALF_OPEN"
    /\ c.state = "HALF_OPEN" => Taken(b) + n <= c.trials

LEMMA GrowsSame ==
  ASSUME NEW b, Good(b)
  PROVE  Grows(b, b, 0)
  BY DEF Grows, Taken, Good, BreakerRecord

LEMMA GrowsTwice ==
  ASSUME NEW b, NEW c, NEW d, NEW n \in Nat, Good(b), Grows(b, c, 0), Grows(c, d, n)
  PROVE  Grows(b, d, n)
  BY DEF Grows, Taken, Good, BreakerRecord

\* _resolve_state hands out nothing.
LEMMA GrowsResolve ==
  ASSUME NEW b, Good(b)
  PROVE  Grows(b, ResolveState(b), 0)
<1>1. Good(ResolveState(b)) /\ (b.state # "OPEN" => ResolveState(b) = b)
  BY ResolveGood
<1>2. QED
  BY <1>1 DEF Grows, Taken, Good, BreakerRecord

\* A check that lets a caller through a HALF_OPEN breaker takes a trial.
LEMMA GrowsCheck ==
  ASSUME NEW b, Good(b)
  PROVE  /\ Grows(b, AfterCanExecute(b), 0)
         /\ CanExecute(b) => Grows(b, AfterCanExecute(b), 1)
<1> DEFINE s == ResolveState(b)
<1>1. Good(s) /\ Grows(b, s, 0) /\ Good(AfterCanExecute(b))
  BY GrowsResolve, ResolveGood, CanExecuteGood
<1>2. AfterCanExecute(b) = IF HasTrial(s) THEN [s EXCEPT !.trials = @ + 1] ELSE s
  BY DEF AfterCanExecute
<1>3. CanExecute(b) <=> s.state = "CLOSED" \/ HasTrial(s)
  BY DEF CanExecute
<1> HIDE DEF s
<1>4. CASE HasTrial(s)
  <2>1. AfterCanExecute(b) = [s EXCEPT !.trials = @ + 1]
    BY <1>2, <1>4
  <2>2. AfterCanExecute(b).state = "HALF_OPEN" /\ AfterCanExecute(b).trials = s.trials + 1
    BY <1>1, <1>4, <2>1 DEF HasTrial, Good, BreakerRecord
  <2>3. Taken(b) <= s.trials /\ Taken(b) \in Int /\ s.trials \in Int
    BY <1>1, <1>4 DEF Grows, Taken, HasTrial, Good, BreakerRecord
  <2>4. QED
    BY <1>1, <2>2, <2>3 DEF Grows
<1>5. CASE ~ HasTrial(s)
  BY <1>1, <1>2, <1>3, <1>5 DEF Grows
<1>6. QED
  BY <1>4, <1>5

\* Nor do the probes of select_fallback ever exceed the trials.
LEMMA GrowsProbes ==
  ASSUME NEW b, Good(b), NEW n \in Nat
  PROVE  Grows(b, AfterProbes(b, n), 0)
<1> DEFINE s == ResolveState(b)
           t == Least(HalfOpenTrials, s.trials + n)
<1>1. Good(s) /\ Grows(b, s, 0)
  BY GrowsResolve, ResolveGood
<1>2. AfterProbes(b, n) = IF HasTrial(s) THEN [s EXCEPT !.trials = t] ELSE s
  BY DEF AfterProbes
<1> HIDE DEF s
<1>3. CASE HasTrial(s)
  <2>1. t \in Nat /\ s.trials <= t /\ t <= HalfOpenTrials
    BY <1>1, <1>3, BreakerAssumption DEF Least, HasTrial, Good, BreakerRecord
  <2> HIDE DEF t
  <2>2. AfterProbes(b, n) = [s EXCEPT !.trials = t]
    BY <1>2, <1>3
  <2>3. Good([s EXCEPT !.trials = t])
    BY <1>1, <1>3, <2>1 DEF HasTrial, Good, BreakerRecord, SoundBreaker
  <2>4. AfterProbes(b, n).state = "HALF_OPEN" /\ AfterProbes(b, n).trials = t
    BY <1>1, <1>3, <2>2 DEF HasTrial, Good, BreakerRecord
  <2>5. Taken(b) <= s.trials /\ Taken(b) \in Int /\ s.trials \in Int
    BY <1>1, <1>3 DEF Grows, Taken, HasTrial, Good, BreakerRecord
  <2>6. QED
    BY <2>1, <2>2, <2>3, <2>4, <2>5 DEF Grows
<1>4. CASE ~ HasTrial(s)
  BY <1>1, <1>2, <1>4
<1>5. QED
  BY <1>3, <1>4

\* A recorded outcome leaves no breaker HALF_OPEN.
LEMMA OutcomeEndsTrial ==
  ASSUME NEW b, Good(b)
  PROVE  /\ AfterRecordSuccess(b).state # "HALF_OPEN"
         /\ AfterRecordFailure(b).state # "HALF_OPEN"
<1>1. AfterRecordSuccess(b).state # "HALF_OPEN"
  <2> DEFINE s == ResolveState(b)
  <2>1. Good(s)
    BY ResolveGood
  <2>2. AfterRecordSuccess(b) = CASE s.state = "HALF_OPEN" -> NewBreaker
                                  [] s.state = "CLOSED"    -> [s EXCEPT !.fails = 0]
                                  [] s.state = "OPEN"      -> s
    BY DEF AfterRecordSuccess
  <2> HIDE DEF s
  <2>3. QED
    BY <2>1, <2>2 DEF Good, BreakerRecord, NewBreaker
<1>2. AfterRecordFailure(b).state # "HALF_OPEN"
  <2> DEFINE c == [b EXCEPT !.since = 0]
             s == ResolveState(c)
  <2>1. Good(c)
    BY BreakerAssumption DEF Good, BreakerRecord, SoundBreaker, NeverFailed
  <2>2. Good(s)
    BY <2>1, ResolveGood
  <2>3. AfterRecordFailure(b) =
          CASE s.state = "HALF_OPEN" -> [s EXCEPT !.state = "OPEN"]
            [] s.state = "CLOSED"    ->
                 [s EXCEPT !.fails = @ + 1,
                           !.state = IF b.fails + 1 >= FailureThreshold
                                       THEN "OPEN" ELSE "CLOSED"]
            [] s.state = "OPEN"      -> s
    BY DEF AfterRecordFailure
  <2> HIDE DEF s
  <2>4. QED
    BY <2>2, <2>3 DEF Good, BreakerRecord
<1>3. QED
  BY <1>1, <1>2

-----------------------------------------------------------------------------
(* Breakers and history together.                                          *)

\* Who is let through when the breakers become bs is paid for in trials.
Paid(bs, letIn) ==
    \A p \in Provider : bs[p].state = "HALF_OPEN" =>
      \/ letIn[p] = {} /\ Taken(breaker[p]) <= bs[p].trials
      \/ \E r \in Request : letIn[p] = {r} /\ Taken(breaker[p]) + 1 <= bs[p].trials

BreakerHalf ==
    AllGood /\ admitted \in [Provider -> SUBSET Request] /\ BreakerInv

LEMMA SetBreakersKeeps ==
  ASSUME BreakerHalf,
         NEW bs \in [Provider -> BreakerRecord],
         NEW letIn \in [Provider -> SUBSET Request],
         \A p \in Provider : Good(bs[p]),
         Paid(bs, letIn),
         SetBreakers(bs, letIn)
  PROVE  BreakerHalf'
<1>1. AllGood'
  BY DEF SetBreakers, AllGood, Good
<1>2. admitted' \in [Provider -> SUBSET Request]
  BY DEF SetBreakers, BreakerHalf
<1>3. ASSUME NEW p \in Provider
      PROVE  Let(bs[p], admitted'[p])
  <2>1. /\ IsFiniteSet(admitted[p])
        /\ Cardinality(admitted[p]) \in Nat
        /\ Cardinality(admitted[p]) <= Taken(breaker[p])
        /\ Taken(breaker[p]) \in Nat /\ bs[p].trials \in Nat
    <3>1. Let(breaker[p], admitted[p])
      BY DEF BreakerHalf, BreakerInv
    <3>2. breaker[p] \in BreakerRecord /\ bs[p] \in BreakerRecord
      BY DEF BreakerHalf, AllGood
    <3>3. Taken(breaker[p]) \in Nat /\ bs[p].trials \in Nat
      BY <3>2 DEF Taken, BreakerRecord
    <3>4. IsFiniteSet(admitted[p]) /\ Cardinality(admitted[p]) \in Nat
      BY <3>1, FS_CardinalityType DEF Let
    <3>5. Cardinality(admitted[p]) <= Taken(breaker[p])
      BY <3>1, <3>4, FS_EmptySet DEF Let, Taken
    <3>6. QED
      BY <3>3, <3>4, <3>5
  <2>2. CASE bs[p].state # "HALF_OPEN"
    <3>1. admitted'[p] = {}
      BY <2>2 DEF SetBreakers
    <3>2. QED
      BY <2>2, <3>1, FS_EmptySet DEF Let
  <2>3. CASE bs[p].state = "HALF_OPEN" /\ letIn[p] = {} /\ Taken(breaker[p]) <= bs[p].trials
    <3>1. admitted'[p] = admitted[p]
      BY <2>3 DEF SetBreakers
    <3>2. QED
      BY <2>1, <2>3, <3>1 DEF Let
  <2>4. ASSUME NEW r \in Request, bs[p].state = "HALF_OPEN", letIn[p] = {r},
               Taken(breaker[p]) + 1 <= bs[p].trials
        PROVE  Let(bs[p], admitted'[p])
    <3>1. admitted'[p] = admitted[p] \cup {r}
      BY <2>4 DEF SetBreakers
    <3>2. /\ IsFiniteSet(admitted[p] \cup {r})
          /\ \/ Cardinality(admitted[p] \cup {r}) = Cardinality(admitted[p])
             \/ Cardinality(admitted[p] \cup {r}) = Cardinality(admitted[p]) + 1
      BY <2>1, FS_AddElement
    <3>3. Cardinality(admitted[p] \cup {r}) <= bs[p].trials
      BY <2>1, <2>4, <3>2
    <3>4. QED
      BY <2>4, <3>1, <3>2, <3>3 DEF Let
  <2>5. QED
    BY <2>2, <2>3, <2>4 DEF Paid
<1>4. BreakerInv'
  BY <1>3 DEF SetBreakers, BreakerInv
<1>5. QED
  BY <1>1, <1>2, <1>4 DEF BreakerHalf

\* Nobody is let in and every breaker has grown: paid for.
LEMMA GrownIsPaid ==
  ASSUME BreakerHalf, NEW bs \in [Provider -> BreakerRecord],
         \A p \in Provider : Grows(breaker[p], bs[p], 0),
         SetBreakers(bs, Nobody)
  PROVE  BreakerHalf'
<1>1. Nobody \in [Provider -> SUBSET Request] /\ \A p \in Provider : Nobody[p] = {}
  BY DEF Nobody
<1>2. \A p \in Provider : Taken(breaker[p]) \in Nat
  BY DEF BreakerHalf, AllGood, Good, BreakerRecord, Taken
<1>3. Paid(bs, Nobody)
  BY <1>1, <1>2 DEF Paid, Grows
<1>4. QED
  BY <1>1, <1>3, SetBreakersKeeps DEF Grows

\* An outcome recorded for one provider.
LEMMA OutcomeKeeps ==
  ASSUME BreakerHalf, NEW p \in Provider, NEW b, Good(b), b.state # "HALF_OPEN",
         SetBreakers([breaker EXCEPT ![p] = b], Nobody)
  PROVE  BreakerHalf'
<1> DEFINE bs == [breaker EXCEPT ![p] = b]
<1>1. bs \in [Provider -> BreakerRecord] /\ \A x \in Provider : Good(bs[x])
  BY DEF BreakerHalf, AllGood, Good
<1>2. Nobody \in [Provider -> SUBSET Request] /\ \A x \in Provider : Nobody[x] = {}
  BY DEF Nobody
<1>3. Paid(bs, Nobody)
  <2>1. SUFFICES ASSUME NEW x \in Provider, bs[x].state = "HALF_OPEN"
                 PROVE  Taken(breaker[x]) <= bs[x].trials
    BY <1>2 DEF Paid
  <2>2. x # p /\ bs[x] = breaker[x]
    BY <2>1 DEF BreakerHalf, AllGood
  <2>3. QED
    BY <2>1, <2>2 DEF BreakerHalf, AllGood, Good, BreakerRecord, Taken
<1>4. QED
  BY <1>1, <1>2, <1>3, SetBreakersKeeps

-----------------------------------------------------------------------------
(* The updates of a request record, each as a chain of one-field updates,  *)
(* with the fields RequestInv looks at.                                    *)

Results == {"none", "response", "provider_error", "circuit_open",
            "deadline", "cancelled"}

\* x and q agree on the numbers of RequestInv.
Counts(x, q) ==
    /\ x.calls = q.calls /\ x.failovers = q.failovers
    /\ x.attempt = q.attempt /\ x.left = q.left /\ x.wake = q.wake
    /\ x.late = q.late

LEMMA PcUpdate ==
  ASSUME NEW q \in RequestRecord, NEW v \in {"idle", "done"} \cup Awaiting
  PROVE  /\ [q EXCEPT !.pc = v] \in RequestRecord
         /\ [q EXCEPT !.pc = v].pc = v
         /\ Counts([q EXCEPT !.pc = v], q)
  BY DEF RequestRecord, Counts

LEMMA ResultUpdate ==
  ASSUME NEW q \in RequestRecord, NEW v \in Results
  PROVE  /\ [q EXCEPT !.result = v] \in RequestRecord
         /\ [q EXCEPT !.result = v].pc = q.pc
         /\ Counts([q EXCEPT !.result = v], q)
  BY DEF RequestRecord, Counts, Results

LEMMA CallingRecord ==
  ASSUME NEW q \in RequestRecord, NEW x, x = Calling(q)
  PROVE  /\ x \in RequestRecord
         /\ x.pc = "calling" /\ x.calls = q.calls + 1
         /\ x.failovers = q.failovers /\ x.attempt = q.attempt
         /\ x.left = q.left /\ x.late = IF q.left = 0 THEN q.late + 1 ELSE q.late
         /\ x.provider = q.provider
<1> DEFINE n == IF q.left = 0 THEN q.late + 1 ELSE q.late
           y == [q EXCEPT !.pc = "calling"]
           z == [y EXCEPT !.calls = q.calls + 1]
<1>1. y \in RequestRecord /\ y.pc = "calling" /\ Counts(y, q) /\ y.provider = q.provider
  BY PcUpdate DEF Awaiting, RequestRecord
<1>2. x = [z EXCEPT !.late = n]
  BY DEF RequestRecord, Calling
<1>3. q.calls + 1 \in Nat /\ n \in Nat
  BY DEF RequestRecord
<1> HIDE DEF y
<1>4. /\ z \in RequestRecord /\ z.pc = "calling" /\ z.calls = q.calls + 1
      /\ z.failovers = q.failovers /\ z.attempt = q.attempt /\ z.left = q.left
      /\ z.late = q.late /\ z.provider = q.provider
  BY <1>1, <1>3 DEF RequestRecord, Counts
<1> HIDE DEF z
<1>5. /\ [z EXCEPT !.late = n] \in RequestRecord
      /\ [z EXCEPT !.late = n].late = n
      /\ [z EXCEPT !.late = n].pc = z.pc /\ [z EXCEPT !.late = n].calls = z.calls
      /\ [z EXCEPT !.late = n].failovers = z.failovers
      /\ [z EXCEPT !.late = n].attempt = z.attempt
      /\ [z EXCEPT !.late = n].left = z.left
      /\ [z EXCEPT !.late = n].provider = z.provider
  <2> HIDE DEF n
  <2>1. QED
    BY <1>3, <1>4 DEF RequestRecord
<1>6. QED
  BY <1>2, <1>4, <1>5

LEMMA SelectingRecord ==
  ASSUME NEW q \in RequestRecord, NEW v \in Results,
         NEW x, x = [q EXCEPT !.pc = "selecting", !.result = v]
  PROVE  x \in RequestRecord /\ x.pc = "selecting" /\ Counts(x, q)
<1> DEFINE y == [q EXCEPT !.pc = "selecting"]
<1>1. y \in RequestRecord /\ y.pc = "selecting" /\ Counts(y, q)
  BY PcUpdate DEF Awaiting
<1>2. x = [y EXCEPT !.result = v]
  BY DEF RequestRecord
<1> HIDE DEF y
<1>3. /\ [y EXCEPT !.result = v] \in RequestRecord
      /\ [y EXCEPT !.result = v].pc = y.pc
      /\ Counts([y EXCEPT !.result = v], y)
  BY <1>1, ResultUpdate
<1>4. x \in RequestRecord /\ x.pc = y.pc /\ Counts(x, y)
  BY <1>2, <1>3
<1>5. QED
  BY <1>1, <1>4 DEF Counts

LEMMA TriedRecord ==
  ASSUME NEW q \in RequestRecord, NEW p \in Provider,
         NEW x, x = [q EXCEPT !.attempted = @ \cup {p}, !.attempt = 0]
  PROVE  /\ x \in RequestRecord
         /\ x.calls = q.calls /\ x.failovers = q.failovers /\ x.attempt = 0
         /\ x.left = q.left /\ x.late = q.late
<1> DEFINE y == [q EXCEPT !.attempted = q.attempted \cup {p}]
<1>1. q.attempted \cup {p} \in SUBSET Provider /\ 0 \in 0 .. MaxRetries
  BY ExecutorAssumption DEF RequestRecord
<1>2. y \in RequestRecord /\ Counts(y, q)
  BY <1>1 DEF RequestRecord, Counts
<1>3. x = [y EXCEPT !.attempt = 0]
  BY DEF RequestRecord
<1> HIDE DEF y
<1>4. QED
  BY <1>1, <1>2, <1>3 DEF RequestRecord, Counts

LEMMA SleepingRecord ==
  ASSUME NEW q \in RequestRecord, NEW d \in Nat, q.attempt < MaxRetries,
         NEW x, x = BackOff(q, d)
  PROVE  /\ x \in RequestRecord
         /\ x.pc = "sleeping" /\ x.calls = q.calls /\ x.failovers = q.failovers
         /\ x.attempt = q.attempt + 1 /\ x.left = q.left /\ x.late = q.late
<1> DEFINE y == [q EXCEPT !.pc = "sleeping"]
           z == [y EXCEPT !.wake = d]
           w == [z EXCEPT !.attempt = q.attempt + 1]
<1>1. x = [w EXCEPT !.result = "provider_error"]
  BY DEF RequestRecord, BackOff
<1>2. y \in RequestRecord /\ y.pc = "sleeping" /\ Counts(y, q)
  BY PcUpdate DEF Awaiting
<1> HIDE DEF y
<1>3. /\ z \in RequestRecord /\ z.pc = "sleeping" /\ z.calls = q.calls
      /\ z.failovers = q.failovers /\ z.left = q.left /\ z.late = q.late
  BY <1>2 DEF RequestRecord, Counts
<1> HIDE DEF z
<1>4. q.attempt + 1 \in 0 .. MaxRetries
  BY ExecutorAssumption DEF RequestRecord
<1>5. /\ w \in RequestRecord /\ w.pc = "sleeping" /\ w.calls = q.calls
      /\ w.failovers = q.failovers /\ w.left = q.left /\ w.late = q.late
      /\ w.attempt = q.attempt + 1
  BY <1>3, <1>4 DEF RequestRecord
<1> HIDE DEF w
<1>6. "provider_error" \in Results
  BY DEF Results
<1>7. /\ [w EXCEPT !.result = "provider_error"] \in RequestRecord
      /\ [w EXCEPT !.result = "provider_error"].pc = w.pc
      /\ Counts([w EXCEPT !.result = "provider_error"], w)
  BY <1>5, <1>6, ResultUpdate
<1>8. x \in RequestRecord /\ x.pc = w.pc /\ Counts(x, w)
  BY <1>1, <1>7
<1>9. QED
  BY <1>5, <1>8 DEF Counts

LEMMA MovedRecord ==
  ASSUME NEW q \in RequestRecord, q.failovers <= MaxFailover, NEW p \in Provider,
         NEW x, x = [q EXCEPT !.provider = p, !.failovers = @ + 1]
  PROVE  /\ x \in RequestRecord
         /\ x.calls = q.calls /\ x.failovers = q.failovers + 1 /\ x.left = q.left
         /\ x.late = q.late
<1> DEFINE y == [q EXCEPT !.provider = p]
<1>1. q.failovers + 1 \in 0 .. MaxFailover + 1
  BY ExecutorAssumption DEF RequestRecord
<1>2. y \in RequestRecord /\ Counts(y, q)
  BY DEF RequestRecord, Counts
<1>3. x = [y EXCEPT !.failovers = q.failovers + 1]
  BY DEF RequestRecord
<1> HIDE DEF y
<1>4. QED
  BY <1>1, <1>2, <1>3 DEF RequestRecord, Counts

Down(n) == IF n > 0 THEN n - 1 ELSE 0

LEMMA TickedRecord ==
  ASSUME NEW q \in RequestRecord,
         NEW x, x = Waited(q)
  PROVE  /\ x \in RequestRecord
         /\ x.pc = q.pc /\ x.calls = q.calls /\ x.failovers = q.failovers
         /\ x.attempt = q.attempt /\ x.left = Down(q.left) /\ x.late = q.late
<1> DEFINE y == [q EXCEPT !.left = Down(q.left)]
<1>1. Down(q.left) \in 0 .. DeadlineTicks /\ Down(q.wake) \in Nat
  BY ExecutorAssumption DEF RequestRecord, Down
<1>2. x = [y EXCEPT !.wake = Down(q.wake)]
  BY DEF RequestRecord, Down, Waited
<1>3. /\ y \in RequestRecord /\ y.pc = q.pc /\ y.calls = q.calls
      /\ y.failovers = q.failovers /\ y.attempt = q.attempt
      /\ y.left = Down(q.left) /\ y.late = q.late
  BY <1>1 DEF RequestRecord
<1> HIDE DEF y
<1>4. QED
  BY <1>1, <1>2, <1>3 DEF RequestRecord

-----------------------------------------------------------------------------
(* Requests.                                                               *)

RequestHalf ==
    req \in [Request -> RequestRecord] /\ \A r \in Request : RequestInv(req[r])

LEMMA BecomeKeeps ==
  ASSUME RequestHalf, NEW r \in Request, NEW q \in RequestRecord, RequestInv(q),
         Become(r, q)
  PROVE  RequestHalf'
  BY DEF RequestHalf, Become

\* A request that ends keeps nothing but its result.
LEMMA FinishKeeps ==
  ASSUME RequestHalf, NEW r \in Request, NEW q \in RequestRecord,
         NEW what \in Results,
         Finish(r, q, what)
  PROVE  RequestHalf'
<1> DEFINE x == [pc |-> "done", provider |-> q.provider, failover |-> TRUE,
                 attempted |-> {}, attempt |-> 0, failovers |-> 0,
                 left |-> 0, wake |-> 0, calls |-> 0, late |-> 0,
                 result |-> what]
<1>1. x \in RequestRecord
  BY ExecutorAssumption DEF RequestRecord, Results
<1>2. 0 <= (1 + MaxFailover) * Tries /\ 0 <= MaxFailover
  <2>1. 1 + MaxFailover \in Nat /\ Tries \in Nat /\ MaxFailover \in Nat
    BY ExecutorAssumption DEF Tries
  <2>2. \A a \in Nat, b \in Nat : 0 <= a * b
    OBVIOUS
  <2>3. QED
    BY <2>1, <2>2
<1>3. RequestInv(x)
  BY <1>2 DEF RequestInv, LateOK
<1>4. QED
  BY <1>1, <1>3, BecomeKeeps DEF Finish

\* Calls of whole providers never exceed the total.
LEMMA CallsFit ==
  ASSUME NEW f \in Nat, f <= MaxFailover
  PROVE  /\ f * Tries \in Nat /\ Tries \in Nat /\ (1 + MaxFailover) * Tries \in Nat
         /\ f * Tries + Tries <= (1 + MaxFailover) * Tries
         /\ f * Tries + Tries = (f + 1) * Tries
<1>1. Tries \in Nat /\ MaxFailover \in Nat
  BY ExecutorAssumption DEF Tries
<1>2. \A k \in Nat, a \in Nat, b \in Nat : a <= b => a * k <= b * k
  OBVIOUS
<1>3. \A k \in Nat, a \in Nat : a * k \in Nat /\ (a + 1) * k = a * k + k
  OBVIOUS
<1>4. (f + 1) * Tries <= (1 + MaxFailover) * Tries
  BY <1>1, <1>2
<1>5. QED
  BY <1>1, <1>3, <1>4

\* A request about to try a provider: what it has called so far is covered by
\* the providers it has given up.
Ready(q) ==
    /\ q \in RequestRecord
    /\ q.calls <= q.failovers * Tries
    /\ q.calls <= (1 + MaxFailover) * Tries
    /\ LateOK(q)

\* One turn of the outer loop keeps both halves.
LEMMA TryProviderKeeps ==
  ASSUME BreakerHalf, RequestHalf, NEW r \in Request, NEW q, Ready(q),
         NEW bs \in [Provider -> BreakerRecord],
         \A p \in Provider : Grows(breaker[p], bs[p], 0),
         TryProvider(r, q, bs)
  PROVE  BreakerHalf' /\ RequestHalf'
<1> DEFINE p == q.provider
           tried == [q EXCEPT !.attempted = @ \cup {p}, !.attempt = 0]
           asked == [bs EXCEPT ![p] = AfterCanExecute(@)]
<1>1. q \in RequestRecord /\ p \in Provider
      /\ q.result \in Results /\ "deadline" \in Results /\ "circuit_open" \in Results
      /\ q.calls <= (1 + MaxFailover) * Tries
  BY DEF Ready, RequestRecord, Results
<1>2. /\ tried \in RequestRecord
      /\ tried.calls = q.calls /\ tried.failovers = q.failovers /\ tried.attempt = 0
      /\ tried.left = q.left /\ tried.late = q.late
  BY <1>1, TriedRecord
<1>3. \A x \in Provider : Good(breaker[x]) /\ Good(bs[x])
  BY DEF BreakerHalf, AllGood, Grows
<1>4. /\ asked \in [Provider -> BreakerRecord]
      /\ \A x \in Provider : Grows(breaker[x], asked[x], 0)
  <2>1. Grows(bs[p], AfterCanExecute(bs[p]), 0)
    BY <1>1, <1>3, GrowsCheck
  <2>2. Grows(breaker[p], AfterCanExecute(bs[p]), 0)
    BY <1>1, <1>3, <2>1, GrowsTwice
  <2>3. AfterCanExecute(bs[p]) \in BreakerRecord
    BY <2>1 DEF Grows, Good
  <2>4. QED
    BY <1>1, <2>2, <2>3
<1>5. CASE SetBreakers(bs, Nobody) /\ Finish(r, q, q.result)
  BY <1>1, <1>5, GrownIsPaid, FinishKeeps
<1>6. CASE SetBreakers(bs, Nobody) /\ Finish(r, q, "deadline")
  BY <1>1, <1>6, GrownIsPaid, FinishKeeps
<1>7. CASE /\ q.failovers <= MaxFailover /\ q.left # 0
           /\ CanExecute(bs[p])
           /\ SetBreakers(asked, [Nobody EXCEPT ![p] = {r}])
           /\ Call(r, tried)
  <2>1. BreakerHalf'
    <3> DEFINE letIn == [Nobody EXCEPT ![p] = {r}]
    <3>1. letIn \in [Provider -> SUBSET Request] /\ letIn[p] = {r}
          /\ \A x \in Provider \ {p} : letIn[x] = {}
      BY <1>1 DEF Nobody
    <3>2. Grows(breaker[p], asked[p], 1)
      <4>1. Grows(bs[p], AfterCanExecute(bs[p]), 1)
        BY <1>1, <1>3, <1>7, GrowsCheck
      <4>2. Grows(breaker[p], AfterCanExecute(bs[p]), 1)
        BY <1>1, <1>3, <4>1, GrowsTwice
      <4>3. QED
        BY <1>1, <4>2
    <3>3. \A x \in Provider : Taken(breaker[x]) \in Nat /\ Good(asked[x])
      BY <1>4 DEF BreakerHalf, AllGood, Good, BreakerRecord, Taken, Grows
    <3> HIDE DEF asked, letIn
    <3>4. Paid(asked, letIn)
      <4>1. SUFFICES ASSUME NEW x \in Provider, asked[x].state = "HALF_OPEN"
                     PROVE  \/ letIn[x] = {} /\ Taken(breaker[x]) <= asked[x].trials
                            \/ \E y \in Request : letIn[x] = {y}
                                 /\ Taken(breaker[x]) + 1 <= asked[x].trials
        BY DEF Paid
      <4>2. CASE x = p
        BY <3>1, <3>2, <4>1, <4>2 DEF Grows
      <4>3. CASE x # p
        BY <1>4, <3>1, <3>3, <4>1, <4>3 DEF Grows
      <4>4. QED
        BY <4>2, <4>3
    <3>5. SetBreakers(asked, letIn)
      BY <1>7 DEF letIn
    <3>6. QED
      BY <1>4, <3>1, <3>3, <3>4, <3>5, SetBreakersKeeps
  <2>2. RequestHalf'
    <3> DEFINE x == Calling(tried)
    <3>1. /\ x \in RequestRecord
          /\ x.pc = "calling" /\ x.calls = q.calls + 1
          /\ x.failovers = q.failovers /\ x.attempt = 0
          /\ x.late = 0
      <4> HIDE DEF tried
      <4>1. q.late = 0
        BY <1>7 DEF Ready, LateOK
      <4>2. QED
        BY <1>2, <1>7, <4>1, CallingRecord
    <3>2. q.calls \in Nat /\ q.failovers \in Nat /\ q.calls <= q.failovers * Tries
      BY <1>1, ExecutorAssumption DEF Ready, RequestRecord
    <3>3. /\ q.failovers * Tries \in Nat /\ Tries \in Nat /\ Tries >= 1
          /\ (1 + MaxFailover) * Tries \in Nat
          /\ q.failovers * Tries + Tries <= (1 + MaxFailover) * Tries
      BY <1>7, <3>2, CallsFit, ExecutorAssumption DEF Tries
    <3> HIDE DEF x
    <3>4. RequestInv(x)
      <4>1. x.calls <= x.failovers * Tries + x.attempt + 1
        BY <3>1, <3>2, <3>3
      <4>2. x.calls <= (1 + MaxFailover) * Tries
        BY <3>1, <3>2, <3>3
      <4>3. QED
        BY <1>7, <3>1, <4>1, <4>2 DEF RequestInv, LateOK
    <3>5. Become(r, x)
      BY <1>7 DEF Call, x
    <3>6. QED
      BY <3>1, <3>4, <3>5, BecomeKeeps
  <2>3. QED
    BY <2>1, <2>2
<1>8. CASE /\ q.failovers <= MaxFailover
           /\ SetBreakers(asked, Nobody)
           /\ IF q.failover
                THEN Become(r, [tried EXCEPT !.pc = "selecting",
                                             !.result = "circuit_open"])
                ELSE Finish(r, tried, "circuit_open")
  <2>1. BreakerHalf'
    BY <1>4, <1>8, GrownIsPaid
  <2>2. CASE ~ q.failover
    BY <1>1, <1>2, <1>8, <2>1, <2>2, FinishKeeps
  <2>3. CASE q.failover
    <3> DEFINE x == [tried EXCEPT !.pc = "selecting", !.result = "circuit_open"]
    <3>1. /\ x \in RequestRecord
          /\ x.pc = "selecting" /\ x.calls = q.calls /\ x.failovers = q.failovers
          /\ x.left = q.left /\ x.late = q.late
      <4> HIDE DEF tried
      <4>1. x \in RequestRecord /\ x.pc = "selecting" /\ Counts(x, tried)
        BY <1>1, <1>2, SelectingRecord
      <4>2. QED
        BY <1>2, <4>1 DEF Counts
    <3>2. q.calls \in Nat /\ q.failovers \in Nat /\ q.calls <= q.failovers * Tries
      BY <1>1, ExecutorAssumption DEF Ready, RequestRecord
    <3>3. q.failovers * Tries \in Nat /\ Tries \in Nat
      BY <1>8, <3>2, CallsFit
    <3>4. Become(r, x)
      BY <1>8, <2>3
    <3> HIDE DEF x
    <3>5. RequestInv(x)
      <4>1. x.calls <= x.failovers * Tries + Tries
        BY <3>1, <3>2, <3>3
      <4>2. QED
        BY <1>1, <1>8, <3>1, <4>1 DEF RequestInv, LateOK, Ready
    <3>6. QED
      BY <2>1, <3>1, <3>4, <3>5, BecomeKeeps
  <2>4. QED
    BY <2>2, <2>3
<1>9. QED
  BY <1>5, <1>6, <1>7, <1>8 DEF TryProvider, GoesOn, DeadlineExceeded

-----------------------------------------------------------------------------
(* The actions.                                                            *)

ExecInv == BreakerHalf /\ RequestHalf

\* A recorded result is one of the listed ones.
LEMMA ResultNames ==
  /\ "response" \in Results /\ "provider_error" \in Results
  /\ "deadline" \in Results /\ "cancelled" \in Results
  /\ "none" \in Results
  BY DEF Results

\* Breakers and history are untouched.
LEMMA BreakersAlone ==
  ASSUME BreakerHalf, UNCHANGED <<breaker, admitted>>
  PROVE  BreakerHalf'
  BY DEF BreakerHalf, AllGood, BreakerInv

LEMMA StartKeeps ==
  ASSUME ExecInv, NEW r \in Request, Start(r)
  PROVE  ExecInv'
<1>1. PICK p \in Provider, f \in BOOLEAN : TryProvider(r, NewContext(p, f), breaker)
  BY DEF Start
<1>2. NewContext(p, f) \in RequestRecord
  BY ExecutorAssumption DEF NewContext, RequestRecord
<1>3. NewContext(p, f).calls = 0 /\ NewContext(p, f).failovers = 0
      /\ NewContext(p, f).late = 0
  BY DEF NewContext
<1>4. 0 * Tries = 0 /\ (1 + MaxFailover) * Tries \in Nat
  BY CallsFit, ExecutorAssumption DEF Tries
<1>5. Ready(NewContext(p, f))
  BY <1>2, <1>3, <1>4 DEF Ready, LateOK
<1>6. \A x \in Provider : Grows(breaker[x], breaker[x], 0)
  BY GrowsSame DEF ExecInv, BreakerHalf, AllGood
<1>7. breaker \in [Provider -> BreakerRecord]
  BY DEF ExecInv, BreakerHalf, AllGood
<1>8. QED
  BY <1>1, <1>5, <1>6, <1>7, TryProviderKeeps DEF ExecInv

LEMMA CallSucceedsKeeps ==
  ASSUME ExecInv, NEW r \in Request, CallSucceeds(r)
  PROVE  ExecInv'
<1> DEFINE p == req[r].provider
<1>1. req[r] \in RequestRecord /\ p \in Provider
      /\ req[r].calls <= (1 + MaxFailover) * Tries
  BY DEF ExecInv, RequestHalf, RequestInv, RequestRecord
<1>2. Good(breaker[p])
  BY <1>1 DEF ExecInv, BreakerHalf, AllGood
<1>3. /\ Good(AfterRecordSuccess(breaker[p]))
      /\ AfterRecordSuccess(breaker[p]).state # "HALF_OPEN"
  BY <1>2, RecordSuccessGood, OutcomeEndsTrial
<1>4. SetBreakers([breaker EXCEPT ![p] = AfterRecordSuccess(breaker[p])], Nobody)
  BY DEF CallSucceeds
<1>5. BreakerHalf'
  BY <1>1, <1>3, <1>4, OutcomeKeeps DEF ExecInv
<1>6. RequestHalf'
  BY <1>1, ResultNames, FinishKeeps DEF ExecInv, CallSucceeds
<1>7. QED
  BY <1>5, <1>6 DEF ExecInv

LEMMA CallFailsForGoodKeeps ==
  ASSUME ExecInv, NEW r \in Request, CallFailsForGood(r) \/ Cancel(r)
  PROVE  ExecInv'
<1>1. req[r] \in RequestRecord /\ req[r].calls <= (1 + MaxFailover) * Tries
  BY DEF ExecInv, RequestHalf, RequestInv
<1>2. UNCHANGED <<breaker, admitted>>
  BY DEF CallFailsForGood, Cancel
<1>3. BreakerHalf'
  BY <1>2, BreakersAlone DEF ExecInv
<1>4. RequestHalf'
  BY <1>1, ResultNames, FinishKeeps DEF ExecInv, CallFailsForGood, Cancel
<1>5. QED
  BY <1>3, <1>4 DEF ExecInv

\* A retry is one of the tries its provider is allowed, and is slept for only
\* while there is time left, so by a request without a late call.
LEMMA CallFailsRetryKeeps ==
  ASSUME ExecInv, NEW r \in Request, CallFailsRetry(r)
  PROVE  ExecInv'
<1> DEFINE q == req[r]
<1>1. q \in RequestRecord /\ RequestInv(q) /\ q.pc = "calling" /\ q.attempt < MaxRetries
  BY ExecutorAssumption DEF ExecInv, RequestHalf, CallFailsRetry, MaxAttempts
<1>2. PICK d \in DelaysOf(q.attempt) :
        IF q.left <= d
          THEN Finish(r, q, "deadline")
          ELSE Become(r, BackOff(q, d))
  BY DEF CallFailsRetry
<1>3. d \in Nat
  BY ExecutorAssumption DEF DelaysOf
<1>4. UNCHANGED <<breaker, admitted>>
  BY DEF CallFailsRetry
<1> HIDE DEF q
<1>5. CASE q.left <= d
  <2>1. q.calls <= (1 + MaxFailover) * Tries
    BY <1>1 DEF RequestInv
  <2>2. RequestHalf'
    BY <1>1, <1>2, <1>5, <2>1, ResultNames, FinishKeeps DEF ExecInv
  <2>3. QED
    BY <1>4, <2>2, BreakersAlone DEF ExecInv
<1>6. CASE ~ (q.left <= d)
  <2> DEFINE x == BackOff(q, d)
  <2>1. /\ x \in RequestRecord
        /\ x.pc = "sleeping" /\ x.calls = q.calls /\ x.failovers = q.failovers
        /\ x.attempt = q.attempt + 1 /\ x.left = q.left /\ x.late = q.late
    BY <1>1, <1>3, SleepingRecord
  <2>2. Become(r, x)
    BY <1>2, <1>6
  <2> HIDE DEF x
  <2>3. /\ q.failovers \in Nat /\ q.failovers <= MaxFailover
        /\ q.attempt \in Nat /\ q.calls \in Nat /\ q.left \in Nat
        /\ q.calls <= q.failovers * Tries + q.attempt + 1
        /\ q.calls <= (1 + MaxFailover) * Tries
    BY <1>1, ExecutorAssumption DEF RequestRecord, RequestInv, Awaiting
  <2>4. q.failovers * Tries \in Nat
    BY <2>3, CallsFit
  <2>5. x.calls <= x.failovers * Tries + x.attempt
    BY <2>1, <2>3, <2>4
  <2>6. x.late = 0
    BY <1>1, <1>3, <1>6, <2>1 DEF RequestInv, LateOK
  <2>7. RequestInv(x)
    BY <2>1, <2>3, <2>5, <2>6 DEF RequestInv, LateOK
  <2>8. RequestHalf'
    BY <2>1, <2>2, <2>7, BecomeKeeps DEF ExecInv
  <2>9. QED
    BY <1>4, <2>8, BreakersAlone DEF ExecInv
<1>7. QED
  BY <1>5, <1>6

LEMMA CallFailsLastKeeps ==
  ASSUME ExecInv, NEW r \in Request, NEW counted \in BOOLEAN, CallFailsLast(r, counted)
  PROVE  ExecInv'
<1> DEFINE q == req[r]
           p == q.provider
<1>1. q \in RequestRecord /\ RequestInv(q) /\ q.pc = "calling"
      /\ q.attempt = MaxRetries /\ p \in Provider
  BY ExecutorAssumption DEF ExecInv, RequestHalf, CallFailsLast, RequestRecord, MaxAttempts
<1>2. BreakerHalf'
  <2>1. CASE counted
    <3>1. Good(breaker[p])
      BY <1>1 DEF ExecInv, BreakerHalf, AllGood
    <3>2. /\ Good(AfterRecordFailure(breaker[p]))
          /\ AfterRecordFailure(breaker[p]).state # "HALF_OPEN"
      BY <3>1, RecordFailureGood, OutcomeEndsTrial
    <3>3. SetBreakers([breaker EXCEPT ![p] = AfterRecordFailure(breaker[p])], Nobody)
      BY <2>1 DEF CallFailsLast
    <3>4. QED
      BY <1>1, <3>2, <3>3, OutcomeKeeps DEF ExecInv
  <2>2. CASE ~ counted
    BY <2>2, BreakersAlone DEF CallFailsLast, ExecInv
  <2>3. QED
    BY <2>1, <2>2
<1>3. RequestHalf'
  <2>1. /\ q.failovers \in Nat /\ q.failovers <= MaxFailover
        /\ q.calls \in Nat
        /\ q.calls <= q.failovers * Tries + q.attempt + 1
        /\ q.calls <= (1 + MaxFailover) * Tries
    BY <1>1, ExecutorAssumption DEF RequestRecord, RequestInv, Awaiting
  <2>2. CASE ~ (q.failover /\ q.failovers < MaxFailover)
    <3>1. Finish(r, q, "provider_error")
      BY <2>2 DEF CallFailsLast
    <3> HIDE DEF q
    <3>2. QED
      BY <1>1, <2>1, <3>1, ResultNames, FinishKeeps DEF ExecInv
  <2>3. CASE q.failover /\ q.failovers < MaxFailover
    <3> DEFINE x == [q EXCEPT !.pc = "selecting", !.result = "provider_error"]
    <3>1. Become(r, x)
      BY <2>3 DEF CallFailsLast
    <3> HIDE DEF q
    <3>2. x \in RequestRecord /\ x.pc = "selecting" /\ Counts(x, q)
      BY <1>1, ResultNames, SelectingRecord
    <3> HIDE DEF x
    <3>3. q.failovers * Tries \in Nat /\ Tries = MaxRetries + 1 /\ MaxRetries \in Nat
      BY <2>1, CallsFit, ExecutorAssumption DEF Tries
    <3>4. x.calls <= x.failovers * Tries + Tries
      BY <1>1, <2>1, <3>2, <3>3 DEF Counts
    <3>5. RequestInv(x)
      BY <1>1, <2>1, <3>2, <3>4 DEF RequestInv, Counts, LateOK
    <3>6. QED
      BY <3>1, <3>2, <3>5, BecomeKeeps DEF ExecInv
  <2>4. QED
    BY <2>2, <2>3
<1>4. QED
  BY <1>2, <1>3 DEF ExecInv

LEMMA WakeKeeps ==
  ASSUME ExecInv, NEW r \in Request, Wake(r)
  PROVE  ExecInv'
<1> DEFINE q == req[r]
           x == Calling(q)
<1>1. q \in RequestRecord /\ RequestInv(q) /\ q.pc = "sleeping" /\ Become(r, x)
  BY DEF ExecInv, RequestHalf, Wake, Call
<1>2. BreakerHalf'
  BY BreakersAlone DEF ExecInv, Wake
<1> HIDE DEF q
<1>3. /\ x \in RequestRecord
      /\ x.pc = "calling" /\ x.calls = q.calls + 1
      /\ x.failovers = q.failovers /\ x.attempt = q.attempt
      /\ x.left = q.left /\ x.late = IF q.left = 0 THEN q.late + 1 ELSE q.late
  BY <1>1, CallingRecord
<1> HIDE DEF x
<1>4. /\ q.failovers \in Nat /\ q.failovers <= MaxFailover
      /\ q.attempt \in Nat /\ q.attempt <= MaxRetries /\ q.calls \in Nat
      /\ q.calls <= q.failovers * Tries + q.attempt
  BY <1>1, ExecutorAssumption DEF RequestRecord, RequestInv, Awaiting
<1>5. /\ q.failovers * Tries \in Nat /\ (1 + MaxFailover) * Tries \in Nat
      /\ q.failovers * Tries + Tries <= (1 + MaxFailover) * Tries
      /\ Tries = 1 + MaxRetries /\ MaxRetries \in Nat
  BY <1>4, CallsFit, ExecutorAssumption DEF Tries
<1>6. /\ x.calls <= x.failovers * Tries + x.attempt + 1
      /\ x.calls <= (1 + MaxFailover) * Tries
  BY <1>3, <1>4, <1>5
<1>7. LateOK(x)
  <2>1. q.late = 0
    BY <1>1 DEF RequestInv
  <2>2. QED
    BY <1>3, <2>1 DEF LateOK
<1>8. RequestInv(x)
  BY <1>3, <1>4, <1>6, <1>7 DEF RequestInv
<1>9. QED
  BY <1>1, <1>2, <1>3, <1>8, BecomeKeeps DEF ExecInv

\* The provider given up has had at most its tries, so the next one starts
\* with room for its own.
LEMMA SelectFallbackKeeps ==
  ASSUME ExecInv, NEW r \in Request, SelectFallback(r)
  PROVE  ExecInv'
<1> DEFINE q == req[r]
<1>1. q \in RequestRecord /\ RequestInv(q) /\ q.pc = "selecting"
  BY DEF ExecInv, RequestHalf, SelectFallback
<1>2. PICK models \in [Provider -> 0 .. MaxModels] :
        LET eligible  == {p \in Provider \ q.attempted : models[p] > 0}
            available == {p \in eligible : CanExecute(breaker[p])}
            probed    == ProbeAll(models, eligible)
        IN  \E capable \in SUBSET available :
              \/ /\ capable = {}
                 /\ SetBreakers(probed, Nobody)
                 /\ Finish(r, q, q.result)
              \/ \E p \in capable :
                   TryProvider(r, [q EXCEPT !.provider = p,
                                            !.failovers = @ + 1], probed)
  BY DEF SelectFallback
<1> DEFINE eligible  == {p \in Provider \ q.attempted : models[p] > 0}
           probed    == ProbeAll(models, eligible)
<1>3. /\ probed \in [Provider -> BreakerRecord]
      /\ \A p \in Provider : Grows(breaker[p], probed[p], 0)
  <2>1. \A p \in Provider : Good(breaker[p]) /\ models[p] \in Nat
    <3>1. \A p \in Provider : Good(breaker[p])
      BY DEF ExecInv, BreakerHalf, AllGood
    <3>2. MaxModels \in Nat
      BY ExecutorAssumption
    <3>3. \A p \in Provider : models[p] \in 0 .. MaxModels
      OBVIOUS
    <3>4. \A n \in 0 .. MaxModels : n \in Nat
      BY <3>2
    <3>5. QED
      BY <3>1, <3>3, <3>4
  <2>2. \A p \in Provider : /\ Grows(breaker[p], AfterProbes(breaker[p], models[p]), 0)
                            /\ Grows(breaker[p], breaker[p], 0)
    BY <2>1, GrowsProbes, GrowsSame
  <2> HIDE DEF eligible
  <2>3. \A p \in Provider : Grows(breaker[p], probed[p], 0)
    BY <2>2 DEF ProbeAll
  <2>4. \A p \in Provider : probed[p] \in BreakerRecord
    BY <2>3 DEF Grows, Good
  <2>5. probed \in [Provider -> BreakerRecord]
    BY <2>4 DEF ProbeAll
  <2>6. QED
    BY <2>3, <2>5
<1>4. /\ q.failovers \in Nat /\ q.failovers <= MaxFailover /\ q.calls \in Nat
      /\ q.calls <= q.failovers * Tries + Tries
      /\ q.calls <= (1 + MaxFailover) * Tries
      /\ q.result \in Results
  BY <1>1, ExecutorAssumption DEF RequestRecord, RequestInv, Awaiting, Results
<1>5. \/ SetBreakers(probed, Nobody) /\ Finish(r, q, q.result)
      \/ \E p \in Provider : TryProvider(r, [q EXCEPT !.provider = p,
                                                     !.failovers = @ + 1], probed)
  BY <1>2
<1> HIDE DEF q, probed
<1>6. CASE SetBreakers(probed, Nobody) /\ Finish(r, q, q.result)
  <2>1. BreakerHalf'
    BY <1>3, <1>6, GrownIsPaid DEF ExecInv
  <2>2. RequestHalf'
    BY <1>1, <1>4, <1>6, FinishKeeps DEF ExecInv
  <2>3. QED
    BY <2>1, <2>2 DEF ExecInv
<1>7. ASSUME NEW p \in Provider, NEW x, x = [q EXCEPT !.provider = p, !.failovers = @ + 1],
             TryProvider(r, x, probed)
      PROVE  ExecInv'
  <2>1. /\ x \in RequestRecord
        /\ x.calls = q.calls /\ x.failovers = q.failovers + 1
        /\ x.left = q.left /\ x.late = q.late
    BY <1>1, <1>4, <1>7, MovedRecord
  <2>2. q.failovers * Tries + Tries = (q.failovers + 1) * Tries
    BY <1>4, CallsFit
  <2>3. Ready(x)
    BY <1>1, <1>4, <2>1, <2>2 DEF Ready, RequestInv, LateOK
  <2>4. QED
    BY <1>3, <1>7, <2>3, TryProviderKeeps DEF ExecInv
<1>8. QED
  BY <1>5, <1>6, <1>7

LEMMA TickKeeps ==
  ASSUME ExecInv, Tick
  PROVE  ExecInv'
<1>1. BreakerHalf'
  <2>1. \A p \in Provider : /\ Good(breaker[p])
                            /\ breaker'[p] = Older(breaker[p])
    BY DEF ExecInv, BreakerHalf, AllGood, Tick, TimePasses
  <2>2. \A p \in Provider : /\ Good(breaker'[p])
                            /\ breaker'[p].state = breaker[p].state
                            /\ breaker'[p].trials = breaker[p].trials
    <3>1. SUFFICES ASSUME NEW b, Good(b)
                   PROVE  /\ Good(Older(b)) /\ Older(b).state = b.state
                          /\ Older(b).trials = b.trials
      BY <2>1
    <3>2. QED
      BY <3>1, OlderGood DEF Older, Good, BreakerRecord
  <2>3. AllGood'
    BY <2>2 DEF AllGood, Good, Tick, TimePasses
  <2>4. admitted' = admitted
    BY DEF Tick
  <2>5. QED
    BY <2>2, <2>3, <2>4 DEF ExecInv, BreakerHalf, BreakerInv, Let
<1>2. ASSUME NEW r \in Request
      PROVE  req'[r] \in RequestRecord /\ RequestInv(req'[r])
  <2> DEFINE q == req[r]
             x == Waited(q)
  <2>1. /\ q \in RequestRecord /\ RequestInv(q)
        /\ req'[r] = IF q.pc \in Awaiting THEN x ELSE q
    <3>1. q \in RequestRecord /\ RequestInv(q)
      BY DEF ExecInv, RequestHalf
    <3>2. req' = [y \in Request |-> IF req[y].pc \in Awaiting
                                      THEN Waited(req[y]) ELSE req[y]]
      BY DEF Tick
    <3>3. req'[r] = IF q.pc \in Awaiting THEN x ELSE q
      BY <3>2
    <3>4. QED
      BY <3>1, <3>3
  <2>2. CASE q.pc \notin Awaiting
    <3>1. req'[r] = q
      BY <2>1, <2>2
    <3> HIDE DEF q
    <3>2. QED
      BY <2>1, <3>1
  <2>3. CASE q.pc \in Awaiting
    <3>1. req'[r] = x
      BY <2>1, <2>3
    <3> HIDE DEF q
    <3>2. /\ x \in RequestRecord
          /\ x.pc = q.pc /\ x.calls = q.calls /\ x.failovers = q.failovers
          /\ x.attempt = q.attempt /\ x.left = Down(q.left) /\ x.late = q.late
      BY <2>1, TickedRecord
    <3> HIDE DEF x
    <3>3. LateOK(x)
      BY <2>1, <3>2 DEF RequestInv, LateOK, Down
    <3>4. RequestInv(x)
      BY <2>1, <3>2, <3>3 DEF RequestInv
    <3>5. QED
      BY <3>1, <3>2, <3>4
  <2>4. QED
    BY <2>2, <2>3
<1>3. RequestHalf'
  BY <1>2 DEF RequestHalf, Tick
<1>4. QED
  BY <1>1, <1>3 DEF ExecInv

-----------------------------------------------------------------------------
(* The theorems.                                                           *)

LEMMA ExecInvInit == ASSUME ExecInit PROVE ExecInv
<1>1. PICK p \in Provider : req = [r \in Request |-> NewContext(p, TRUE)]
  BY DEF ExecInit
<1>2. NewContext(p, TRUE) \in RequestRecord
  BY ExecutorAssumption DEF NewContext, RequestRecord
<1>3. NewContext(p, TRUE).pc = "idle" /\ NewContext(p, TRUE).calls = 0
      /\ NewContext(p, TRUE).late = 0 /\ NewContext(p, TRUE).failovers = 0
  BY DEF NewContext
<1>4. (1 + MaxFailover) * Tries \in Nat
  BY CallsFit, ExecutorAssumption DEF Tries
<1>5. RequestInv(NewContext(p, TRUE))
  <2>1. \A n \in Nat : 0 <= n
    OBVIOUS
  <2>2. NewContext(p, TRUE).calls <= (1 + MaxFailover) * Tries
    BY <1>3, <1>4, <2>1
  <2>3. NewContext(p, TRUE).failovers <= MaxFailover
    BY <1>3, <2>1, ExecutorAssumption
  <2>4. QED
    BY <1>3, <2>2, <2>3 DEF RequestInv, LateOK
<1>6. RequestHalf
  BY <1>1, <1>2, <1>5 DEF RequestHalf
<1>7. \A x \in Provider : breaker[x] = NewBreaker /\ admitted[x] = {}
  BY DEF ExecInit, BreakerInit, Nobody
<1>8. Good(NewBreaker) /\ NewBreaker.state = "CLOSED"
  BY NewBreakerGood DEF NewBreaker
<1>9. BreakerHalf
  BY <1>7, <1>8, FS_EmptySet
  DEF BreakerHalf, AllGood, Good, BreakerInv, Let, ExecInit, BreakerInit, Nobody
<1>10. QED
  BY <1>6, <1>9 DEF ExecInv

LEMMA ExecInvStep == ASSUME ExecInv, [ExecNext]_execVars PROVE ExecInv'
<1>1. CASE UNCHANGED execVars
  BY <1>1 DEF ExecInv, BreakerHalf, RequestHalf, AllGood, BreakerInv, execVars
<1>2. CASE Tick
  BY <1>2, TickKeeps
<1>3. ASSUME NEW r \in Request,
             \/ Start(r) \/ CallSucceeds(r) \/ CallFailsForGood(r) \/ CallFailsRetry(r)
             \/ \E counted \in BOOLEAN : CallFailsLast(r, counted)
             \/ Wake(r) \/ SelectFallback(r) \/ Cancel(r)
      PROVE  ExecInv'
  BY <1>3, StartKeeps, CallSucceedsKeeps, CallFailsForGoodKeeps, CallFailsRetryKeeps,
     CallFailsLastKeeps, WakeKeeps, SelectFallbackKeeps
<1>4. QED
  BY <1>1, <1>2, <1>3 DEF ExecNext

LEMMA ExecInvAlways == ExecSpec => []ExecInv
<1>1. ExecInit => ExecInv
  BY ExecInvInit
<1>2. ExecInv /\ [ExecNext]_execVars => ExecInv'
  BY ExecInvStep
<1>3. QED
  BY <1>1, <1>2, PTL DEF ExecSpec

\* Every state of every execution is well typed: no counter of a request, a
\* breaker or the history leaves its range, however requests interleave.
THEOREM ExecutorTyped == ExecSpec => []ExecTypeOK
<1>1. ExecInv => ExecTypeOK
  BY DEF ExecInv, BreakerHalf, RequestHalf, RequestInv, AllGood, ExecTypeOK, BreakerTypeOK
<1>2. QED
  BY <1>1, ExecInvAlways, PTL

\* The breakers the executor shares between requests stay sound.
THEOREM ExecutorBreakersSound == ExecSpec => []BreakerSound
<1>1. ExecInv => BreakerSound
  BY DEF ExecInv, BreakerHalf, AllGood, Good, BreakerSound
<1>2. QED
  BY <1>1, ExecInvAlways, PTL

\* One execute() makes at most (1 + max_failover_attempts) * (1 + max_retries)
\* upstream calls, for any settings.
THEOREM ExecutorCallsBounded == ExecSpec => []CallsBounded
<1>1. ExecInv => CallsBounded
  BY DEF ExecInv, RequestHalf, RequestInv, CallsBounded, Tries
<1>2. QED
  BY <1>1, ExecInvAlways, PTL

\* At most half_open_trials callers pass a breaker while it is HALF_OPEN, for
\* any number of requests and whatever select_fallback probes.
THEOREM ExecutorTrialsRespected == ExecSpec => []TrialsRespected
<1>1. ASSUME ExecInv, NEW p \in Provider, breaker[p].state = "HALF_OPEN"
      PROVE  Cardinality(admitted[p]) <= HalfOpenTrials
  <2>1. IsFiniteSet(admitted[p]) /\ Cardinality(admitted[p]) <= breaker[p].trials
    BY <1>1 DEF ExecInv, BreakerHalf, BreakerInv, Let
  <2>2. breaker[p].trials \in Nat /\ breaker[p].trials <= HalfOpenTrials
    BY <1>1 DEF ExecInv, BreakerHalf, AllGood, Good, SoundBreaker, BreakerRecord
  <2>3. Cardinality(admitted[p]) \in Nat /\ HalfOpenTrials \in Nat
    BY <2>1, FS_CardinalityType, BreakerAssumption
  <2>4. QED
    BY <2>1, <2>2, <2>3
<1>2. ExecInv => TrialsRespected
  BY <1>1 DEF TrialsRespected
<1>3. QED
  BY <1>2, ExecInvAlways, PTL

\* A request starts at most one upstream call after its deadline, the retry
\* whose sleep has overrun, for any settings, any timers and any interleaving.
THEOREM ExecutorOneLateCall == ExecSpec => []OneLateCall
<1>1. ASSUME ExecInv, NEW r \in Request
      PROVE  req[r].late <= 1
  BY <1>1 DEF ExecInv, RequestHalf, RequestInv, LateOK
<1>2. ExecInv => OneLateCall
  BY <1>1 DEF OneLateCall
<1>3. QED
  BY <1>2, ExecInvAlways, PTL

-----------------------------------------------------------------------------
(* Failover.  Only select_fallback moves a running request to another      *)
(* provider, and it reads attempted_providers after its await, in the same *)
(* stretch of code in which the move is made.                              *)

Forward(s) ==
    Continues(s) /\ req'[s].provider # req[s].provider
    => req'[s].provider \notin req[s].attempted

LEMMA BecomeForward ==
  ASSUME RequestHalf, NEW r \in Request, NEW s \in Request, NEW x, Become(r, x),
         \/ req[r].pc \notin Awaiting \/ x.pc \notin Awaiting
         \/ x.provider = req[r].provider \/ x.provider \notin req[r].attempted
  PROVE  Forward(s)
<1>1. CASE s # r
  <2>1. req'[s] = req[s]
    BY <1>1 DEF RequestHalf, Become
  <2>2. QED
    BY <2>1 DEF Forward
<1>2. CASE s = r
  <2>1. req'[s] = x
    BY <1>2 DEF RequestHalf, Become
  <2>2. QED
    BY <1>2, <2>1 DEF Forward, Continues
<1>3. QED
  BY <1>1, <1>2

LEMMA FinishForward ==
  ASSUME RequestHalf, NEW r \in Request, NEW s \in Request, NEW q, NEW what,
         Finish(r, q, what)
  PROVE  Forward(s)
<1> DEFINE x == [pc |-> "done", provider |-> q.provider, failover |-> TRUE,
                 attempted |-> {}, attempt |-> 0, failovers |-> 0,
                 left |-> 0, wake |-> 0, calls |-> 0, late |-> 0,
                 result |-> what]
<1>1. Become(r, x) /\ x.pc \notin Awaiting
  BY DEF Finish, Awaiting
<1> HIDE DEF x
<1>2. QED
  BY <1>1, BecomeForward

\* A turn of the outer loop stays with the provider it was given.
LEMMA TryProviderForward ==
  ASSUME RequestHalf, NEW r \in Request, NEW s \in Request,
         NEW q \in RequestRecord, NEW bs, TryProvider(r, q, bs),
         req[r].pc \notin Awaiting \/ q.provider \notin req[r].attempted
  PROVE  Forward(s)
<1> DEFINE tried == [q EXCEPT !.attempted = @ \cup {q.provider}, !.attempt = 0]
           called == Calling(tried)
           moved == [tried EXCEPT !.pc = "selecting", !.result = "circuit_open"]
<1>1. called.provider = q.provider /\ moved.provider = q.provider
  <2>1. tried \in RequestRecord
    <3>1. q.provider \in Provider
      BY DEF RequestRecord
    <3>2. QED
      BY <3>1, TriedRecord
  <2>2. tried.provider = q.provider
    BY DEF RequestRecord
  <2> HIDE DEF tried
  <2>3. called.provider = q.provider
    BY <2>1, <2>2, CallingRecord
  <2>4. moved.provider = q.provider
    BY <2>1, <2>2 DEF RequestRecord
  <2>5. QED
    BY <2>3, <2>4
<1>2. \/ \E what : Finish(r, q, what)
      \/ Finish(r, tried, "circuit_open")
      \/ Become(r, called) \/ Become(r, moved)
  BY DEF TryProvider, Call
<1> HIDE DEF tried, called, moved
<1>3. CASE (\E what : Finish(r, q, what)) \/ Finish(r, tried, "circuit_open")
  BY <1>3, FinishForward
<1>4. CASE Become(r, called) \/ Become(r, moved)
  BY <1>1, <1>4, BecomeForward
<1>5. QED
  BY <1>2, <1>3, <1>4

LEMMA SelectFallbackForward ==
  ASSUME ExecInv, NEW r \in Request, NEW s \in Request, SelectFallback(r)
  PROVE  Forward(s)
<1> DEFINE q == req[r]
<1>1. q \in RequestRecord /\ q.failovers <= MaxFailover
  BY DEF ExecInv, RequestHalf, RequestInv, SelectFallback, Awaiting
<1>2. \/ Finish(r, q, q.result)
      \/ \E p \in Provider \ q.attempted : \E bs :
           TryProvider(r, [q EXCEPT !.provider = p, !.failovers = @ + 1], bs)
  BY DEF SelectFallback
<1>3. CASE Finish(r, q, q.result)
  BY <1>3, FinishForward DEF ExecInv
<1>4. ASSUME NEW p \in Provider \ q.attempted, NEW bs, NEW x,
             x = [q EXCEPT !.provider = p, !.failovers = @ + 1],
             TryProvider(r, x, bs)
      PROVE  Forward(s)
  <2>1. x \in RequestRecord /\ x.provider = p
    <3> HIDE DEF q
    <3>1. x.provider = p
      BY <1>1, <1>4 DEF RequestRecord
    <3>2. QED
      BY <1>1, <1>4, <3>1, MovedRecord
  <2>2. QED
    BY <1>4, <2>1, TryProviderForward DEF ExecInv
<1>5. QED
  BY <1>2, <1>3, <1>4

\* The steps within one provider.
LEMMA StayForward ==
  ASSUME ExecInv, NEW r \in Request, NEW s \in Request,
         \/ CallFailsRetry(r) \/ Wake(r)
         \/ \E counted \in BOOLEAN : CallFailsLast(r, counted)
  PROVE  Forward(s)
<1> DEFINE q == req[r]
           called == Calling(q)
           moved == [q EXCEPT !.pc = "selecting", !.result = "provider_error"]
<1>1. /\ called.provider = q.provider /\ moved.provider = q.provider
      /\ \A d : BackOff(q, d).provider = q.provider
  <2>1. q \in RequestRecord
    BY DEF ExecInv, RequestHalf
  <2> HIDE DEF q
  <2>2. QED
    BY <2>1, CallingRecord DEF RequestRecord, BackOff
<1>2. \/ \E what : Finish(r, q, what)
      \/ Become(r, called) \/ Become(r, moved) \/ \E d : Become(r, BackOff(q, d))
  BY DEF CallFailsRetry, Wake, CallFailsLast, Call
<1> HIDE DEF called, moved
<1>3. CASE \E what : Finish(r, q, what)
  BY <1>3, FinishForward DEF ExecInv
<1>4. CASE Become(r, called) \/ Become(r, moved) \/ \E d : Become(r, BackOff(q, d))
  BY <1>1, <1>4, BecomeForward DEF ExecInv
<1>5. QED
  BY <1>2, <1>3, <1>4

LEMMA TickForward ==
  ASSUME ExecInv, NEW s \in Request, Tick
  PROVE  Forward(s)
<1>1. req[s] \in RequestRecord
  BY DEF ExecInv, RequestHalf
<1>2. req'[s] = IF req[s].pc \in Awaiting THEN Waited(req[s]) ELSE req[s]
  BY DEF Tick
<1>3. Waited(req[s]).provider = req[s].provider
  BY <1>1 DEF Waited, RequestRecord
<1>4. QED
  BY <1>2, <1>3 DEF Forward

\* A running request never fails over to a provider it has already tried,
\* for any number of providers, requests and failovers.
THEOREM ExecutorFailoverNeverReturns == ExecSpec => FailoverNeverReturns
<1>1. ASSUME ExecInv, ExecNext, NEW s \in Request
      PROVE  Forward(s)
  <2>1. CASE Tick
    BY <1>1, <2>1, TickForward
  <2>2. ASSUME NEW r \in Request, CallSucceeds(r) \/ CallFailsForGood(r) \/ Cancel(r)
        PROVE  Forward(s)
    BY <1>1, <2>2, FinishForward DEF ExecInv, CallSucceeds, CallFailsForGood, Cancel
  <2>3. ASSUME NEW r \in Request, Start(r)
        PROVE  Forward(s)
    <3>1. PICK p \in Provider, f \in BOOLEAN : TryProvider(r, NewContext(p, f), breaker)
      BY <2>3 DEF Start
    <3>2. NewContext(p, f) \in RequestRecord
      BY ExecutorAssumption DEF NewContext, RequestRecord
    <3>3. QED
      BY <1>1, <2>3, <3>1, <3>2, TryProviderForward DEF ExecInv, Start, Awaiting
  <2>4. ASSUME NEW r \in Request,
               \/ CallFailsRetry(r) \/ Wake(r) \/ SelectFallback(r)
               \/ \E counted \in BOOLEAN : CallFailsLast(r, counted)
        PROVE  Forward(s)
    BY <1>1, <2>4, StayForward, SelectFallbackForward
  <2>5. QED
    BY <1>1, <2>1, <2>2, <2>3, <2>4 DEF ExecNext
<1>2. ExecInv /\ [ExecNext]_execVars
      => [\A r \in Request :
            Continues(r) /\ req'[r].provider # req[r].provider
            => req'[r].provider \notin req[r].attempted]_execVars
  BY <1>1 DEF Forward
<1>3. QED
  BY <1>2, ExecInvAlways, PTL DEF ExecSpec, FailoverNeverReturns

-----------------------------------------------------------------------------
(* The contract.  Each method of a breaker is a step of BreakerContract    *)
(* for its provider, and so are the probes of select_fallback with the     *)
(* check of the loop after them, which the executor makes in one step.     *)

\* Contract!Ripe, of a breaker record.
RipeRecord(b) == b.state = "HALF_OPEN" \/ (b.state = "OPEN" /\ b.since = CooldownTicks)

Rested(b) == IF b.state = "OPEN" THEN b.since ELSE 0

\* The contract lets b become c.
Allowed(b, c) ==
    \/ (b.state # "OPEN" \/ RipeRecord(b)) /\ c.state = "OPEN" /\ c.since = 0
    \/ /\ b.state = "OPEN" /\ c.state = "OPEN"
       /\ c.since \in {0, b.since + 1} /\ c.since <= CooldownTicks
    \/ /\ RipeRecord(b) /\ c.state = "HALF_OPEN"
       /\ c.trials >= Taken(b) /\ c.trials <= HalfOpenTrials
    \/ RipeRecord(b) /\ c.state = "CLOSED"
    \/ c.state = b.state /\ Rested(c) = Rested(b) /\ Taken(c) = Taken(b)

\* c is b after any number of checks.
Checked(b, c) ==
    /\ Good(c)
    /\ c = b \/ (RipeRecord(b) /\ c.state = "HALF_OPEN" /\ Taken(b) <= c.trials)

LEMMA CheckedTwice ==
  ASSUME NEW b, NEW c, NEW d, Good(b), Checked(b, c), Checked(c, d)
  PROVE  Checked(b, d)
  BY DEF Checked, RipeRecord, Taken, Good, BreakerRecord

LEMMA CheckedAllowed ==
  ASSUME NEW b, NEW c, Good(b), Checked(b, c)
  PROVE  Allowed(b, c)
  BY DEF Checked, Allowed, Good, SoundBreaker, BreakerRecord, Taken

LEMMA ResolveChecked ==
  ASSUME NEW b, Good(b)
  PROVE  Checked(b, ResolveState(b))
<1>1. Good(ResolveState(b)) /\ (b.state # "OPEN" => ResolveState(b) = b)
  BY ResolveGood
<1>2. CASE b.state = "OPEN" /\ b.since = CooldownTicks
  <2>1. ResolveState(b) = [b EXCEPT !.state = "HALF_OPEN", !.trials = 0]
    BY <1>2 DEF ResolveState
  <2>2. ResolveState(b).state = "HALF_OPEN" /\ ResolveState(b).trials = 0
    BY <2>1 DEF Good, BreakerRecord
  <2>3. QED
    BY <1>1, <1>2, <2>2 DEF Checked, RipeRecord, Taken
<1>3. CASE ~ (b.state = "OPEN" /\ b.since = CooldownTicks)
  BY <1>1, <1>3 DEF Checked, ResolveState
<1>4. QED
  BY <1>2, <1>3

\* A trial, or several, taken from a breaker that has one.
LEMMA TrialsChecked ==
  ASSUME NEW s, Good(s), HasTrial(s), NEW t \in Nat, s.trials <= t, t <= HalfOpenTrials
  PROVE  Checked(s, [s EXCEPT !.trials = t])
  BY DEF Checked, RipeRecord, Taken, HasTrial, Good, BreakerRecord, SoundBreaker

LEMMA CheckIsChecked ==
  ASSUME NEW b, Good(b)
  PROVE  Checked(b, AfterCanExecute(b))
<1> DEFINE s == ResolveState(b)
           t == s.trials + 1
<1>1. Good(s) /\ Checked(b, s)
  BY ResolveGood, ResolveChecked
<1>2. AfterCanExecute(b) = IF HasTrial(s) THEN [s EXCEPT !.trials = t] ELSE s
  BY DEF AfterCanExecute
<1> HIDE DEF s
<1>3. CASE HasTrial(s)
  <2>1. t \in Nat /\ s.trials <= t /\ t <= HalfOpenTrials
    BY <1>1, <1>3, BreakerAssumption DEF HasTrial, Good, BreakerRecord
  <2> HIDE DEF t
  <2>2. Checked(s, AfterCanExecute(b))
    BY <1>1, <1>2, <1>3, <2>1, TrialsChecked
  <2>3. QED
    BY <1>1, <2>2, CheckedTwice
<1>4. CASE ~ HasTrial(s)
  BY <1>1, <1>2, <1>4
<1>5. QED
  BY <1>3, <1>4

LEMMA ProbesAreChecked ==
  ASSUME NEW b, Good(b), NEW n \in Nat
  PROVE  Checked(b, AfterProbes(b, n))
<1> DEFINE s == ResolveState(b)
           t == Least(HalfOpenTrials, s.trials + n)
<1>1. Good(s) /\ Checked(b, s)
  BY ResolveGood, ResolveChecked
<1>2. AfterProbes(b, n) = IF HasTrial(s) THEN [s EXCEPT !.trials = t] ELSE s
  BY DEF AfterProbes
<1> HIDE DEF s
<1>3. CASE HasTrial(s)
  <2>1. t \in Nat /\ s.trials <= t /\ t <= HalfOpenTrials
    BY <1>1, <1>3, BreakerAssumption DEF Least, HasTrial, Good, BreakerRecord
  <2> HIDE DEF t
  <2>2. Checked(s, AfterProbes(b, n))
    BY <1>1, <1>2, <1>3, <2>1, TrialsChecked
  <2>3. QED
    BY <1>1, <2>2, CheckedTwice
<1>4. CASE ~ HasTrial(s)
  BY <1>1, <1>2, <1>4
<1>5. QED
  BY <1>3, <1>4

LEMMA SuccessAllowed ==
  ASSUME NEW b, Good(b)
  PROVE  Allowed(b, AfterRecordSuccess(b))
<1> DEFINE s == ResolveState(b)
<1>1. Good(s) /\ Checked(b, s)
  BY ResolveGood, ResolveChecked
<1>2. AfterRecordSuccess(b) = CASE s.state = "HALF_OPEN" -> NewBreaker
                                [] s.state = "CLOSED"    -> [s EXCEPT !.fails = 0]
                                [] s.state = "OPEN"      -> s
  BY DEF AfterRecordSuccess
<1> HIDE DEF s
<1>3. s.state \in {"CLOSED", "OPEN", "HALF_OPEN"}
  BY <1>1 DEF Good, BreakerRecord
<1>4. CASE s.state = "HALF_OPEN"
  <2>1. AfterRecordSuccess(b).state = "CLOSED"
    BY <1>2, <1>4 DEF NewBreaker
  <2>2. RipeRecord(b)
    BY <1>1, <1>4 DEF Checked, RipeRecord
  <2>3. QED
    BY <2>1, <2>2 DEF Allowed
<1>5. CASE s.state = "CLOSED"
  <2>1. s = b
    BY <1>1, <1>5 DEF Checked
  <2>2. AfterRecordSuccess(b) = [b EXCEPT !.fails = 0]
    BY <1>2, <1>5, <2>1
  <2>3. AfterRecordSuccess(b).state = "CLOSED" /\ b.state = "CLOSED"
    BY <1>5, <2>1, <2>2 DEF Good, BreakerRecord
  <2>4. QED
    BY <2>3 DEF Allowed, Rested, Taken
<1>6. CASE s.state = "OPEN"
  BY <1>1, <1>2, <1>6 DEF Checked, Allowed
<1>7. QED
  BY <1>3, <1>4, <1>5, <1>6

\* What record_failure leaves: a breaker that rests from now, or one still
\* CLOSED that was.
LEMMA FailureAllowed ==
  ASSUME NEW b, Good(b)
  PROVE  Allowed(b, AfterRecordFailure(b))
<1> DEFINE c == [b EXCEPT !.since = 0]
           s == ResolveState(c)
           d == AfterRecordFailure(b)
<1>1. Good(c) /\ c.state = b.state /\ c.since = 0
  BY BreakerAssumption DEF Good, BreakerRecord, SoundBreaker, NeverFailed
<1>2. /\ Good(s) /\ s.since = 0 /\ (s.state = "CLOSED" <=> b.state = "CLOSED")
      /\ b.state # "OPEN" => s = c
  BY <1>1, ResolveGood
<1>3. d = CASE s.state = "HALF_OPEN" -> [s EXCEPT !.state = "OPEN"]
            [] s.state = "CLOSED"    ->
                 [s EXCEPT !.fails = @ + 1,
                           !.state = IF b.fails + 1 >= FailureThreshold
                                       THEN "OPEN" ELSE "CLOSED"]
            [] s.state = "OPEN"      -> s
  BY DEF AfterRecordFailure
<1> HIDE DEF s, c, d
<1>4. s.state \in {"CLOSED", "OPEN", "HALF_OPEN"} /\ 0 <= CooldownTicks
  BY <1>2, BreakerAssumption DEF Good, BreakerRecord
<1>5. CASE s.state = "HALF_OPEN"
  <2>1. d = [s EXCEPT !.state = "OPEN"]
    BY <1>3, <1>5
  <2>2. d.state = "OPEN" /\ d.since = 0
    BY <1>2, <2>1 DEF Good, BreakerRecord
  <2>3. QED
    BY <1>4, <2>2 DEF Allowed, d
<1>6. CASE s.state = "CLOSED"
  <2>1. \/ d = [s EXCEPT !.fails = @ + 1, !.state = "OPEN"]
        \/ d = [s EXCEPT !.fails = @ + 1, !.state = "CLOSED"]
    BY <1>3, <1>6
  <2>2. d.state \in {"OPEN", "CLOSED"} /\ d.since = 0
    BY <1>2, <2>1 DEF Good, BreakerRecord
  <2>3. QED
    BY <1>2, <1>6, <2>2 DEF Allowed, Rested, Taken, d
<1>7. CASE s.state = "OPEN"
  <2>1. d.state = "OPEN" /\ d.since = 0
    BY <1>2, <1>3, <1>7
  <2>2. QED
    BY <1>4, <2>1 DEF Allowed, d
<1>8. QED
  BY <1>4, <1>5, <1>6, <1>7

LEMMA OlderAllowed ==
  ASSUME NEW b, Good(b)
  PROVE  Allowed(b, Older(b))
<1>1. CASE b.since \in 0 .. CooldownTicks - 1
  <2>1. Older(b) = [b EXCEPT !.since = b.since + 1]
    BY <1>1 DEF Older
  <2>2. /\ Older(b).state = b.state /\ Older(b).trials = b.trials
        /\ Older(b).since = b.since + 1 /\ b.since + 1 <= CooldownTicks
    BY <1>1, <2>1, BreakerAssumption DEF Good, BreakerRecord
  <2>3. QED
    BY <2>2 DEF Allowed, Rested, Taken
<1>2. CASE b.since \notin 0 .. CooldownTicks - 1
  BY <1>2 DEF Older, Allowed
<1>3. QED
  BY <1>1, <1>2

\* The contract allows what a step does to every breaker.
AllAllowed == \A p \in Provider : Allowed(breaker[p], breaker'[p])

LEMMA AllCheckedAllowed ==
  ASSUME BreakerHalf, NEW bs, NEW letIn, SetBreakers(bs, letIn),
         \A p \in Provider : Checked(breaker[p], bs[p])
  PROVE  AllAllowed
  BY CheckedAllowed DEF BreakerHalf, AllGood, AllAllowed, SetBreakers

LEMMA SameAllowed ==
  ASSUME breaker' = breaker
  PROVE  AllAllowed
  BY DEF AllAllowed, Allowed

LEMMA OneAllowed ==
  ASSUME BreakerHalf, NEW p \in Provider, NEW b, Allowed(breaker[p], b),
         breaker' = [breaker EXCEPT ![p] = b]
  PROVE  AllAllowed
<1>1. ASSUME NEW x \in Provider PROVE Allowed(breaker[x], breaker'[x])
  <2>1. CASE x = p
    BY <2>1 DEF BreakerHalf, AllGood
  <2>2. CASE x # p
    <3>1. breaker'[x] = breaker[x]
      BY <2>2 DEF BreakerHalf, AllGood
    <3>2. QED
      BY <3>1 DEF Allowed
  <2>3. QED
    BY <2>1, <2>2
<1>2. QED
  BY <1>1 DEF AllAllowed

LEMMA TryProviderAllowed ==
  ASSUME BreakerHalf, NEW r \in Request, NEW q \in RequestRecord,
         NEW bs \in [Provider -> BreakerRecord],
         \A p \in Provider : Checked(breaker[p], bs[p]),
         TryProvider(r, q, bs)
  PROVE  AllAllowed
<1> DEFINE p == q.provider
           asked == [bs EXCEPT ![p] = AfterCanExecute(@)]
<1>1. p \in Provider /\ \A x \in Provider : Good(breaker[x]) /\ Good(bs[x])
  BY DEF RequestRecord, BreakerHalf, AllGood, Checked
<1>2. Checked(breaker[p], AfterCanExecute(bs[p]))
  BY <1>1, CheckIsChecked, CheckedTwice
<1>3. \A x \in Provider : Checked(breaker[x], asked[x])
  BY <1>1, <1>2
<1>4. \E letIn : SetBreakers(bs, letIn) \/ SetBreakers(asked, letIn)
  BY DEF TryProvider
<1> HIDE DEF asked
<1>5. QED
  BY <1>3, <1>4, AllCheckedAllowed

LEMMA SelectFallbackAllowed ==
  ASSUME ExecInv, NEW r \in Request, SelectFallback(r)
  PROVE  AllAllowed
<1> DEFINE q == req[r]
<1>1. q \in RequestRecord /\ q.failovers <= MaxFailover
  BY DEF ExecInv, RequestHalf, RequestInv, SelectFallback, Awaiting
<1>2. PICK models \in [Provider -> 0 .. MaxModels] :
        \E eligible \in SUBSET Provider :
          \/ SetBreakers(ProbeAll(models, eligible), Nobody)
          \/ \E p \in Provider :
               TryProvider(r, [q EXCEPT !.provider = p, !.failovers = @ + 1],
                           ProbeAll(models, eligible))
  <2>1. PICK models \in [Provider -> 0 .. MaxModels] :
          LET eligible  == {p \in Provider \ q.attempted : models[p] > 0}
              available == {p \in eligible : CanExecute(breaker[p])}
              probed    == ProbeAll(models, eligible)
          IN  \E capable \in SUBSET available :
                \/ /\ capable = {}
                   /\ SetBreakers(probed, Nobody)
                   /\ Finish(r, q, q.result)
                \/ \E p \in capable :
                     TryProvider(r, [q EXCEPT !.provider = p,
                                              !.failovers = @ + 1], probed)
    BY DEF SelectFallback
  <2> DEFINE chosen == {p \in Provider \ q.attempted : models[p] > 0}
  <2>2. \/ SetBreakers(ProbeAll(models, chosen), Nobody)
        \/ \E p \in Provider :
             TryProvider(r, [q EXCEPT !.provider = p, !.failovers = @ + 1],
                         ProbeAll(models, chosen))
    BY <2>1
  <2>3. chosen \in SUBSET Provider
    OBVIOUS
  <2> HIDE DEF chosen
  <2>4. QED
    BY <2>2, <2>3
<1>3. PICK eligible \in SUBSET Provider :
          \/ SetBreakers(ProbeAll(models, eligible), Nobody)
          \/ \E p \in Provider :
               TryProvider(r, [q EXCEPT !.provider = p, !.failovers = @ + 1],
                           ProbeAll(models, eligible))
  BY <1>2
<1> DEFINE probed == ProbeAll(models, eligible)
<1>4. /\ probed \in [Provider -> BreakerRecord]
      /\ \A p \in Provider : Checked(breaker[p], probed[p])
  <2>1. \A p \in Provider : Good(breaker[p]) /\ models[p] \in Nat
    <3>1. \A n \in 0 .. MaxModels : n \in Nat
      BY ExecutorAssumption
    <3>2. QED
      BY <3>1 DEF ExecInv, BreakerHalf, AllGood
  <2>2. \A p \in Provider : /\ Checked(breaker[p], AfterProbes(breaker[p], models[p]))
                            /\ Checked(breaker[p], breaker[p])
    BY <2>1, ProbesAreChecked DEF Checked
  <2>3. \A p \in Provider : Checked(breaker[p], probed[p])
    BY <2>2 DEF ProbeAll
  <2>4. \A p \in Provider : probed[p] \in BreakerRecord
    BY <2>3 DEF Checked, Good
  <2>5. QED
    BY <2>3, <2>4 DEF ProbeAll
<1> HIDE DEF probed
<1>5. CASE SetBreakers(probed, Nobody)
  BY <1>4, <1>5, AllCheckedAllowed DEF ExecInv
<1>6. ASSUME NEW p \in Provider, NEW x, x = [q EXCEPT !.provider = p, !.failovers = @ + 1],
             TryProvider(r, x, probed)
      PROVE  AllAllowed
  <2>1. x \in RequestRecord
    <3> HIDE DEF q
    <3>1. QED
      BY <1>1, <1>6, MovedRecord
  <2>2. QED
    BY <1>4, <1>6, <2>1, TryProviderAllowed DEF ExecInv
<1>7. QED
  BY <1>3, <1>5, <1>6 DEF probed

LEMMA StepAllowed ==
  ASSUME ExecInv, [ExecNext]_execVars
  PROVE  AllAllowed
<1>1. CASE UNCHANGED execVars
  BY <1>1, SameAllowed DEF execVars
<1>2. CASE Tick
  BY <1>2, OlderAllowed DEF Tick, TimePasses, AllAllowed, ExecInv, BreakerHalf, AllGood
<1>3. ASSUME NEW r \in Request, Start(r) PROVE AllAllowed
  <2>1. PICK p \in Provider, f \in BOOLEAN : TryProvider(r, NewContext(p, f), breaker)
    BY <1>3 DEF Start
  <2>2. NewContext(p, f) \in RequestRecord
    BY ExecutorAssumption DEF NewContext, RequestRecord
  <2>3. /\ breaker \in [Provider -> BreakerRecord]
        /\ \A x \in Provider : Checked(breaker[x], breaker[x])
    BY DEF ExecInv, BreakerHalf, AllGood, Checked
  <2>4. QED
    BY <2>1, <2>2, <2>3, TryProviderAllowed DEF ExecInv
<1>4. ASSUME NEW r \in Request, CallSucceeds(r) PROVE AllAllowed
  <2>1. /\ req[r].provider \in Provider
        /\ breaker' = [breaker EXCEPT ![req[r].provider] =
                         AfterRecordSuccess(breaker[req[r].provider])]
    BY <1>4 DEF CallSucceeds, SetBreakers, ExecInv, RequestHalf, RequestRecord
  <2>2. QED
    BY <2>1, SuccessAllowed, OneAllowed DEF ExecInv, BreakerHalf, AllGood
<1>5. ASSUME NEW r \in Request, NEW counted \in BOOLEAN, CallFailsLast(r, counted)
      PROVE  AllAllowed
  <2>1. CASE counted
    <3>1. /\ req[r].provider \in Provider
          /\ breaker' = [breaker EXCEPT ![req[r].provider] =
                           AfterRecordFailure(breaker[req[r].provider])]
      BY <1>5, <2>1 DEF CallFailsLast, SetBreakers, ExecInv, RequestHalf, RequestRecord
    <3>2. QED
      BY <3>1, FailureAllowed, OneAllowed DEF ExecInv, BreakerHalf, AllGood
  <2>2. CASE ~ counted
    BY <1>5, <2>2, SameAllowed DEF CallFailsLast
  <2>3. QED
    BY <2>1, <2>2
<1>6. ASSUME NEW r \in Request,
             CallFailsForGood(r) \/ CallFailsRetry(r) \/ Wake(r) \/ Cancel(r)
      PROVE  AllAllowed
  BY <1>6, SameAllowed DEF CallFailsForGood, CallFailsRetry, Wake, Cancel
<1>7. ASSUME NEW r \in Request, SelectFallback(r) PROVE AllAllowed
  BY <1>7, SelectFallbackAllowed
<1>8. QED
  BY <1>1, <1>2, <1>3, <1>4, <1>5, <1>6, <1>7 DEF ExecNext

\* The executor's breakers implement BreakerContract, under every
\* interleaving of requests: a breaker that has opened rests its whole
\* cooldown after the last failure, goes on trial or closes only then, and
\* hands out at most half_open_trials trials, none of them twice.
THEOREM ExecutorKeepsContract == ExecSpec => KeepsBreakerContract
<1>1. ExecInit => Contract!Init
  BY DEF ExecInit, BreakerInit, Contract!Init, NewBreaker
<1>2. ExecInv /\ [ExecNext]_execVars => [Contract!Next]_(Contract!contractVars)
  <2> SUFFICES ASSUME ExecInv, [ExecNext]_execVars PROVE Contract!Next
    OBVIOUS
  <2> SUFFICES ASSUME NEW p \in Provider
               PROVE  \/ Contract!Opens(p) \/ Contract!Rests(p) \/ Contract!OnTrial(p)
                      \/ Contract!Closes(p) \/ Contract!Keeps(p)
    BY DEF Contract!Next
  <2>1. Allowed(breaker[p], breaker'[p])
    BY StepAllowed DEF AllAllowed
  <2>2. QED
    BY <2>1 DEF Allowed, RipeRecord, Rested, Taken, Contract!Opens, Contract!Rests,
       Contract!OnTrial, Contract!Closes, Contract!Keeps, Contract!Ripe
<1>3. QED
  BY <1>1, <1>2, ExecInvAlways, PTL DEF ExecSpec, KeepsBreakerContract, Contract!Spec
=============================================================================
