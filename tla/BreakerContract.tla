--------------------------- MODULE BreakerContract ---------------------------
(***************************************************************************)
(* What a circuit breaker promises the rest of the gateway, whatever       *)
(* requests run and in whatever order they finish: the docstring of        *)
(* ProviderCircuitBreaker as a state machine.  A step may touch several    *)
(* providers, since one select_fallback asks every candidate's breaker.    *)
(***************************************************************************)
EXTENDS Integers

CONSTANTS Provider, CooldownTicks, HalfOpenTrials

VARIABLES
    phase,      \* "CLOSED", "OPEN" or "HALF_OPEN", per provider
    rest,       \* ticks an OPEN breaker has rested since the last failure
    used        \* trials a HALF_OPEN breaker has handed out

contractVars == <<phase, rest, used>>

Init ==
    /\ phase = [p \in Provider |-> "CLOSED"]
    /\ rest = [p \in Provider |-> 0]
    /\ used = [p \in Provider |-> 0]

\* The provider may be probed: it is on trial, or it has rested long enough.
Ripe(p) ==
    \/ phase[p] = "HALF_OPEN"
    \/ phase[p] = "OPEN" /\ rest[p] = CooldownTicks

Opens(p) ==
    /\ phase[p] # "OPEN" \/ Ripe(p)
    /\ phase'[p] = "OPEN" /\ rest'[p] = 0

Rests(p) ==
    /\ phase[p] = "OPEN" /\ phase'[p] = "OPEN"
    /\ rest'[p] \in {0, rest[p] + 1} /\ rest'[p] <= CooldownTicks

\* Trials are only used up, never given back, and never run over.
OnTrial(p) ==
    /\ Ripe(p) /\ phase'[p] = "HALF_OPEN"
    /\ used'[p] >= used[p] /\ used'[p] <= HalfOpenTrials

Closes(p) == Ripe(p) /\ phase'[p] = "CLOSED"

Keeps(p) ==
    phase'[p] = phase[p] /\ rest'[p] = rest[p] /\ used'[p] = used[p]

Next ==
    \A p \in Provider :
      Opens(p) \/ Rests(p) \/ OnTrial(p) \/ Closes(p) \/ Keeps(p)

Spec == Init /\ [][Next]_contractVars
=============================================================================
