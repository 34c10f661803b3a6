------------------------------- MODULE Routing -------------------------------
(***************************************************************************)
(* The routing engine (routing/router.py, candidates.py, scorer.py,        *)
(* policies.py, stats.py, metadata.py): from the providers' answers, the   *)
(* catalog and the statistics to the target of a request.                  *)
(*                                                                         *)
(* A target is a provider with a model.  Scores are in units of 0.0001,    *)
(* the precision score_candidates rounds to; weights are in percent.       *)
(***************************************************************************)
EXTENDS Integers, Sequences, FiniteSets, FiniteSetsExt

CONSTANTS
    Provider, Model,
    Local,          \* "ollama"
    Bare,           \* Bare[m]: the model's name without its tag
    Cap,            \* capabilities
    Serves,         \* Serves[p]: the models the provider lists
    Meta,           \* Meta[t]: metadata of the targets in the catalog
    DefaultMeta,    \* DefaultMeta[p]: metadata of the provider's other models
    Before,         \* Before[t]: the target's place in alphabetical order
    Window          \* outcomes and latencies kept per target (maxlen, 50)

Target == Provider \X Model
MetaRecord == [caps : SUBSET Cap, cost : Nat, latency : Nat \ {0}]

ASSUME RoutingAssumption ==
    /\ Local \in Provider /\ IsFiniteSet(Provider) /\ IsFiniteSet(Model)
    /\ Bare \in [Model -> Model] /\ Serves \in [Provider -> SUBSET Model]
    /\ DOMAIN Meta \subseteq Target /\ \A t \in DOMAIN Meta : Meta[t] \in MetaRecord
    /\ DOMAIN DefaultMeta = Provider /\ \A p \in Provider : DefaultMeta[p] \in MetaRecord
    /\ Before \in [Target -> Nat]
    /\ \A t, u \in Target : Before[t] = Before[u] => t = u
    /\ Window \in Nat \ {0}

Mode == {"auto", "lowest_cost", "lowest_latency", "best_available", "capability_based"}

-----------------------------------------------------------------------------
(* Statistics.                                                             *)

\* ModelStats: the last outcomes, and the last latencies of successes.
Stats == [outcomes : Seq(BOOLEAN), latencies : Seq(Nat)]
NoStats == [outcomes |-> << >>, latencies |-> << >>]

\* Mutant: the window never drops an outcome.
PushForever(s, x) == Append(s, x)

\* append to a deque with maxlen.
Push(s, x) ==
    IF Len(s) < Window THEN Append(s, x) ELSE Append(Tail(s), x)

AfterSuccess(s, latency) ==
    [outcomes |-> Push(s.outcomes, TRUE), latencies |-> Push(s.latencies, latency)]

AfterFailure(s) == [s EXCEPT !.outcomes = Push(@, FALSE)]

\* success_rate, in units of 0.0001.
SuccessRate(s) ==
    IF s.outcomes = << >> THEN 10000
    ELSE (10000 * Cardinality({n \in 1 .. Len(s.outcomes) : s.outcomes[n]}))
           \div Len(s.outcomes)

\* effective_latency_ms: the recent average, else the catalog's figure.
Latency(s, baseline) ==
    IF s.latencies = << >> THEN baseline
    ELSE MapThenSumSet(LAMBDA n : s.latencies[n], 1 .. Len(s.latencies))
           \div Len(s.latencies)

-----------------------------------------------------------------------------
(* Candidates.                                                             *)

\* ModelMetadataCatalog.get: the model, the model without its tag, a default.
BareTarget(t) == <<t[1], Bare[t[2]]>>
InCatalog(t) == {t, BareTarget(t)} \cap DOMAIN Meta # {}

MetaOf(t) ==
    IF t \in DOMAIN Meta THEN Meta[t]
    ELSE IF InCatalog(t) THEN Meta[BareTarget(t)] ELSE DefaultMeta[t[1]]

CatalogModels(p) == {m \in Model : <<p, m>> \in DOMAIN Meta}

\* The models a provider is a candidate with, given its list_models answer
\* (empty when it failed): for Ollama those of the catalog that are
\* installed, under any tag; for the others its own list, or the catalog's.
ModelsOf(p, live) ==
    IF p = Local
      THEN {m \in CatalogModels(p) : m \in live \/ \E l \in live : Bare[l] = Bare[m]}
      ELSE IF live # {} THEN live ELSE CatalogModels(p)

\* The targets of the registered providers, when these have answered
\* list_models.
Offered(registered, listing) ==
    {t \in Target : /\ t[1] \in registered
                    /\ t[2] \in ModelsOf(t[1], IF t[1] \in listing THEN Serves[t[1]] ELSE {})}

Candidate(t, healthy, stats) ==
    [target |-> t, caps |-> MetaOf(t).caps, cost |-> MetaOf(t).cost,
     healthy |-> t[1] \in healthy, success |-> SuccessRate(stats[t]),
     latency |-> Latency(stats[t], MetaOf(t).latency)]

\* build_candidates
Candidates(registered, healthy, listing, stats) ==
    {Candidate(t, healthy, stats) : t \in Offered(registered, listing)}

-----------------------------------------------------------------------------
(* Scores.                                                                 *)

\* _POLICY_WEIGHTS, as percentages of health, success rate, latency, cost.
Weights(mode) ==
    CASE mode \in {"auto", "capability_based"} -> <<30, 30, 20, 20>>
      [] mode = "lowest_cost" -> <<15, 15, 10, 60>>
      [] mode = "lowest_latency" -> <<15, 15, 60, 10>>
      [] mode = "best_available" -> <<40, 40, 10, 10>>

Ratio(a, b) == (10000 * a) \div b

LatencyScore(c, pool) == Ratio(Min({d.latency : d \in pool}), c.latency)

\* A free model scores full marks.  Beside one, a paid model is scored
\* against the cheapest paid one and stays below it.
CostScore(c, pool) ==
    LET costs == {d.cost : d \in pool}
    IN  CASE c.cost = 0 \/ Cardinality(costs) = 1 -> 10000
          [] c.cost > 0 /\ Cardinality(costs) > 1 /\ 0 \in costs ->
               Max({500, (3 * Ratio(Min(costs \ {0}), c.cost)) \div 4})
          [] OTHER -> Ratio(Min(costs), c.cost)

\* score_candidates: the weighted sum, rounded.
Score(c, pool, w) ==
    ((IF c.healthy THEN 10000 ELSE 0) * w[1] + c.success * w[2]
       + LatencyScore(c, pool) * w[3] + CostScore(c, pool) * w[4] + 50) \div 100

\* The sort key: by score, then health, success rate, latency, cost, name.
SortKey(c, pool, w) ==
    <<-Score(c, pool, w), IF c.healthy THEN 0 ELSE 1, -c.success, c.latency, c.cost,
      Before[c.target]>>

Precedes(k, l) ==
    \E n \in 1 .. Len(k) : k[n] < l[n] /\ \A m \in 1 .. n - 1 : k[m] = l[m]

Best(pool, w) ==
    CHOOSE c \in pool :
      \A d \in pool \ {c} : Precedes(SortKey(c, pool, w), SortKey(d, pool, w))

-----------------------------------------------------------------------------
(* The decision.                                                           *)

\* Mutant: health is left to the score.
EligibleAnyHealth(q, pool) ==
    {c \in pool : (q.provider = "none" \/ c.target[1] = q.provider) /\ q.caps \subseteq c.caps}

\* The provider the client named, the capabilities, then health if any is
\* healthy.
Eligible(q, pool) ==
    LET able == {c \in pool : /\ q.provider \in {"none", c.target[1]}
                              /\ q.caps \subseteq c.caps}
    IN  IF \E c \in able : c.healthy THEN {c \in able : c.healthy} ELSE able

\* _resolve_routing_mode, where the request is not manual.
ResolveMode(q) ==
    CASE q.mode # "none" -> q.mode
      [] q.mode = "none" /\ q.caps # {} -> "capability_based"
      [] OTHER -> "auto"

\* `manual' in complete, and the manual branch of route: the client names the
\* target.  With capabilities it gets there too; they are not looked at.
IsManual(q) ==
    \/ q.mode = "manual"
    \/ q.mode = "none" /\ q.provider # "none" /\ q.model # "auto"
=============================================================================
