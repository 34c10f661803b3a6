----------------------------- MODULE TeamPolicy -----------------------------
(***************************************************************************)
(* What a team's policy says about a chat request: the sections a team has *)
(* set merged onto the global default (policy/resolver.py, policy/         *)
(* schemas.py), the guardrails (guardrails/runner.py and its checks) and   *)
(* the arm of an experiment (experiment/assigner.py).                      *)
(***************************************************************************)
EXTENDS Integers, Sequences, FiniteSets, FiniteSetsExt

CONSTANT BucketSize         \* _BUCKET_SIZE, a multiple of 100

ASSUME BucketAssumption == BucketSize \in Nat \ {0} /\ BucketSize % 100 = 0

-----------------------------------------------------------------------------
(* Policies.  A stored policy is a function on the sections the team has   *)
(* given.  The routing section is left out: complete reads it and then     *)
(* takes the mode that the routing engine has resolved without it.         *)

Section == {"fallback", "budget", "cache", "experiment", "guardrails"}

\* The guardrails react with "off", "warn" or "block", an experiment is on or
\* off and has arms, each with a name, a target and a weight.
NoLimit == -1
NoExperiment == [on |-> FALSE, arms |-> << >>]

GlobalDefault ==
    [fallback |-> TRUE, budget |-> "BLOCK", cache |-> FALSE,
     experiment |-> NoExperiment,
     guardrails |-> [max |-> NoLimit, pii |-> "off", injection |-> "off"]]

\* _merge, section by section.
Merge(raw) ==
    [s \in Section |-> IF s \in DOMAIN raw THEN raw[s] ELSE GlobalDefault[s]]

\* ExperimentConfig.validate_arms and ExperimentArm.weight_positive.
ValidArms(arms) ==
    /\ Len(arms) >= 2
    /\ \A i, j \in 1 .. Len(arms) : arms[i].name = arms[j].name => i = j
    /\ \A i \in 1 .. Len(arms) : arms[i].weight > 0
    /\ MapThenSumSet(LAMBDA i : arms[i].weight, 1 .. Len(arms)) = 100

\* What PUT accepts: the experiment, if any, is valid, and if it is switched
\* on, its providers are registered.
ValidPolicy(raw, registered) ==
    "experiment" \in DOMAIN raw =>
      /\ ValidArms(raw["experiment"].arms)
      /\ raw["experiment"].on =>
           \A i \in 1 .. Len(raw["experiment"].arms) :
             raw["experiment"].arms[i].target[1] \in registered

-----------------------------------------------------------------------------
(* Guardrails.  A prompt is known by its length and by what the patterns   *)
(* find in it.                                                             *)

\* What each check asks for: PromptSizeGuardrail always a block, the others the
\* reaction that the policy gives.
TooLong(g, size) == g.max # NoLimit /\ size > g.max
PiiVerdict(g, finds) == IF "pii" \in finds THEN g.pii ELSE "off"
InjectionVerdict(g, finds) == IF "injection" \in finds THEN g.injection ELSE "off"

\* GuardrailRunner.run: its final_action, the most severe.
GuardrailAction(g, size, finds) ==
    LET asked == {PiiVerdict(g, finds), InjectionVerdict(g, finds)}
    IN  CASE TooLong(g, size) \/ "block" \in asked -> "block"
          [] ~TooLong(g, size) /\ "block" \notin asked /\ "warn" \in asked -> "warn"
          [] OTHER -> "none"

-----------------------------------------------------------------------------
(* Experiments.                                                            *)

\* The arms' weights up to the n-th, in buckets.
Cumulative(arms, n) ==
    MapThenSumSet(LAMBDA i : arms[i].weight * (BucketSize \div 100), 1 .. n)

\* Mutant: bucket <= cumulative.
SelectArmLeq(arms, bucket) ==
    CHOOSE n \in 1 .. Len(arms) :
      /\ bucket <= Cumulative(arms, n)
      /\ \A m \in 1 .. n - 1 : bucket > Cumulative(arms, m)

\* _select_arm: the first arm whose cumulative weight exceeds the bucket.
SelectArm(arms, bucket) ==
    CHOOSE n \in 1 .. Len(arms) :
      /\ bucket < Cumulative(arms, n)
      /\ \A m \in 1 .. n - 1 : bucket >= Cumulative(arms, m)

\* assign: no arm (0) unless the experiment is switched on.
Assign(e, bucket) ==
    IF ~e.on \/ e.arms = << >> THEN 0 ELSE SelectArm(e.arms, bucket)
=============================================================================
