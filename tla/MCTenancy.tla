----------------------------- MODULE MCTenancy -----------------------------
(* Interchangeable ids and callers for the runs of Tenancy.                *)
EXTENDS Tenancy, TLC

MCSymmetry == UNION {Permutations(S) : S \in {Org, Team, Key, Caller, Slug}}
=============================================================================
