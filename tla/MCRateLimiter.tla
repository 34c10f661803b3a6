---------------------------- MODULE MCRateLimiter ----------------------------
(* Ids, limits and windows for the run of RateLimiter.                     *)
EXTENDS RateLimiter

CONSTANTS c1, c2, k1, k2, t, o

\* Two API keys of one team.
MCIdOf == [c \in Caller |-> [s \in Scope |->
             CASE s = "key"  -> IF c = c1 THEN k1 ELSE k2
               [] s = "team" -> t
               [] s = "org"  -> o]]

MCLimit == [s \in Scope |-> IF s = "org" THEN 2 ELSE 1]
MCWindow == [s \in Scope |-> IF s = "key" THEN 1 ELSE 2]

\* The callers change places with their keys.
Swap == [x \in {c1, c2, k1, k2} |->
           CASE x = c1 -> c2 [] x = c2 -> c1 [] x = k1 -> k2 [] x = k2 -> k1]
MCSymmetry == {Swap, [x \in DOMAIN Swap |-> x]}
=============================================================================
