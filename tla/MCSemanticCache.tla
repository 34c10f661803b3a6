--------------------------- MODULE MCSemanticCache ---------------------------
(* Questions and embeddings for the run of SemanticCache.                  *)
EXTENDS SemanticCache, TLC

CONSTANTS c1, c2, c3, t1, t2

\* The two are close: their cosine is 0.96.
MCVector == [how |-> <<4, 3>>, what |-> <<3, 4>>]
MCText == DOMAIN MCVector

Question(x, s) == [text |-> x, system |-> s, params |-> "p0", stream |-> FALSE]

MCAsk == {Question("how", "s0"), Question("what", "s0"), Question("how", "s1"),
          [Question("how", "s0") EXCEPT !.stream = TRUE]}

MCSymmetry == Permutations(Task) \cup Permutations(Team)
=============================================================================
