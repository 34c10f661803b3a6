--------------------------- MODULE MCBudgetLedger ---------------------------
(* The callers are interchangeable in the safety runs of BudgetLedger.     *)
EXTENDS BudgetLedger, TLC

MCSymmetry == Permutations(Request)
=============================================================================
