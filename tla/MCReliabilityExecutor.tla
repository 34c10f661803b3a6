----------------------- MODULE MCReliabilityExecutor -----------------------
(* Symmetric sets for the safety runs of ReliabilityExecutor.              *)
EXTENDS ReliabilityExecutor, TLC

MCSymmetry == Permutations(Provider) \cup Permutations(Request)
=============================================================================
