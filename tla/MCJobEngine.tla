---------------------------- MODULE MCJobEngine ----------------------------
(* Instances of JobEngine for TLC.                                         *)
EXTENDS JobEngine, TLC

WorkerSymmetry == Permutations(Workers \ (Immortal \cup Drainable))
=============================================================================
