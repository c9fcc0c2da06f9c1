---------------------------- MODULE MCClusterSync ----------------------------
(* Model values for the cluster's runs, interchangeable where no liveness  *)
(* property is checked.                                                    *)
EXTENDS ClusterSync, TLC

CONSTANTS r1, r2, a1, a2

ClusterSymmetry == Permutations(Replicas) \cup Permutations(Addons)
=============================================================================
