--------------------------- MODULE MCTrafficStats ---------------------------
(* Model values and symmetry for the runs of TrafficStats. *)
EXTENDS TrafficStats, TLC

CallerSymmetry == Permutations(Callers)
=============================================================================
