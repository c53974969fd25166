------------------------------ MODULE MCProxy ------------------------------
(* Model values and symmetry for the runs of Proxy. *)
EXTENDS Proxy, TLC

FlowSymmetry == Permutations(Flows)
=============================================================================
