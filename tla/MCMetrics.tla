----------------------------- MODULE MCMetrics ------------------------------
(* Two processes that share the log.                                       *)
EXTENDS Metrics, TLC

Symmetry == Permutations(Procs)
=============================================================================
