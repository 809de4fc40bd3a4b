---------------------------- MODULE MCHttpMetrics ----------------------------
(* Instances of HttpMetrics for TLC. *)
EXTENDS HttpMetrics, TLC
Symmetry == Permutations(Requests)
===============================================================================
