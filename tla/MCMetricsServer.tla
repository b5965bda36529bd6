--------------------------- MODULE MCMetricsServer ---------------------------
(* MetricsServer on the small instances of the MCMetricsServer*.cfg files. *)
EXTENDS MetricsServer, TLC

\* The counters are interchangeable, and only safety is checked with them.
Symmetry == Permutations(Counters)
=============================================================================
