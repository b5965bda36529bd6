--------------------------- MODULE MCMetricsAgent ---------------------------
(* MetricsAgent on the small instances of the MCMetricsAgent*.cfg files. *)
EXTENDS MetricsAgent
=============================================================================
