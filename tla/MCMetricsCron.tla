---------------------------- MODULE MCMetricsCron ----------------------------
(* Small instances of MetricsCron for TLC.  Stores are interchangeable.    *)
EXTENDS MetricsCron, TLC

Symmetry == Permutations(Stores)
=============================================================================
