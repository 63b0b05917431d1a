-------------------------- MODULE MCDashboardMetrics --------------------------
(* Small instances of DashboardMetrics for TLC. *)
EXTENDS DashboardMetrics, TLC

CONSTANTS o1, o2, x, y

MCPrice == (o1 :> 1) @@ (o2 :> 2)
MCProductOf == (o1 :> x) @@ (o2 :> y)
Interchangeable == Permutations(Jobs)
=============================================================================
