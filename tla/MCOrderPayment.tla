---------------------------- MODULE MCOrderPayment ----------------------------
(* Small instances of OrderPayment for TLC.  Workers are interchangeable.  *)
EXTENDS OrderPayment, TLC

Symmetry == Permutations(Workers)
=============================================================================
