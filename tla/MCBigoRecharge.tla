---------------------------- MODULE MCBigoRecharge ----------------------------
(* Small instances of BigoRecharge for TLC: the configurations give the    *)
(* rows, the callers and the bounds.                                       *)
EXTENDS BigoRecharge
=============================================================================
