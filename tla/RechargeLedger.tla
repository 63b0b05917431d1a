--------------------------- MODULE RechargeLedger ---------------------------
(***************************************************************************)
(* What the Bigo side promises to the rest of the platform, without saying *)
(* how: for each order number a recharge is opened at most once, and once  *)
(* it has succeeded or has been given up its outcome never changes.        *)
(*                                                                         *)
(* Two modules implement this promise: BigoRecharge, where an outcome is   *)
(* reached through requests, retries and timers, and OrderPayment, where   *)
(* payment handlers open recharges and wait for them.                      *)
(***************************************************************************)
CONSTANT Orders

VARIABLE phase      \* phase[o]: how far the recharge of order number o got

Phases == {"none", "open", "success", "failed"}

TypeOK == phase \in [Orders -> Phases]

Init == phase = [o \in Orders |-> "none"]

(* Order o may move from phase p to phase q. *)
Move(o, p, q) ==
  /\ phase[o] = p
  /\ phase' = [phase EXCEPT ![o] = q]

Open(o)    == Move(o, "none", "open")
Succeed(o) == Move(o, "open", "success")
GiveUp(o)  == Move(o, "open", "failed")

Next == \E o \in Orders : Open(o) \/ Succeed(o) \/ GiveUp(o)

Spec == Init /\ [][Next]_phase

=============================================================================
