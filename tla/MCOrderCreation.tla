---------------------------- MODULE MCOrderCreation ----------------------------
(* Small instances of OrderCreation for TLC.  Calls, users, Bigo accounts *)
(* and numbers are interchangeable.                                        *)
EXTENDS OrderCreation, TLC

Symmetry == Permutations(Calls) \cup Permutations(Users)
              \cup Permutations(BigoIds) \cup Permutations(Numbers)

(* The run of the limits keeps to the requests that may use the coupon:    *)
(* it stays open, and they ask for it at the price that is due.            *)
CouponRequests ==
  open /\ \A r \in Calls : call[r].at # "idle" => call[r].coupon /\ call[r].asked = FinalAmount
=============================================================================
