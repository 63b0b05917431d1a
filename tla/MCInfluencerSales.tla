--------------------------- MODULE MCInfluencerSales ---------------------------
(* Small instances of InfluencerSales for TLC.  Orders, coupons and        *)
(* influencers are interchangeable.                                        *)
EXTENDS InfluencerSales, TLC

Symmetry ==
  Permutations(CouponOrders) \cup Permutations(Coupons) \cup Permutations(Influencers)
=============================================================================
