\* Three orders with two coupons, two influencers, two months, two reversals, one
\* fault.
SPECIFICATION Spec
CONSTANTS
  CouponOrders = {o1, o2, o3}
  Coupons = {c1, c2}
  Influencers = {i1, i2}
  LastMonth = 2
  MaxReverts = 2
  MaxFaults = 1
SYMMETRY Symmetry
INVARIANTS
  SalesAgree
\* Every order may have been delivered and taken back.
CHECK_DEADLOCK FALSE
