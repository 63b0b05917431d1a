\* Three requests with the coupon, two at a time, by two buyers for one Bigo account.
SPECIFICATION Spec
CONSTANTS
  Calls = {r1, r2, r3}
  Users = {u1, u2}
  BigoIds = {b1}
  Numbers = {n1, n2, n3}
  BasePrice = 3
  Discounts = {1}
  MaxUses = 0
  FirstPurchase = TRUE
  OncePerBigoId = TRUE
  MaxAttempts = 2
  MaxActive = 2
  MaxRefunds = 1
SYMMETRY Symmetry
CONSTRAINT CouponRequests
INVARIANTS
  UsesWithinOverlap
  FirstPurchasesWithinOverlap
\* Every request may have been answered and every order closed.
CHECK_DEADLOCK FALSE
