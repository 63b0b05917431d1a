\* Two overlapping requests, one number left, a coupon whose discount changes.
SPECIFICATION FairSpec
CONSTANTS
  Calls = {r1, r2}
  Users = {u1}
  BigoIds = {b1, b2}
  Numbers = {n1}
  BasePrice = 3
  Discounts = {1, 2}
  MaxUses = 1
  FirstPurchase = FALSE
  OncePerBigoId = FALSE
  MaxAttempts = 2
  MaxActive = 2
  MaxRefunds = 1
INVARIANTS
  NumbersUnique
  AnswerMatchesRequest
PROPERTIES
  ClosedCouponNotTaken
  EveryRequestAnswered
\* Every request may have been answered and every order closed.
CHECK_DEADLOCK FALSE
