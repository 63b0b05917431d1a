\* The recharge succeeds in a retry.
SPECIFICATION FairSpec
CONSTANTS
  Orders = {o1}
  CouponOrders = {}
  NoOrder = none
  Workers = {w1}
  MaxDuplicates = 0
  MaxRestarts = 0
PROPERTY
  ProcessingUntilRecharged
CHECK_DEADLOCK FALSE
