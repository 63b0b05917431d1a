\* One order with a coupon, two overlapping handlers, one webhook sent
\* twice, one restart.
SPECIFICATION FairSpec
CONSTANTS
  Orders = {o1}
  CouponOrders = {o1}
  NoOrder = none
  Workers = {w1, w2}
  MaxDuplicates = 1
  MaxRestarts = 1
INVARIANTS
  DeliveredOnlyIfPaid
  CompletedMeansDelivered
  PaidOrderInFulfilment
  OneHandlerFulfils
  CouponNeverOvercounted
PROPERTIES
  ApprovedNoticeTakesEffect
  PaidLeadsToRecharge
  LedgerSpec
\* Every payment may have reached its last state.
CHECK_DEADLOCK FALSE
