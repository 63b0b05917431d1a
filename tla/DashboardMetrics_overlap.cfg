\* Two orders for two products, two days, two recalculations at a time.
SPECIFICATION DashboardSpec
CONSTANTS
  o1 = o1
  o2 = o2
  x = x
  y = y
  Orders = {o1, o2}
  Price <- MCPrice
  ProductOf <- MCProductOf
  Jobs = {w1, w2}
  LastDay = 2
  MaxRecalculations = 1
SYMMETRY Interchangeable
INVARIANTS
  DashboardTypeOK
  SaleCounted
  OnlySoldCounted
  DashboardAddsUp
\* The recalculations are used up and the orders settled.
CHECK_DEADLOCK FALSE
