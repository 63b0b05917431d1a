--------------------------- MODULE DashboardMetrics ---------------------------
(***************************************************************************)
(* MetricsService: the rows of StoreDailySales, StoreMonthlySales and      *)
(* StoreMonthlySalesByProduct of one store and month, and the dashboard    *)
(* that is made from them.                                                 *)
(*                                                                         *)
(* Every recalculation reads orders, computes, and overwrites rows, in     *)
(* separate queries without a transaction.  updateMetricsForOrder runs     *)
(* after an order has become COMPLETED, recalculateStoreMetrics for the    *)
(* cron job (MetricsCron) and for administrators; nothing runs when an     *)
(* order is refunded, expires or is approved again.  A total is represented by the set of the orders   *)
(* that were summed.  The counts of expired and refunded orders and of new *)
(* customers, and the split by coupon, are left out.                       *)
(***************************************************************************)
EXTENDS Integers, FiniteSets, FiniteSetsExt

CONSTANTS
  Orders,     \* each is created once at most
  Price, ProductOf,
  Jobs,       \* places for recalculations
  LastDay,    \* bound: the days of the month
  MaxRecalculations  \* bound: by the cron job and by administrators

Products == {ProductOf[o] : o \in Orders}
Days     == 1..LastDay

ASSUME MetricsAssumption ==
  /\ IsFiniteSet(Orders) /\ LastDay \in Nat \ {0} /\ MaxRecalculations \in Nat
  /\ Price \in [Orders -> Nat \ {0}] /\ ProductOf \in [Orders -> Products]

VARIABLES
  today,
  day,      \* day[o]: when o was created; 0: not yet
  status,   \* status[o]: its OrderStatus
  sold,     \* the orders that have ever become COMPLETED
  daily, monthly, product,   \* the rows
  job,      \* job[w]: what the recalculation in place w is doing
  started,  \* how often Recalculate has been taken
  excused,  \* orders whose update failed or whose sale was overwritten by
            \* a recalculation that had read the orders before
  clean     \* the last recalculation ran alone and to its end

orderVars == <<today, day, status, sold>>
rows == <<daily, monthly, product>>
dashboardVars == <<orderVars, rows, job, started, excused, clean>>

(* OTHER stands for PROCESSING, EXPIRED and REFOUNDED: an order goes from  *)
(* any of them to any other, and none is counted as a sale.                *)
OrderStatus == {"CREATED", "COMPLETED", "OTHER"}

Row      == {row \in [orders : SUBSET Orders, sales : SUBSET Orders] : row.sales \subseteq row.orders}
EmptyRow == [orders |-> {}, sales |-> {}]  \* also: no row

(* A recalculation: its stage, the order it was started for (if any), the  *)
(* day, what it has read, the products it has to write, the orders that    *)
(* changed since it read those of the day, and whether it has been alone.  *)
Stages == {"find", "expire", "readDay", "writeDay", "readMonth", "writeMonth",
           "readProducts", "writeProducts"}
Job    == [at : Stages, for : SUBSET Orders, day : Days, read : Row,
           todo : SUBSET Products, missed : SUBSET Orders, alone : BOOLEAN]
Idle   == [at |-> "idle"]

CreatedOn(d) == {o \in Orders : day[o] = d}

DashboardTypeOK ==
  /\ today \in Days
  /\ day \in [Orders -> 0..today]
  /\ status \in [Orders -> OrderStatus] /\ sold \subseteq Orders
  /\ monthly \in Row /\ product \in [Products -> Row]
  /\ daily \in [Days -> Row] /\ \A d \in Days : daily[d].orders \subseteq CreatedOn(d)
  /\ job \in [Jobs -> Job \cup {Idle}]
  /\ started \in 0..MaxRecalculations
  /\ excused \subseteq Orders /\ clean \in BOOLEAN

DashboardInit ==
  /\ today = 1
  /\ day = [o \in Orders |-> 0]
  /\ status = [o \in Orders |-> "CREATED"] /\ sold = {}
  /\ daily = [d \in Days |-> EmptyRow]
  /\ monthly = EmptyRow
  /\ product = [p \in Products |-> EmptyRow]
  /\ job = [w \in Jobs |-> Idle]
  /\ started = 0 /\ excused = {} /\ clean = TRUE

----------------------------------------------------------------------------
(* Orders (OrderCreation and OrderPayment have their rules). *)

(* Recalculations during a change of the orders O. *)
Disturbed(js, O) == [w \in Jobs |->
  IF js[w] = Idle THEN Idle
  ELSE [js[w] EXCEPT !.missed = IF js[w].at = "writeDay" THEN @ \cup O ELSE {}, !.alone = FALSE]]

(* A recalculation that starts: no other is alone any more. *)
Started(w, s, O, d) ==
  [Disturbed(job, {}) EXCEPT ![w] =
     [at |-> s, for |-> O, day |-> d, read |-> EmptyRow, todo |-> {}, missed |-> {},
      alone |-> \A v \in Jobs : job[v] = Idle]]

CreateOrder(o) ==
  /\ day[o] = 0
  /\ day' = [day EXCEPT ![o] = today]
  /\ job' = Disturbed(job, {o})
  /\ UNCHANGED <<today, status, sold, rows, excused, clean, started>>

(* The day whose rows an order belongs to (DayOfCompletion takes the day   *)
(* on which it is completed).                                              *)
DayOfCompletion(o) == IF day[o] = 0 THEN 1 ELSE today
DayOf(o) == IF day[o] = 0 THEN 1 ELSE day[o]

(* Bravive reports on the payment: it is approved, for the first time or   *)
(* again, rejected or refunded, whatever the order is by then.             *)
Report(o) ==
  /\ day[o] # 0
  /\ status' = [status EXCEPT ![o] = "OTHER"]
  /\ job' = Disturbed(job, {o})
  /\ UNCHANGED <<today, day, sold, rows, excused, clean, started>>

(* Bigo has delivered, which it does once.  The order becomes COMPLETED,   *)
(* whatever has been reported since it was approved, and its handler       *)
(* updates the metrics.                                                    *)
Complete(w, o) ==
  /\ day[o] # 0 /\ status[o] # "CREATED" /\ o \notin sold
  /\ job[w] = Idle
  /\ status' = [status EXCEPT ![o] = "COMPLETED"]
  /\ sold' = sold \cup {o}
  /\ job' = [Disturbed(job, {o}) EXCEPT ![w] = Started(w, "find", {o}, DayOf(o))[w]]
  /\ clean' = FALSE
  /\ UNCHANGED <<today, day, rows, excused, started>>

(* checkAndExpireOrders, when orders are read: unpaid orders, old enough.  *)
Unpaid(d) == {o \in Orders : day[o] \in 1..d /\ day[o] < today /\ status[o] = "CREATED"}
SetExpired(O) == status' = [o \in Orders |-> IF o \in O THEN "OTHER" ELSE status[o]]

ExpireOrders == \E O \in (SUBSET Unpaid(today)) \ {{}} :
  /\ SetExpired(O)
  /\ job' = Disturbed(job, O)
  /\ UNCHANGED <<today, day, sold, rows, excused, clean, started>>

NextDay ==
  /\ today < LastDay
  /\ today' = today + 1
  /\ UNCHANGED <<day, status, sold, rows, job, excused, clean, started>>

----------------------------------------------------------------------------
(* Recalculations. *)

GoTo(w, s) == job' = [job EXCEPT ![w].at = s, ![w].read = EmptyRow]

(* By the cron job or an administrator, for a day of the month so far      *)
(* (MetricsCron has the days that are chosen).                             *)
Recalculate(w, d) ==
  /\ job[w] = Idle /\ d <= today
  /\ started < MaxRecalculations
  /\ started' = started + 1
  /\ job' = Started(w, "expire", {}, d)
  /\ clean' = FALSE
  /\ UNCHANGED <<orderVars, rows, excused>>

(* recalculateStoreMetrics expires unpaid orders up to the day first; an   *)
(* error there is swallowed.                                               *)
ExpireFirst(w) ==
  /\ job[w].at = "expire"
  /\ \E O \in SUBSET Unpaid(job[w].day) :
       /\ SetExpired(O)
       /\ job' = [Disturbed(job, O) EXCEPT ![w] = [job[w] EXCEPT !.at = "readDay"]]
  /\ UNCHANGED <<today, day, sold, rows, excused, clean, started>>

(* updateMetricsForOrder goes on only if the order is COMPLETED. *)
FindOrder(w) ==
  /\ job[w].at = "find"
  /\ IF \A o \in job[w].for : status[o] = "COMPLETED" THEN GoTo(w, "readDay")
     ELSE job' = [job EXCEPT ![w] = Idle]
  /\ UNCHANGED <<orderVars, rows, excused, clean, started>>

(* Whose price is summed. *)
Counted(O) == {o \in O : status[o] = "COMPLETED"}

RowOf(O) == [orders |-> O, sales |-> Counted(O)]

(* The orders of a day, from midnight to midnight (DayAndNext goes on to   *)
(* the end of the next day).                                               *)
DayAndNext(d) == CreatedOn(d) \cup CreatedOn(d + 1)
OrdersOfDay(d) == CreatedOn(d)

Read(w, O, s) ==
  /\ job' = [job EXCEPT ![w].at = s, ![w].read = RowOf(O), ![w].missed = {},
                        ![w].todo = IF s = "writeProducts" THEN {ProductOf[o] : o \in O} ELSE {}]
  /\ UNCHANGED <<orderVars, rows, excused, clean, started>>

ReadDay(w)   == job[w].at = "readDay" /\ Read(w, OrdersOfDay(job[w].day), "writeDay")
ReadMonth(w) == job[w].at = "readMonth" /\ Read(w, UNION {CreatedOn(d) : d \in Days}, "writeMonth")
ReadProducts(w) ==
  job[w].at = "readProducts" /\ Read(w, UNION {CreatedOn(d) : d \in Days}, "writeProducts")

(* The upsert of the day.  It may take back a sale of which it has not     *)
(* heard.                                                                  *)
WriteDay(w) ==
  /\ job[w].at = "writeDay"
  /\ daily' = [daily EXCEPT ![job[w].day] = job[w].read]
  /\ excused' = (excused \cup (daily[job[w].day].sales \cap job[w].missed)) \ job[w].read.sales
  /\ job' = [job EXCEPT ![w] = [@ EXCEPT !.at = "readMonth", !.for = {}, !.day = 1,
                                         !.read = EmptyRow, !.missed = {}]]
  /\ UNCHANGED <<orderVars, monthly, product, clean, started>>

WriteMonth(w) ==
  /\ job[w].at = "writeMonth"
  /\ monthly' = job[w].read
  /\ GoTo(w, "readProducts")
  /\ UNCHANGED <<orderVars, daily, product, excused, clean, started>>

(* One upsert per product; the last one ends the recalculation. *)
Ended(w) == job' = [job EXCEPT ![w] = Idle] /\ clean' = job[w].alone

(* A product's part of what has been read (EveryOrderSold sums the price   *)
(* of every order).                                                        *)
OfProduct(p) == {o \in Orders : ProductOf[o] = p}
EveryOrderSold(read, p) ==
  [orders |-> read.orders \cap OfProduct(p), sales |-> read.orders \cap OfProduct(p)]
ProductRow(read, p) ==
  [orders |-> read.orders \cap OfProduct(p), sales |-> read.sales \cap OfProduct(p)]

WriteProduct(w) ==
  /\ job[w].at = "writeProducts"
  /\ IF job[w].todo = {} THEN Ended(w) /\ UNCHANGED product
     ELSE \E p \in job[w].todo :
       /\ product' = [product EXCEPT ![p] = ProductRow(job[w].read, p)]
       /\ IF job[w].todo = {p} THEN Ended(w)
          ELSE job' = [job EXCEPT ![w].todo = @ \ {p}] /\ UNCHANGED clean
  /\ UNCHANGED <<orderVars, daily, monthly, excused, started>>

(* A query fails, or the process stops: for an order, nobody is told. *)
Fail(w) ==
  /\ job[w] # Idle
  /\ job' = [job EXCEPT ![w] = Idle]
  /\ excused' = excused \cup (IF job[w].at \in {"find", "readDay", "writeDay"} THEN job[w].for ELSE {})
  /\ UNCHANGED <<orderVars, rows, clean, started>>

JobStep(w) ==
  \/ ExpireFirst(w) \/ FindOrder(w) \/ ReadDay(w) \/ WriteDay(w) \/ ReadMonth(w)
  \/ WriteMonth(w) \/ ReadProducts(w) \/ WriteProduct(w) \/ Fail(w)

DashboardNext ==
  \/ \E o \in Orders : CreateOrder(o) \/ Report(o) \/ \E w \in Jobs : Complete(w, o)
  \/ ExpireOrders \/ NextDay
  \/ \E w \in Jobs : JobStep(w) \/ \E d \in Days : Recalculate(w, d)

DashboardSpec == DashboardInit /\ [][DashboardNext]_dashboardVars

----------------------------------------------------------------------------
(* The dashboard. *)

Amount(O) == MapThenSumSet(LAMBDA o : Price[o], O)

(* Shares of the month's sales, in percent; 0 if nothing was sold. *)
Percentage(p) ==
  IF monthly.sales = {} THEN 0 ELSE (Amount(product[p].sales) * 100) \div Amount(monthly.sales)

Dashboard ==
  [totalSales |-> Amount(monthly.sales), totalOrders |-> Cardinality(monthly.orders),
   averageTicket |-> IF monthly.sales = {} THEN 0
                     ELSE Amount(monthly.sales) \div Cardinality(monthly.sales),
   dailyTrend |-> [d \in Days |-> Amount(daily[d].sales)],
   salesByProduct |-> [p \in Products |-> Percentage(p)]]

----------------------------------------------------------------------------
(* Properties *)

(* A completed order is in the total of the day of its creation, however   *)
(* late it was completed, unless its handler is still at it or has failed, *)
(* or a recalculation that had read the orders before took the sale off.   *)
SaleCounted ==
  \A o \in Orders : status[o] = "COMPLETED" =>
    \/ o \in daily[day[o]].sales
    \/ o \in excused
    \/ \E w \in Jobs : /\ job[w] # Idle /\ o \in job[w].for
                       /\ job[w].at \in {"find", "readDay", "writeDay"}

(* What a row counts as sold was sold, on its day and of its product, and  *)
(* has at most been refunded, or set back by a second approval, since: no  *)
(* order that never was completed is in a total, however recalculations    *)
(* overtake each other and the reports on the order.                       *)
OnlySoldCounted ==
  /\ \A d \in Days : daily[d].sales \subseteq sold \cap CreatedOn(d)
  /\ monthly.sales \subseteq sold
  /\ \A p \in Products : product[p].sales \subseteq sold \cap OfProduct(p)

(* After a recalculation that nothing disturbed, the shares of the         *)
(* products make up the whole of the month's sales.                        *)
DashboardAddsUp ==
  clean => LET board == Dashboard
               shares == MapThenSumSet(LAMBDA p : board.salesByProduct[p], Products)
           IN  IF board.totalSales = 0 THEN shares = 0
               ELSE shares \in (100 - Cardinality(Products))..100
=============================================================================
