---------------------------- MODULE InfluencerSales ----------------------------
(***************************************************************************)
(* confirmCouponUsage, revertCouponUsage and updateInfluencerMonthlySales: *)
(* the usage of the coupons of a store, and the sales of its influencers   *)
(* per month, of which there is at most one row for each.                  *)
(*                                                                         *)
(* A transaction first updates the row of its coupon, whose lock it holds  *)
(* until it ends; so there is at most one for each coupon, and it is named *)
(* after the coupon.  Then it looks for the row of the influencer and the  *)
(* month, and then it updates or creates that row and commits.             *)
(* Transactions on different coupons overlap; what one has done the others *)
(* see when it has committed.  Every order has price 1, so that            *)
(* Coupon.timesUsed and Coupon.totalSalesAmount are one number.            *)
(***************************************************************************)
EXTENDS Integers, FiniteSets, FiniteSetsExt

CONSTANTS
  CouponOrders, \* orders with a coupon
  Coupons, Influencers,
  LastMonth,    \* bound: months are 1..LastMonth
  MaxReverts,   \* bound: reports of a refund or a chargeback
  MaxFaults     \* bound: transactions that are rolled back

Months == 1..LastMonth
SalesRows == Influencers \X Months  \* the unique key of InfluencerMonthlySales

ASSUME SalesAssumption ==
  /\ IsFiniteSet(CouponOrders) /\ IsFiniteSet(Coupons) /\ IsFiniteSet(Influencers)
  /\ LastMonth \in Nat \ {0} /\ MaxReverts \in Nat /\ MaxFaults \in Nat

VARIABLES
  month,     \* the current month
  order,     \* order[o]: coupon and month of creation, whether it is delivered
  tx,        \* tx[c]: the transaction that holds the lock of coupon c
  used,      \* used[c]: Coupon.timesUsed
  records,   \* the keys that have a row
  total,     \* total[k]: InfluencerMonthlySales.totalSales
  clashes,   \* clashes[k]: confirmations that failed on the unique index
  skipped,   \* reversals that have found no row
  reverts, faults

vars == <<month, order, tx, used, records, total, clashes, skipped, reverts, faults>>

NoRow    == [at |-> "none"]
OrderRow == [at : {"created", "confirming", "confirmed"}, coupon : Coupons, month : Months]
NoTx     == [at |-> "none"]
Tx       == [at : {"coupon", "sales"}, kind : {"confirm", "revert"},
             order : CouponOrders, row : SalesRows, found : BOOLEAN]

TypeOK ==
  /\ month \in Months
  /\ order \in [CouponOrders -> OrderRow \cup {NoRow}]
  /\ tx \in [Coupons -> Tx \cup {NoTx}]
  /\ used \in [Coupons -> Int]
  /\ records \subseteq SalesRows
  /\ total \in [SalesRows -> Int]
  /\ clashes \in [SalesRows -> Nat]
  /\ skipped \in Nat
  /\ reverts \in 0..MaxReverts /\ faults \in 0..MaxFaults

Init ==
  /\ month = 1
  /\ order = [o \in CouponOrders |-> NoRow]
  /\ tx = [c \in Coupons |-> NoTx]
  /\ used = [c \in Coupons |-> 0]
  /\ records = {}
  /\ total = [k \in SalesRows |-> 0]
  /\ clashes = [k \in SalesRows |-> 0]
  /\ skipped = 0 /\ reverts = 0 /\ faults = 0

tables   == <<used, records, total, clashes, skipped>>
counters == <<reverts, faults>>

-----------------------------------------------------------------------------
(* Orders *)

CreateCouponOrder(o, c) ==
  /\ order[o] = NoRow
  /\ order' = [order EXCEPT ![o] = [at |-> "created", coupon |-> c, month |-> month]]
  /\ UNCHANGED <<month, tx, tables, counters>>

(* The order is COMPLETED; handleApprovedPayment calls confirmCouponUsage, *)
(* once. *)
Deliver(o) ==
  /\ order[o].at = "created"
  /\ order' = [order EXCEPT ![o].at = "confirming"]
  /\ UNCHANGED <<month, tx, tables, counters>>

NextMonth ==
  /\ month < LastMonth
  /\ month' = month + 1
  /\ UNCHANGED <<order, tx, tables, counters>>

-----------------------------------------------------------------------------
(* Transactions                                                            *)

(* getMonth() + 1.                                                         *)
SaleMonth(m) == m

(* The update of the coupon: waits for the lock, if need be.  The row is    *)
(* that of the influencer the coupon had when the order was read; the      *)
(* coupon may have been given to another one since the order was made, or  *)
(* since it was confirmed (CouponService.update).                          *)
Begin(o, kind, m) == \E i \in Influencers :
  /\ tx[order[o].coupon] = NoTx
  /\ tx' = [tx EXCEPT ![order[o].coupon] =
              [at |-> "coupon", kind |-> kind, order |-> o,
               row |-> <<i, SaleMonth(m)>>, found |-> FALSE]]

(* A sale is confirmed for the current month ... *)
BeginConfirm(o) ==
  /\ order[o].at = "confirming"
  /\ Begin(o, "confirm", month)
  /\ order' = [order EXCEPT ![o].at = "confirmed"]
  /\ UNCHANGED <<month, tables, counters>>

(* ... and taken back from the month in which the order was created, also  *)
(* when it has never been confirmed and when it is taken back again.       *)
BeginRevert(o) ==
  /\ order[o] # NoRow /\ reverts < MaxReverts
  /\ Begin(o, "revert", order[o].month)
  /\ reverts' = reverts + 1
  /\ UNCHANGED <<month, order, tables, faults>>

(* findFirst.                                                              *)
RowFound(k) == k \in records

FindRecord(c) ==
  /\ tx[c].at = "coupon"
  /\ tx' = [tx EXCEPT ![c] = [@ EXCEPT !.at = "sales", !.found = RowFound(tx[c].row)]]
  /\ UNCHANGED <<month, order, tables, counters>>

(* The last statement and the COMMIT.                                      *)

(* The sign of a transaction. *)
Sign(kind) == IF kind = "confirm" THEN 1 ELSE -1

(* The row has been found: both rows change. *)
UpdateRecord(c) ==
  LET t == tx[c] IN
  /\ t.found
  /\ used' = [used EXCEPT ![c] = @ + Sign(t.kind)]
  /\ total' = [total EXCEPT ![t.row] = @ + Sign(t.kind)]
  /\ UNCHANGED <<records, clashes, skipped>>

CreateRecord(c) ==
  LET t == tx[c] IN
  /\ ~t.found /\ t.kind = "confirm" /\ t.row \notin records
  /\ used' = [used EXCEPT ![c] = @ + 1]
  /\ records' = records \cup {t.row}
  /\ total' = [total EXCEPT ![t.row] = 1]
  /\ UNCHANGED <<clashes, skipped>>

(* Another transaction has created the row since: the unique index refuses *)
(* a second one, the transaction is rolled back, and confirmCouponUsage    *)
(* logs the error.  (AfterClashKept: without a transaction, the coupon is  *)
(* counted.)                                                               *)
AfterClashKept(c) == used[c] + 1
AfterClash(c) == used[c]

Clash(c) ==
  LET t == tx[c] IN
  /\ ~t.found /\ t.kind = "confirm" /\ t.row \in records
  /\ used' = [used EXCEPT ![c] = AfterClash(c)]
  /\ clashes' = [clashes EXCEPT ![t.row] = @ + 1]
  /\ UNCHANGED <<records, total, skipped>>

(* "Cannot create new record with negative sale amount": revertCouponUsage *)
(* catches the error, and the transaction of the refund, which it is part  *)
(* of, commits with the coupon decremented. *)
SkipRecord(c) ==
  LET t == tx[c] IN
  /\ ~t.found /\ t.kind = "revert"
  /\ used' = [used EXCEPT ![c] = @ - 1]
  /\ skipped' = skipped + 1
  /\ UNCHANGED <<records, total, clashes>>

Commit(c) ==
  /\ tx[c].at = "sales"
  /\ \/ UpdateRecord(c)
     \/ CreateRecord(c)
     \/ Clash(c)
     \/ SkipRecord(c)
  /\ tx' = [tx EXCEPT ![c] = NoTx]
  /\ UNCHANGED <<month, order, counters>>

(* The connection breaks or the process stops: nothing has happened. *)
Rollback(c) ==
  /\ tx[c] # NoTx /\ faults < MaxFaults
  /\ faults' = faults + 1
  /\ tx' = [tx EXCEPT ![c] = NoTx]
  /\ UNCHANGED <<month, order, tables, reverts>>

Next ==
  \/ \E o \in CouponOrders, c \in Coupons : CreateCouponOrder(o, c)
  \/ \E o \in CouponOrders : Deliver(o) \/ BeginConfirm(o) \/ BeginRevert(o)
  \/ \E c \in Coupons : FindRecord(c) \/ Commit(c) \/ Rollback(c)
  \/ NextMonth

Spec == Init /\ [][Next]_vars

-----------------------------------------------------------------------------
(* Properties                                                              *)

SumOf(f) == MapThenSumSet(LAMBDA x : f[x], DOMAIN f)

(* The sales of the influencers are the sales of the coupons, whatever     *)
(* overlaps, clashes, is rolled back or is given to another influencer -   *)
(* but for the reversals that found no row, which only the coupon shows    *)
(* (updateInfluencerMonthlySales, revertCouponUsage).                      *)
SalesAgree == SumOf(total) = SumOf(used) + skipped

(* A confirmation is lost to a clash only when it overlaps with the first  *)
(* confirmation for the same influencer and month through another coupon:  *)
(* it happens less often for a row than there are coupons.                 *)
ClashesBounded == \A k \in SalesRows : clashes[k] > 0 => clashes[k] < Cardinality(Coupons)
=============================================================================
