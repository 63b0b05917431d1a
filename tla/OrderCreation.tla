---------------------------- MODULE OrderCreation ----------------------------
(***************************************************************************)
(* OrderService.create with validateCoupon: what overlapping requests for  *)
(* orders of one package may do to each other, to one coupon and to the    *)
(* order numbers.                                                          *)
(*                                                                         *)
(* A call is one activation of create; the order it saves, if it saves     *)
(* one, is named after it.  Its stage is the await it has reached: every   *)
(* query of the database is a step of its own.  The administrator and the  *)
(* life of the saved orders go on in between.  Of that life this module    *)
(* keeps what one order may go through (OrderPayment says when): every     *)
(* report of Bravive has been compared with the payment some awaits before *)
(* it is acted upon, and so finds the order in any status.                 *)
(***************************************************************************)
EXTENDS Integers, FiniteSets

CONSTANTS
  Calls,          \* requests for an order
  Users, BigoIds, \* who may ask, and for which Bigo account
  Numbers,        \* what generateOrderNumber can yield
  BasePrice,      \* price of the package
  Discounts,      \* discounts the administrator may give the coupon
  MaxUses,        \* Coupon.maxUses (0: no limit)
  FirstPurchase,  \* Coupon.isFirstPurchase
  OncePerBigoId,  \* Coupon.isOneTimePerBigoId
  MaxAttempts,    \* maxAttempts of the loop that looks for a number
  MaxActive,      \* bound: how many calls overlap
  MaxRefunds      \* bound: how often refunds and chargebacks are reported

ASSUME CreationAssumption ==
  /\ BasePrice \in Nat
  /\ Discounts \subseteq 1..BasePrice /\ Discounts # {}
  /\ MaxUses \in Nat
  /\ FirstPurchase \in BOOLEAN /\ OncePerBigoId \in BOOLEAN
  /\ MaxAttempts \in Nat \ {0}
  /\ MaxActive \in Nat /\ MaxRefunds \in Nat

VARIABLES
  call,       \* call[r]: stage, request, price due, number tried, if any
  answer,     \* answer[r]: the call whose order r has been given
  order,      \* order[r]: status of the order and of its payment, whether it was
              \*           created in the last 5 seconds, and how far the one
              \*           exchange with Bigo has got that may complete it
  timesUsed,  \* Coupon.timesUsed
  open,       \* whether the coupon is active, unexpired and not deleted
  discount,   \* Coupon.discountAmount
  freed,      \* freed[r]: the statuses order r has had that give the coupon
              \*           back (read by the properties only)
  refunds     \* how often a refund or a chargeback has been reported

lifeVars   == <<order, timesUsed, freed, refunds>>
couponVars == <<open, discount>>
vars       == <<call, answer, lifeVars, couponVars>>

Stages == {"coupon", "first", "bigo", "account", "number", "recent",
           "pay", "save", "done", "refused"}
Prices == {BasePrice} \cup {BasePrice - d : d \in Discounts}
Call   == [at : Stages, user : Users, bigo : BigoIds, coupon : BOOLEAN,
           asked : Prices, due : Prices, tries : 0..MaxAttempts, number : SUBSET Numbers]
Idle   == [at |-> "idle"]

OrderStatus   == {"NONE", "CREATED", "PROCESSING", "COMPLETED", "EXPIRED", "REFOUNDED"}
PaymentStatus == {"PENDING", "APPROVED", "REJECTED"}
Order == [status : OrderStatus, payment : PaymentStatus, recent : BOOLEAN,
          bigo : {"none", "asked", "done"}]

TypeOK ==
  /\ call \in [Calls -> Call \cup {Idle}]
  /\ answer \in [Calls -> SUBSET Calls]
  /\ order \in [Calls -> Order]
  /\ timesUsed \in Int
  /\ open \in BOOLEAN
  /\ discount \in Discounts
  /\ freed \in [Calls -> SUBSET {"EXPIRED", "REFOUNDED"}]
  /\ refunds \in 0..MaxRefunds

NoOrder  == [status |-> "NONE", payment |-> "PENDING", recent |-> FALSE, bigo |-> "none"]
NewOrder == [status |-> "CREATED", payment |-> "PENDING", recent |-> TRUE, bigo |-> "none"]

Init ==
  /\ call = [r \in Calls |-> Idle]
  /\ answer = [r \in Calls |-> {}]
  /\ order = [r \in Calls |-> NoOrder]
  /\ timesUsed = 0
  /\ open = TRUE
  /\ discount \in Discounts
  /\ freed = [r \in Calls |-> {}]
  /\ refunds = 0

Saved     == {r \in Calls : order[r].status # "NONE"}
Active    == {r \in Calls : call[r].at \notin {"idle", "done", "refused"}}
GoTo(r, s) == call' = [call EXCEPT ![r].at = s]

-----------------------------------------------------------------------------
(* The request and its coupon                                              *)

(* User u asks for the package, for Bigo account b, with or without the    *)
(* coupon, at a price.  User, store, package, payment method and the Bigo  *)
(* account have been looked up; none of that changes in this module.       *)
Begin(r, u, b, coupon, asked) ==
  /\ call[r].at = "idle"
  /\ Cardinality(Active) < MaxActive
  /\ call' = [call EXCEPT ![r] =
       [at |-> IF coupon THEN "coupon" ELSE IF asked = BasePrice THEN "number" ELSE "refused",
        user |-> u, bigo |-> b, coupon |-> coupon, asked |-> asked,
        due |-> BasePrice, tries |-> 0, number |-> {}]]
  /\ UNCHANGED <<answer, lifeVars, couponVars>>

(* validateCoupon reads the coupon once.  (CouponValidIfAny: it does not   *)
(* look at isActive, expiresAt and deletedAt.)                             *)
CouponValidIfAny == MaxUses = 0 \/ timesUsed < MaxUses
CouponValid == open /\ (MaxUses = 0 \/ timesUsed < MaxUses)

(* The amount left to pay.                                                 *)
FinalAmount == BasePrice - discount

ReadCoupon(r) ==
  /\ call[r].at = "coupon"
  /\ call' = [call EXCEPT ![r].at  = IF CouponValid THEN "first" ELSE "refused",
                          ![r].due = IF CouponValid THEN FinalAmount ELSE @]
  /\ UNCHANGED <<answer, lifeVars, couponVars>>

(* An order that counts as a use of the coupon, for the two queries of     *)
(* CouponUsage.  (CountsOnceApproved: only when it has been paid.)         *)
CountsOnceApproved(q) ==
  /\ q \in Saved /\ call[q].coupon
  /\ order[q].status \notin {"EXPIRED", "REFOUNDED"}
  /\ order[q].payment = "APPROVED"

Counts(q) ==
  /\ q \in Saved /\ call[q].coupon
  /\ order[q].status \notin {"EXPIRED", "REFOUNDED"}
  /\ order[q].payment \in {"PENDING", "APPROVED"}

(* The order of call q keeps call r from using the coupon, by the query of *)
(* stage s.  (IsPreviousUnlessNew: orders waiting for payment do not count *)
(* as previous orders.)                                                    *)
IsPreviousUnlessNew(q) == q \in Saved /\ order[q].status \notin {"EXPIRED", "CREATED"}
IsPrevious(q) == q \in Saved /\ order[q].status # "EXPIRED"

Blocks(q, r, s) ==
  \/ s = "first" /\ FirstPurchase /\ IsPrevious(q) /\ call[q].user = call[r].user
  \/ s = "bigo" /\ OncePerBigoId /\ Counts(q) /\ call[q].bigo = call[r].bigo
  \/ s = "account" /\ OncePerBigoId /\ Counts(q) /\ call[q].user = call[r].user

(* The price the buyer has sent must be the price due.                     *)
AfterValidation(r) == IF call[r].asked = call[r].due THEN "number" ELSE "refused"

CheckHistory(r, s, next) ==
  /\ call[r].at = s
  /\ GoTo(r, IF \E q \in Calls : Blocks(q, r, s) THEN "refused" ELSE next)
  /\ UNCHANGED <<answer, lifeVars, couponVars>>

CheckCouponHistory(r) ==
  \/ CheckHistory(r, "first", "bigo")
  \/ CheckHistory(r, "bigo", "account")
  \/ CheckHistory(r, "account", AfterValidation(r))

-----------------------------------------------------------------------------
(* The number, the recent order and the payment                            *)

Taken(n) == \E q \in Saved : n \in call[q].number

(* One turn of the loop.  The limit is tested before the number is, so the *)
(* last attempt never counts.  (OutOfAttemptsNever: without a limit.)      *)
OutOfAttemptsNever(tries) == tries < 0
OutOfAttempts(tries) == tries >= MaxAttempts

TryNumber(r) ==
  /\ call[r].at = "number"
  /\ \E n \in Numbers :
       call' = [call EXCEPT
         ![r].number = {n},
         ![r].tries = IF @ < MaxAttempts THEN @ + 1 ELSE @,
         ![r].at = IF OutOfAttempts(call[r].tries + 1) THEN "refused"
                   ELSE IF Taken(n) THEN "number" ELSE "recent"]
  /\ UNCHANGED <<answer, lifeVars, couponVars>>

(* The orders of the last 5 seconds by the same buyer for the same Bigo    *)
(* account and package.  (RecentOrdersAnyBigo: whatever its Bigo account.) *)
RecentOrdersAnyBigo(r) ==
  {q \in Saved : order[q].recent /\ call[q].user = call[r].user}

RecentOrders(r) ==
  {q \in Saved : order[q].recent /\ call[q].user = call[r].user
                                 /\ call[q].bigo = call[r].bigo}

(* Such an order is given again if it is unpaid and has the same price and *)
(* coupon.                                                                 *)
SameOrder(q, r) ==
  /\ order[q].payment = "PENDING" /\ order[q].status \in {"CREATED", "EXPIRED"}
  /\ call[q].due = call[r].due
  /\ call[q].coupon = call[r].coupon

(* findFirst without an order: any recent order may be the one looked at.  *)
FindRecent(r) ==
  /\ call[r].at = "recent"
  /\ \/ \E q \in RecentOrders(r) :
          IF SameOrder(q, r)
          THEN GoTo(r, "done") /\ answer' = [answer EXCEPT ![r] = {q}]
          ELSE GoTo(r, "pay") /\ UNCHANGED answer
     \/ RecentOrders(r) = {} /\ GoTo(r, "pay") /\ UNCHANGED answer
  /\ UNCHANGED <<lifeVars, couponVars>>

(* Bravive creates the payment or fails. *)
AskForPayment(r) ==
  /\ call[r].at = "pay"
  /\ GoTo(r, "save") \/ GoTo(r, "refused")
  /\ UNCHANGED <<answer, lifeVars, couponVars>>

(* The transaction.  orderNumber is unique: when another call has saved an *)
(* order with the number since it was found free, the transaction fails.   *)
(* (NumberFreeUnchecked: without the unique index.)                        *)
NumberFreeUnchecked(r) == call[r].number # {}
NumberFree(r) == \A n \in call[r].number : ~Taken(n)

SaveOrder(r) ==
  /\ call[r].at = "save"
  /\ IF NumberFree(r)
     THEN /\ order' = [order EXCEPT ![r] = NewOrder]
          /\ answer' = [answer EXCEPT ![r] = {r}]
          /\ GoTo(r, "done")
     ELSE GoTo(r, "refused") /\ UNCHANGED <<answer, order>>
  /\ UNCHANGED <<timesUsed, freed, refunds, couponVars>>

CallStep(r) ==
  \/ ReadCoupon(r)
  \/ CheckCouponHistory(r)
  \/ TryNumber(r)
  \/ FindRecent(r)
  \/ AskForPayment(r)
  \/ SaveOrder(r)

-----------------------------------------------------------------------------
(* Meanwhile                                                               *)

(* Five seconds pass for an order. *)
Age(r) ==
  /\ order[r].recent
  /\ order' = [order EXCEPT ![r].recent = FALSE]
  /\ UNCHANGED <<call, answer, timesUsed, freed, refunds, couponVars>>

(* The order gets a status, and its payment another.                       *)
SetStatus(r, s, p) ==
  /\ order' = [order EXCEPT ![r].status = s, ![r].payment = p]
  /\ freed' = [freed EXCEPT ![r] = @ \cup ({s} \cap {"EXPIRED", "REFOUNDED"})]

(* checkAndExpireOrders, for an unpaid order; or expireUnpaidOrders, which *)
(* has found it unpaid and expires it by its id, whatever it is by now.    *)
Expire(r) ==
  /\ r \in Saved
  /\ SetStatus(r, "EXPIRED", order[r].payment)
  /\ UNCHANGED <<call, answer, timesUsed, refunds, couponVars>>

(* handleRejectedOrCanceledPayment.                                        *)
Reject(r) ==
  /\ r \in Saved
  /\ SetStatus(r, "EXPIRED", "REJECTED")
  /\ UNCHANGED <<call, answer, timesUsed, refunds, couponVars>>

(* The first transaction of handleApprovedPayment, whatever has become of  *)
(* the order; Bigo is asked once per order number.                         *)
Approve(r) ==
  /\ r \in Saved
  /\ order' = [order EXCEPT ![r].status = "PROCESSING", ![r].payment = "APPROVED",
                            ![r].bigo = IF @ = "none" THEN "asked" ELSE @]
  /\ UNCHANGED <<call, answer, timesUsed, freed, refunds, couponVars>>

(* Bigo has delivered.  The second transaction does not look at the order; *)
(* confirmCouponUsage follows, and swallows its errors.                    *)
Fulfil(r) ==
  /\ r \in Saved /\ order[r].bigo = "asked"
  /\ order' = [order EXCEPT ![r].status = "COMPLETED", ![r].bigo = "done"]
  /\ timesUsed' \in IF call[r].coupon THEN {timesUsed, timesUsed + 1} ELSE {timesUsed}
  /\ UNCHANGED <<call, answer, freed, refunds, couponVars>>

(* handleRefundedPayment leaves the payment, handleChargebackPayment       *)
(* rejects it; both take the use of the coupon back.                       *)
Refund(r) ==
  /\ r \in Saved
  /\ refunds < MaxRefunds
  /\ refunds' = refunds + 1
  /\ \E p \in {order[r].payment, "REJECTED"} : SetStatus(r, "REFOUNDED", p)
  /\ timesUsed' = IF call[r].coupon THEN timesUsed - 1 ELSE timesUsed
  /\ UNCHANGED <<call, answer, couponVars>>

(* The administrator deactivates or deletes the coupon, or it expires; or  *)
(* its discount is changed. *)
CloseCoupon ==
  /\ open
  /\ open' = FALSE
  /\ UNCHANGED <<call, answer, lifeVars, discount>>

ChangeDiscount(d) ==
  /\ open /\ d # discount
  /\ discount' = d
  /\ UNCHANGED <<call, answer, lifeVars, open>>

OrderLife(r) ==
  \/ Age(r)
  \/ Expire(r)
  \/ Reject(r)
  \/ Approve(r)
  \/ Fulfil(r)
  \/ Refund(r)

Next ==
  \/ \E r \in Calls, u \in Users, b \in BigoIds, coupon \in BOOLEAN, asked \in Prices :
       Begin(r, u, b, coupon, asked)
  \/ \E r \in Calls : CallStep(r) \/ OrderLife(r)
  \/ CloseCoupon
  \/ \E d \in Discounts : ChangeDiscount(d)

Spec == Init /\ [][Next]_vars

(* The event loop runs every call on to its next await, and the database,  *)
(* Bravive and Bigo answer or fail. *)
FairSpec == Spec /\ \A r \in Calls : WF_vars(CallStep(r))

-----------------------------------------------------------------------------
(* Properties                                                              *)

(* No two orders have the same number, though overlapping calls may find   *)
(* the same number free: the number is the bu_orderid under which Bigo     *)
(* grants the recharge once.                                               *)
NumbersUnique ==
  \A q, r \in Saved : call[q].number \cap call[r].number # {} => q = r

(* The order a buyer is given, new or recent, is what the buyer has asked  *)
(* for: own Bigo account, own coupon, and the price that was sent, even if *)
(* coupon and price are being changed.                                     *)
AnswerMatchesRequest ==
  \A r \in Calls : \A q \in answer[r] :
    /\ q \in Saved
    /\ call[q].user = call[r].user /\ call[q].bigo = call[r].bigo
    /\ call[q].coupon = call[r].coupon /\ call[q].due = call[r].asked

(* A request made after the coupon has been closed saves no order with it. *)
ClosedCouponNotTaken ==
  \A r \in Calls :
    [](call[r].at = "idle" /\ ~open => [](r \in Saved => ~call[r].coupon))

(* "Whether the coupon can only be used once per bigoId"                   *)
(* (coupon/dto/create-coupon.dto.ts:116), and once per account.  Requests  *)
(* that overlap may all pass the check before one of them saves its order, *)
(* and an order that has expired, or was refunded, gives the coupon back   *)
(* for good, even if a late approval or the end of its exchange with Bigo  *)
(* brings it to life again.  But of the orders that have held the coupon   *)
(* without a break there are never more than requests overlap.             *)
HoldingCoupon   == {q \in Saved : call[q].coupon /\ freed[q] = {}}
UsesByBigoId(b) == {q \in HoldingCoupon : call[q].bigo = b}
UsesByUser(u)   == {q \in HoldingCoupon : call[q].user = u}

UsesWithinOverlap ==
  OncePerBigoId =>
    /\ \A b \in BigoIds : Cardinality(UsesByBigoId(b)) <= MaxActive
    /\ \A u \in Users : Cardinality(UsesByUser(u)) <= MaxActive

(* "First purchase coupon can only be used by new customers"               *)
(* (order.service.ts:1258): of the orders of a buyer that have never       *)
(* expired, no more were created with the coupon.  A refund changes        *)
(* nothing here.                                                           *)
FirstPurchases(u) ==
  {q \in Saved : call[q].coupon /\ call[q].user = u /\ "EXPIRED" \notin freed[q]}

FirstPurchasesWithinOverlap ==
  FirstPurchase => \A u \in Users : Cardinality(FirstPurchases(u)) <= MaxActive

(* Every request is answered, also when no number is free.                 *)
EveryRequestAnswered ==
  \A r \in Calls : call[r].at # "idle" ~> call[r].at \in {"done", "refused"}
=============================================================================
