----------------------------- MODULE OrderPayment -----------------------------
(***************************************************************************)
(* The life of an order from its creation to its fulfilment: OrderService  *)
(* creates and expires it, BraviveService changes it when Bravive reports  *)
(* on its payment, and the Bigo side delivers the recharge.                *)
(*                                                                         *)
(* A worker is one activation of BraviveService.handleWebhook or of        *)
(* checkAndUpdatePaymentStatus.  Its stage is the await it has reached;    *)
(* each step is one database transaction or one external call, and other   *)
(* workers run in between.  Bravive and Bigo are external: Bravive changes *)
(* the state of a payment and sends a notice (a webhook), notices arrive   *)
(* in any order and possibly more than once; Bigo is seen as RechargeLedger*)
(* sees it (module BigoRecharge has the detail).                           *)
(***************************************************************************)
EXTENDS Integers, FiniteSets

CONSTANTS
  Orders,         \* the orders that may be created
  CouponOrders,   \* those of them created with the coupon
  NoOrder,        \* the order of an idle worker
  Workers,        \* activations that may overlap
  MaxDuplicates,  \* bound: notices delivered again
  MaxRestarts     \* bound: restarts of the process

ASSUME OrderAssumption ==
  /\ CouponOrders \subseteq Orders
  /\ NoOrder \notin Orders
  /\ MaxDuplicates \in Nat
  /\ MaxRestarts \in Nat

VARIABLES
  provider,   \* (Bravive) provider[o]: the payment as Bravive holds it
  notices,    \* (Bravive) webhooks sent and not yet delivered for good
  duplicates, \* (Bravive) how many deliveries have been repeated
  order,      \* Order.orderStatus
  payment,    \* Payment.status
  recharge,   \* Recharge.status
  timesUsed,  \* Coupon.timesUsed of the coupon
  bigo,       \* bigo[o]: how far Bigo has got with the recharge of o
  queued,     \* orders whose recharge has a retry timer in memory
  worker,     \* worker[w]: stage, order and what Bravive has answered
  restarts,   \* how often the process has restarted
  found,      \* orders expireUnpaidOrders has found and has yet to expire
  late        \* orders it has expired after they had left CREATED

braviveVars == <<provider, notices, duplicates>>
tableVars   == <<order, payment, recharge, timesUsed>>
bigoVars    == <<bigo, queued>>
vars        == <<braviveVars, tableVars, bigoVars, worker, restarts, found, late>>

OrderStatus    == {"NONE", "CREATED", "PROCESSING", "COMPLETED", "EXPIRED", "REFOUNDED"}
PaymentStatus  == {"NONE", "PENDING", "APPROVED", "REJECTED"}
RechargeStatus == PaymentStatus
WebhookStatus  == {"APPROVED", "REJECTED", "CANCELED", "REFUNDED", "CHARGEBACK", "IN_DISPUTE"}
ProviderStatus == WebhookStatus \cup {"NONE", "PENDING"}
Notice         == [order : Orders, status : WebhookStatus]

Stages == {"idle", "checking", "approve", "request", "waiting", "complete",
           "confirm", "reject", "refund", "chargeback"}
Worker == [at : Stages, order : Orders \cup {NoOrder}, seen : ProviderStatus]
Idle   == [at |-> "idle", order |-> NoOrder, seen |-> "NONE"]

TypeOK ==
  /\ provider \in [Orders -> ProviderStatus]
  /\ notices \subseteq Notice
  /\ duplicates \in 0..MaxDuplicates
  /\ order \in [Orders -> OrderStatus]
  /\ payment \in [Orders -> PaymentStatus]
  /\ recharge \in [Orders -> RechargeStatus]
  /\ timesUsed \in Int
  /\ bigo \in [Orders -> {"none", "open", "success", "failed"}]
  /\ queued \subseteq Orders
  /\ worker \in [Workers -> Worker]
  /\ restarts \in 0..MaxRestarts
  /\ found \subseteq Orders /\ late \subseteq Orders

Init ==
  /\ provider = [o \in Orders |-> "NONE"]
  /\ notices = {}
  /\ duplicates = 0
  /\ order = [o \in Orders |-> "NONE"]
  /\ payment = [o \in Orders |-> "NONE"]
  /\ recharge = [o \in Orders |-> "NONE"]
  /\ timesUsed = 0
  /\ bigo = [o \in Orders |-> "none"]
  /\ queued = {}
  /\ worker = [w \in Workers |-> Idle]
  /\ restarts = 0
  /\ found = {} /\ late = {}

(* Worker w goes on to a stage of its handler, or returns. *)
GoTo(w, s)  == worker' = [worker EXCEPT ![w].at = s]
Return(w)   == worker' = [worker EXCEPT ![w] = Idle]

-----------------------------------------------------------------------------
(* Bravive                                                                 *)

(* The changes a payment can go through at Bravive, each with a webhook. *)
Lifecycle ==
  ({"PENDING"} \X {"APPROVED", "REJECTED", "CANCELED"})
    \cup ({"APPROVED"} \X {"REFUNDED", "CHARGEBACK", "IN_DISPUTE"})
    \cup ({"IN_DISPUTE"} \X {"APPROVED", "REFUNDED", "CHARGEBACK"})

BraviveReports(o, s) ==
  /\ <<provider[o], s>> \in Lifecycle
  /\ provider' = [provider EXCEPT ![o] = s]
  /\ notices' = notices \cup {[order |-> o, status |-> s]}
  /\ UNCHANGED <<duplicates, tableVars, bigoVars, worker, restarts, found, late>>

-----------------------------------------------------------------------------
(* Creation and expiry                                                     *)

(* OrderService.create asks Bravive for the payment first ... *)
CreatePayment(o) ==
  /\ provider[o] = "NONE"
  /\ provider' = [provider EXCEPT ![o] = "PENDING"]
  /\ UNCHANGED <<notices, duplicates, tableVars, bigoVars, worker, restarts, found, late>>

(* ... and then writes order, payment, recharge and coupon usage in one    *)
(* transaction, if it gets that far.                                       *)
SaveOrder(o) ==
  /\ provider[o] # "NONE"
  /\ order[o] = "NONE"
  /\ order' = [order EXCEPT ![o] = "CREATED"]
  /\ payment' = [payment EXCEPT ![o] = "PENDING"]
  /\ recharge' = [recharge EXCEPT ![o] = "PENDING"]
  /\ UNCHANGED <<braviveVars, timesUsed, bigoVars, worker, restarts, found, late>>

(* The orders checkAndExpireOrders may expire: the WHERE clause of its one *)
(* UPDATE, except for the age (any moment may be 24 hours later).  An      *)
(* expiry of everything unfinished is ExpirableUnfinished.                 *)
ExpirableUnfinished(o) == order[o] \in {"CREATED", "PROCESSING"}
Expirable(o) == order[o] = "CREATED" /\ payment[o] = "PENDING"

ExpireOrders(S) ==
  /\ S # {}
  /\ \A o \in S : Expirable(o)
  /\ order' = [o \in Orders |-> IF o \in S THEN "EXPIRED" ELSE order[o]]
  /\ UNCHANGED <<braviveVars, payment, recharge, timesUsed, bigoVars, worker, restarts, found, late>>

(* UserCleanupService.expireUnpaidOrders, kept for a start by hand (by     *)
(* manualExpireOrders, which no endpoint calls), finds the same orders and *)
(* then expires each of them by its id.                                    *)
FindUnpaid(S) ==
  /\ found = {} /\ S # {}
  /\ \A o \in S : Expirable(o)
  /\ found' = S
  /\ UNCHANGED <<braviveVars, tableVars, bigoVars, worker, restarts, late>>

ExpireFound(o) ==
  /\ o \in found
  /\ found' = found \ {o}
  /\ order' = [order EXCEPT ![o] = "EXPIRED"]
  /\ late' = IF order[o] \in {"CREATED", "EXPIRED"} THEN late ELSE late \cup {o}
  /\ UNCHANGED <<braviveVars, payment, recharge, timesUsed, bigoVars, worker, restarts>>

-----------------------------------------------------------------------------
(* A report on a payment reaches the platform                              *)

(* mapWebhookStatusToPaymentStatus. *)
Target(s) ==
  IF s = "APPROVED" THEN "APPROVED"
  ELSE IF s \in {"REJECTED", "CANCELED", "REFUNDED", "CHARGEBACK"}
  THEN "REJECTED" ELSE "NONE"

(* The handler of a webhook status.  A disputed payment gets a new         *)
(* statusUpdatedAt only, which is not modelled, so its handler ends at     *)
(* once.                                                                   *)
StageOf(s) ==
  CASE s = "APPROVED" -> "approve"
    [] s \in {"REJECTED", "CANCELED"} -> "reject"
    [] s = "REFUNDED" -> "refund"
    [] s = "CHARGEBACK" -> "chargeback"
    [] s = "IN_DISPUTE" -> "idle"

(* handleWebhook ignores a notice of an unknown payment and one that the   *)
(* payment already agrees with.  (IgnoredWhenExpired also ignores those of *)
(* expired orders.)                                                        *)
IgnoredWhenExpired(n) ==
  order[n.order] \in {"NONE", "EXPIRED"} \/ payment[n.order] = Target(n.status)

Ignored(n) == order[n.order] = "NONE" \/ payment[n.order] = Target(n.status)

(* handleWebhook up to its switch.  "again" means that Bravive will send   *)
(* the notice once more.                                                   *)
Webhook(w, n, again) ==
  /\ worker[w].at = "idle"
  /\ n \in notices
  /\ \/ /\ ~again
        /\ notices' = notices \ {n}
        /\ UNCHANGED duplicates
     \/ /\ again
        /\ duplicates < MaxDuplicates
        /\ duplicates' = duplicates + 1
        /\ UNCHANGED notices
  /\ worker' =
       IF Ignored(n) \/ StageOf(n.status) = "idle"
       THEN worker
       ELSE [worker EXCEPT ![w] =
               [at |-> StageOf(n.status), order |-> n.order, seen |-> "NONE"]]
  /\ UNCHANGED <<provider, tableVars, bigoVars, restarts, found, late>>

(* The buyer asks for a check: checkAndUpdatePaymentStatus first asks      *)
(* Bravive ...                                                             *)
CheckStart(w, o) ==
  /\ worker[w].at = "idle"
  /\ order[o] # "NONE"
  /\ worker' = [worker EXCEPT ![w] =
                  [at |-> "checking", order |-> o, seen |-> provider[o]]]
  /\ UNCHANGED <<braviveVars, tableVars, bigoVars, restarts, found, late>>

(* ... and then compares its answer, by now perhaps an old one, with the   *)
(* payment.  (CheckedStageTrusting takes a pending payment for a paid one.)*)
CheckedStageTrusting(s, p) ==
  IF s \in {"APPROVED", "PENDING"} /\ p # "APPROVED" THEN "approve"
  ELSE IF s \in {"REJECTED", "CANCELED"} /\ p # "REJECTED" THEN "reject" ELSE "idle"

CheckedStage(s, p) ==
  IF s = "APPROVED" /\ p # "APPROVED" THEN "approve"
  ELSE IF s \in {"REJECTED", "CANCELED"} /\ p # "REJECTED" THEN "reject" ELSE "idle"

CheckDecide(w) ==
  /\ worker[w].at = "checking"
  /\ LET s == CheckedStage(worker[w].seen, payment[worker[w].order])
     IN  IF s = "idle" THEN Return(w) ELSE GoTo(w, s)
  /\ UNCHANGED <<braviveVars, tableVars, bigoVars, restarts, found, late>>

-----------------------------------------------------------------------------
(* handleApprovedPayment                                                   *)

(* The first transaction. *)
Approve(w) ==
  LET o == worker[w].order IN
  /\ worker[w].at = "approve"
  /\ payment' = [payment EXCEPT ![o] = "APPROVED"]
  /\ order' = [order EXCEPT ![o] = "PROCESSING"]
  /\ recharge' = [recharge EXCEPT ![o] = "PENDING"]
  /\ GoTo(w, "request")
  /\ UNCHANGED <<braviveVars, timesUsed, bigoVars, restarts, found, late>>

(* diamondRecharge refuses an order number that has a row already; the     *)
(* handler logs that and returns.  (CanOpenAgain: only a FAILED row is     *)
(* refused.  RequestSkipped: the handler returns without a request.)       *)
CanOpenAgain(o) == bigo[o] # "failed"
CanOpen(o) == bigo[o] = "none"

RequestSkipped(w) ==
  /\ worker[w].at = "request"
  /\ Return(w)
  /\ UNCHANGED <<braviveVars, tableVars, bigoVars, restarts, found, late>>

RequestRecharge(w) ==
  LET o == worker[w].order IN
  /\ worker[w].at = "request"
  /\ IF CanOpen(o)
     THEN bigo' = [bigo EXCEPT ![o] = "open"] /\ GoTo(w, "waiting")
     ELSE Return(w) /\ UNCHANGED bigo
  /\ UNCHANGED <<braviveVars, tableVars, queued, restarts, found, late>>

(* diamondRecharge ends: Bigo has executed the recharge, or the row is     *)
(* FAILED, or a retry is queued.  It throws in the last two cases, and the *)
(* handler catches that and leaves the order in PROCESSING.                *)
(* (AfterErrorComplete: it goes on as if nothing had been thrown.)         *)
AfterErrorComplete == "complete"
AfterError == "idle"

BigoAnswers(w) ==
  LET o == worker[w].order
      Failed == IF AfterError = "idle" THEN Return(w) ELSE GoTo(w, AfterError)
  IN
  /\ worker[w].at = "waiting"
  /\ \/ /\ bigo' = [bigo EXCEPT ![o] = "success"]
        /\ GoTo(w, "complete")
        /\ UNCHANGED queued
     \/ /\ bigo' = [bigo EXCEPT ![o] = "failed"]
        /\ Failed
        /\ UNCHANGED queued
     \/ /\ queued' = queued \cup {o}
        /\ Failed
        /\ UNCHANGED bigo
  /\ UNCHANGED <<braviveVars, tableVars, restarts, found, late>>

(* The second transaction: unconditional, whatever has happened to the     *)
(* order in the meantime.                                                  *)
Complete(w) ==
  LET o == worker[w].order IN
  /\ worker[w].at = "complete"
  /\ order' = [order EXCEPT ![o] = "COMPLETED"]
  /\ recharge' = [recharge EXCEPT ![o] = "APPROVED"]
  /\ GoTo(w, "confirm")
  /\ UNCHANGED <<braviveVars, payment, timesUsed, bigoVars, restarts, found, late>>

(* confirmCouponUsage, which swallows its errors. *)
ConfirmCoupon(w) ==
  /\ worker[w].at = "confirm"
  /\ timesUsed' \in IF worker[w].order \in CouponOrders
                    THEN {timesUsed, timesUsed + 1} ELSE {timesUsed}
  /\ Return(w)
  /\ UNCHANGED <<braviveVars, order, payment, recharge, bigoVars, restarts, found, late>>

-----------------------------------------------------------------------------
(* The other handlers, one transaction each                                *)

(* revertCouponUsage within the transaction: it does not ask whether the   *)
(* usage has ever been confirmed.                                          *)
RevertCoupon(o) ==
  timesUsed' = IF o \in CouponOrders THEN timesUsed - 1 ELSE timesUsed

Reject(w) ==
  LET o == worker[w].order IN
  /\ worker[w].at = "reject"
  /\ payment' = [payment EXCEPT ![o] = "REJECTED"]
  /\ order' = [order EXCEPT ![o] = "EXPIRED"]
  /\ recharge' = [recharge EXCEPT ![o] = "REJECTED"]
  /\ Return(w)
  /\ UNCHANGED <<braviveVars, timesUsed, bigoVars, restarts, found, late>>

Refund(w) ==
  LET o == worker[w].order IN
  /\ worker[w].at = "refund"
  /\ order' = [order EXCEPT ![o] = "REFOUNDED"]
  /\ RevertCoupon(o)
  /\ Return(w)
  /\ UNCHANGED <<braviveVars, payment, recharge, bigoVars, restarts, found, late>>

Chargeback(w) ==
  LET o == worker[w].order IN
  /\ worker[w].at = "chargeback"
  /\ payment' = [payment EXCEPT ![o] = "REJECTED"]
  /\ order' = [order EXCEPT ![o] = "REFOUNDED"]
  /\ recharge' = [recharge EXCEPT ![o] = "REJECTED"]
  /\ RevertCoupon(o)
  /\ Return(w)
  /\ UNCHANGED <<braviveVars, bigoVars, restarts, found, late>>

-----------------------------------------------------------------------------
(* The retry service, for which no handler waits                           *)

(* A queued retry ends for good.  processSpecificRetry writes the          *)
(* BigoRecharge row and nothing else. *)
RetrySettles(o) ==
  /\ o \in queued
  /\ queued' = queued \ {o}
  /\ \E outcome \in {"success", "failed"} : bigo' = [bigo EXCEPT ![o] = outcome]
  /\ UNCHANGED <<braviveVars, tableVars, worker, restarts, found, late>>

(* The process stops at any moment: activations and retry timers are lost. *)
Restart ==
  /\ restarts < MaxRestarts
  /\ restarts' = restarts + 1
  /\ worker' = [w \in Workers |-> Idle]
  /\ queued' = {}
  /\ found' = {}
  /\ UNCHANGED <<braviveVars, tableVars, bigo, late>>

-----------------------------------------------------------------------------
HandlerStep(w) ==
  \/ CheckDecide(w)
  \/ Approve(w)
  \/ RequestRecharge(w)
  \/ BigoAnswers(w)
  \/ Complete(w)
  \/ ConfirmCoupon(w)
  \/ Reject(w)
  \/ Refund(w)
  \/ Chargeback(w)

Next ==
  \/ \E o \in Orders, s \in WebhookStatus : BraviveReports(o, s)
  \/ \E o \in Orders : CreatePayment(o) \/ SaveOrder(o)
  \/ \E S \in SUBSET Orders : ExpireOrders(S) \/ FindUnpaid(S)
  \/ \E o \in Orders : ExpireFound(o)
  \/ \E w \in Workers, n \in notices, again \in BOOLEAN : Webhook(w, n, again)
  \/ \E w \in Workers, o \in Orders : CheckStart(w, o)
  \/ \E w \in Workers : HandlerStep(w)
  \/ \E o \in Orders : RetrySettles(o)
  \/ Restart

Spec == Init /\ [][Next]_vars

(* The event loop runs every handler on to its next await; every exchange  *)
(* with Bigo, every transaction and every retry ends; Bravive delivers     *)
(* every approval, whatever comes before it.  Nothing makes a buyer pay, a    *)
(* report change or a check be asked for.                                  *)
Arrives(n) == \E w \in Workers, again \in BOOLEAN : Webhook(w, n, again)

FairSpec ==
  /\ Spec
  /\ \A w \in Workers : WF_vars(HandlerStep(w))
  /\ \A o \in Orders : SF_vars(Arrives([order |-> o, status |-> "APPROVED"]))
  /\ \A o \in Orders : WF_vars(RetrySettles(o))

-----------------------------------------------------------------------------
(* Properties                                                              *)

Paid == {"APPROVED", "REFUNDED", "CHARGEBACK", "IN_DISPUTE"}

(* No recharge is ever opened for an order that has not been paid, in      *)
(* whatever order webhooks, checks, expiries and restarts come: the        *)
(* handlers act on what Bravive said some time ago, not on what holds now. *)
DeliveredOnlyIfPaid == \A o \in Orders : bigo[o] # "none" => provider[o] \in Paid

(* An order is COMPLETED, and its recharge approved, only after Bigo has   *)
(* executed the recharge (second transaction of handleApprovedPayment).    *)
CompletedMeansDelivered ==
  \A o \in Orders :
    order[o] = "COMPLETED" \/ recharge[o] = "APPROVED" => bigo[o] = "success"

(* An approved payment never belongs to an order that is waiting for its   *)
(* payment or has expired: expiry, rejection and approval race on the two  *)
(* rows.  Only expireUnpaidOrders does that, to an order that has been     *)
(* paid since it was found.                                                *)
PaidOrderInFulfilment ==
  \A o \in Orders :
    payment[o] = "APPROVED" =>
      order[o] \in {"PROCESSING", "COMPLETED", "REFOUNDED"} \/ o \in late

(* However many webhooks and checks report the same approval at once, one  *)
(* of their handlers at most goes on to complete the order and to count    *)
(* the coupon.                                                             *)
OneHandlerFulfils ==
  \A v, w \in Workers :
    /\ worker[v].at \in {"waiting", "complete", "confirm"}
    /\ worker[w].at \in {"waiting", "complete", "confirm"}
    /\ worker[v].order = worker[w].order
    => v = w

(* What the payment row says was true at Bravive at some time and has only *)
(* been followed by what the row does not record: REFUNDED keeps the       *)
(* payment APPROVED (handleRefundedPayment), a dispute changes nothing.    *)
PaymentMirrorsProvider ==
  \A o \in Orders :
    /\ payment[o] = "APPROVED" => provider[o] \in Paid
    /\ payment[o] = "REJECTED" => provider[o] \in {"REJECTED", "CANCELED", "CHARGEBACK"}

(* The coupon is counted at most once for each delivered order created     *)
(* with it, though confirmations and reversals come in any order.          *)
CouponNeverOvercounted ==
  timesUsed <= Cardinality({o \in CouponOrders : bigo[o] = "success"})

(* The Bigo side, as seen by the payment handlers, keeps its promise: one  *)
(* recharge per order number, with one outcome.                            *)
Ledger == INSTANCE RechargeLedger WITH phase <- bigo

LedgerSpec == Ledger!Spec

(* An approval that arrives after the order has been saved is acted upon,  *)
(* even when the order has expired in the meantime, unless the process     *)
(* restarts while it is being handled.                                     *)
ApprovedNoticeTakesEffect ==
  \A o \in Orders :
    [order |-> o, status |-> "APPROVED"] \in notices /\ order[o] # "NONE"
      ~> payment[o] # "PENDING" \/ restarts > 0

(* Every approved payment leads to a recharge, unless the process restarts *)
(* between the first transaction of handleApprovedPayment and the request. *)
PaidLeadsToRecharge ==
  \A o \in Orders : payment[o] = "APPROVED" ~> bigo[o] # "none" \/ restarts > 0

(* "Order remains in PROCESSING status until recharge succeeds"            *)
(* (bravive.service.ts:568).                                               *)
ProcessingUntilRecharged ==
  \A o \in Orders :
    order[o] = "PROCESSING" /\ bigo[o] = "success" ~> order[o] # "PROCESSING"
=============================================================================
