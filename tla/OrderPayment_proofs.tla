-------------------------- MODULE OrderPayment_proofs --------------------------
(***************************************************************************)
(* Proofs about OrderPayment for every value of its constants.             *)
(*                                                                         *)
(* The inductive invariant adds to the properties what makes them hold     *)
(* although handlers act on what they have read some time ago: a report    *)
(* under way is still borne out by Bravive, because a payment never        *)
(* returns to a state it has left except through a dispute, and the stage  *)
(* of a handler tells how far Bigo has got with its order.                 *)
(*                                                                         *)
(* The use of a coupon is compared with the orders that are delivered and  *)
(* that no handler will count any more (Settled): a confirmation adds one  *)
(* to both, and nothing takes an order out.                                *)
(***************************************************************************)
EXTENDS OrderPayment, FiniteSetTheorems, TLAPS

(* What a report of status s, sent some time ago, says of the payment now. *)
BorneOut(s, now) ==
  /\ s = "APPROVED" => now \in Paid
  /\ s \in {"REJECTED", "CANCELED", "REFUNDED", "CHARGEBACK"} => now = s

ReportsSound ==
  /\ \A n \in notices : BorneOut(n.status, provider[n.order])
  /\ \A w \in Workers :
       LET o == worker[w].order IN
       /\ worker[w].at # "idle" => o \in Orders
       /\ worker[w].at = "checking" => BorneOut(worker[w].seen, provider[o])
       /\ worker[w].at \in {"approve", "request", "waiting", "complete", "confirm"}
            => provider[o] \in Paid
       /\ worker[w].at = "reject" => provider[o] \in {"REJECTED", "CANCELED"}
       /\ worker[w].at = "chargeback" => provider[o] = "CHARGEBACK"

(* How far Bigo is when a handler waits for it, has its answer, or has     *)
(* left a retry behind. *)
StageFitsBigo ==
  /\ \A w \in Workers :
       LET o == worker[w].order IN
       /\ worker[w].at = "waiting" => bigo[o] = "open" /\ o \notin queued
       /\ worker[w].at \in {"complete", "confirm"} => bigo[o] = "success"
  /\ \A o \in queued : bigo[o] = "open"

IInv ==
  /\ TypeOK
  /\ ReportsSound
  /\ StageFitsBigo
  /\ OneHandlerFulfils
  /\ DeliveredOnlyIfPaid
  /\ CompletedMeansDelivered
  /\ PaidOrderInFulfilment
  /\ PaymentMirrorsProvider

-----------------------------------------------------------------------------
THEOREM InitIInv == Init => IInv
  BY OrderAssumption
  DEF Init, IInv, TypeOK, ReportsSound, StageFitsBigo, OneHandlerFulfils,
      DeliveredOnlyIfPaid, CompletedMeansDelivered, PaidOrderInFulfilment,
      PaymentMirrorsProvider, Idle, Worker, Stages, ProviderStatus, WebhookStatus,
      OrderStatus, PaymentStatus, RechargeStatus, Notice

(* A change of a payment at Bravive keeps every older report true: only a  *)
(* dispute leads back to a state, and to a paid one.                       *)
LEMMA ReportStep ==
  ASSUME IInv, NEW o \in Orders, NEW s \in WebhookStatus, BraviveReports(o, s)
  PROVE  IInv'
<1> USE DEF IInv, BraviveReports, Lifecycle
<1>1. /\ provider' = [provider EXCEPT ![o] = s]
      /\ notices' = notices \cup {[order |-> o, status |-> s]}
      /\ UNCHANGED <<order, payment, recharge, timesUsed, bigo, queued, worker,
                     duplicates, restarts, found, late>>
  BY DEF tableVars, bigoVars
<1>2. \A q \in WebhookStatus \cup {"NONE", "PENDING"} :
        BorneOut(q, provider[o]) => BorneOut(q, s)
  BY DEF BorneOut, Paid
<1>3. /\ provider[o] \in Paid => s \in Paid
      /\ provider[o] \notin {"REJECTED", "CANCELED", "CHARGEBACK", "NONE"}
      /\ BorneOut(s, s)
  BY DEF BorneOut, Paid
<1>4. TypeOK'
  BY <1>1 DEF TypeOK, ProviderStatus, Notice
<1>5. ReportsSound'
  <2>1. \A n \in notices' : BorneOut(n.status, provider'[n.order])
    BY <1>1, <1>2, <1>3 DEF ReportsSound, TypeOK, Notice
  <2>2. ASSUME NEW w \in Workers
        PROVE  LET p == worker[w].order IN
               /\ worker[w].at # "idle" => p \in Orders
               /\ worker[w].at = "checking" => BorneOut(worker[w].seen, provider'[p])
               /\ worker[w].at \in {"approve", "request", "waiting", "complete", "confirm"}
                    => provider'[p] \in Paid
               /\ worker[w].at = "reject" => provider'[p] \in {"REJECTED", "CANCELED"}
               /\ worker[w].at = "chargeback" => provider'[p] = "CHARGEBACK"
    <3>1. worker[w].seen \in WebhookStatus \cup {"NONE", "PENDING"}
      BY DEF TypeOK, Worker, ProviderStatus
    <3> QED
      BY <1>1, <1>2, <1>3, <3>1 DEF ReportsSound, TypeOK
  <2> QED
    BY <1>1, <2>1, <2>2 DEF ReportsSound
<1>6. StageFitsBigo' /\ OneHandlerFulfils' /\ CompletedMeansDelivered'
        /\ PaidOrderInFulfilment'
  BY <1>1 DEF StageFitsBigo, OneHandlerFulfils, CompletedMeansDelivered,
              PaidOrderInFulfilment
<1>7. DeliveredOnlyIfPaid' /\ PaymentMirrorsProvider'
  BY <1>1, <1>3 DEF DeliveredOnlyIfPaid, PaymentMirrorsProvider, TypeOK
<1> QED
  BY <1>4, <1>5, <1>6, <1>7

(* Creation and expiry of orders. *)
LEMMA OrderStep ==
  ASSUME IInv,
         \/ \E o \in Orders : CreatePayment(o) \/ SaveOrder(o)
         \/ \E S \in SUBSET Orders : ExpireOrders(S) \/ FindUnpaid(S)
         \/ \E o \in Orders : ExpireFound(o)
  PROVE  IInv'
<1> USE DEF IInv, tableVars, bigoVars, braviveVars
<1>1. ASSUME NEW o \in Orders, CreatePayment(o) PROVE IInv'
  <2> USE <1>1 DEF CreatePayment
  <2>1. TypeOK'
    BY DEF TypeOK, ProviderStatus
  <2>2. ReportsSound'
    BY DEF ReportsSound, TypeOK, BorneOut, Paid
  <2>3. StageFitsBigo' /\ OneHandlerFulfils' /\ CompletedMeansDelivered'
          /\ PaidOrderInFulfilment'
    BY DEF StageFitsBigo, OneHandlerFulfils, CompletedMeansDelivered,
           PaidOrderInFulfilment
  <2>4. DeliveredOnlyIfPaid' /\ PaymentMirrorsProvider'
    BY DEF DeliveredOnlyIfPaid, PaymentMirrorsProvider, TypeOK, Paid
  <2> QED
    BY <2>1, <2>2, <2>3, <2>4
<1>2. ASSUME NEW o \in Orders, SaveOrder(o) PROVE IInv'
  <2> USE <1>2 DEF SaveOrder
  <2>1. TypeOK'
    BY DEF TypeOK, OrderStatus, PaymentStatus, RechargeStatus
  <2>2. ReportsSound' /\ StageFitsBigo' /\ OneHandlerFulfils' /\ DeliveredOnlyIfPaid'
    BY DEF ReportsSound, StageFitsBigo, OneHandlerFulfils, DeliveredOnlyIfPaid
  <2>3. CompletedMeansDelivered' /\ PaidOrderInFulfilment' /\ PaymentMirrorsProvider'
    BY DEF CompletedMeansDelivered, PaidOrderInFulfilment, PaymentMirrorsProvider, TypeOK
  <2> QED
    BY <2>1, <2>2, <2>3
<1>3. ASSUME NEW S \in SUBSET Orders, ExpireOrders(S) PROVE IInv'
  <2> USE <1>3 DEF ExpireOrders
  <2>1. TypeOK'
    BY DEF TypeOK, OrderStatus
  <2>2. ReportsSound' /\ StageFitsBigo' /\ OneHandlerFulfils' /\ DeliveredOnlyIfPaid'
          /\ PaymentMirrorsProvider'
    BY DEF ReportsSound, StageFitsBigo, OneHandlerFulfils, DeliveredOnlyIfPaid,
           PaymentMirrorsProvider
  <2>3. CompletedMeansDelivered' /\ PaidOrderInFulfilment'
    BY DEF CompletedMeansDelivered, PaidOrderInFulfilment, Expirable
  <2> QED
    BY <2>1, <2>2, <2>3
<1>4. ASSUME NEW S \in SUBSET Orders, FindUnpaid(S) PROVE IInv'
  <2> USE <1>4 DEF FindUnpaid
  <2>1. TypeOK'
    BY DEF TypeOK
  <2>2. ReportsSound' /\ StageFitsBigo' /\ OneHandlerFulfils' /\ DeliveredOnlyIfPaid'
          /\ CompletedMeansDelivered' /\ PaidOrderInFulfilment' /\ PaymentMirrorsProvider'
    BY DEF ReportsSound, StageFitsBigo, OneHandlerFulfils, DeliveredOnlyIfPaid,
           CompletedMeansDelivered, PaidOrderInFulfilment, PaymentMirrorsProvider
  <2> QED
    BY <2>1, <2>2
<1>5. ASSUME NEW o \in Orders, ExpireFound(o) PROVE IInv'
  <2>1. /\ order' = [order EXCEPT ![o] = "EXPIRED"]
        /\ found' = found \ {o}
        /\ late' = late \/ late' = late \cup {o}
        /\ order[o] \notin {"CREATED", "EXPIRED"} => o \in late'
        /\ UNCHANGED <<provider, notices, duplicates, payment, recharge, timesUsed,
                       bigo, queued, worker, restarts>>
    BY <1>5 DEF ExpireFound
  <2>2. TypeOK'
    BY <2>1 DEF TypeOK, OrderStatus
  <2>3. ReportsSound' /\ StageFitsBigo' /\ OneHandlerFulfils' /\ DeliveredOnlyIfPaid'
          /\ PaymentMirrorsProvider'
    BY <2>1 DEF ReportsSound, StageFitsBigo, OneHandlerFulfils, DeliveredOnlyIfPaid,
                PaymentMirrorsProvider
  <2>4. CompletedMeansDelivered' /\ PaidOrderInFulfilment'
    BY <2>1 DEF CompletedMeansDelivered, PaidOrderInFulfilment, TypeOK
  <2> QED
    BY <2>2, <2>3, <2>4
<1> QED
  BY <1>1, <1>2, <1>3, <1>4, <1>5

(* A report is taken in, from a webhook or by a check. *)
LEMMA IntakeStep ==
  ASSUME IInv, NEW w \in Workers,
         \/ \E n \in notices, again \in BOOLEAN : Webhook(w, n, again)
         \/ \E o \in Orders : CheckStart(w, o)
         \/ CheckDecide(w)
  PROVE  IInv'
<1> USE DEF IInv, tableVars, bigoVars, braviveVars
<1>1. ASSUME NEW n \in notices, NEW again \in BOOLEAN, Webhook(w, n, again) PROVE IInv'
  <2>1. /\ notices' \subseteq notices
        /\ duplicates' \in 0..MaxDuplicates
        /\ UNCHANGED <<provider, order, payment, recharge, timesUsed, bigo, queued, restarts, found, late>>
    BY <1>1, OrderAssumption DEF Webhook, TypeOK
  <2>2. /\ n.order \in Orders /\ n.status \in WebhookStatus
        /\ BorneOut(n.status, provider[n.order])
        /\ StageOf(n.status) \in {"idle", "approve", "reject", "refund", "chargeback"}
    BY DEF TypeOK, Notice, ReportsSound, StageOf, WebhookStatus
  <2>3. /\ StageOf(n.status) = "approve" => provider[n.order] \in Paid
        /\ StageOf(n.status) = "reject" => provider[n.order] \in {"REJECTED", "CANCELED"}
        /\ StageOf(n.status) = "chargeback" => provider[n.order] = "CHARGEBACK"
    BY <2>2 DEF BorneOut, StageOf, WebhookStatus
  <2>4. \/ worker' = worker
        \/ worker' = [worker EXCEPT ![w] =
             [at |-> StageOf(n.status), order |-> n.order, seen |-> "NONE"]]
    BY <1>1 DEF Webhook
  <2>5. TypeOK'
    BY <2>1, <2>2, <2>4 DEF TypeOK, Worker, Stages, ProviderStatus
  <2>6. ReportsSound'
    BY <2>1, <2>2, <2>3, <2>4 DEF ReportsSound, TypeOK, Worker
  <2>7. StageFitsBigo' /\ OneHandlerFulfils'
    BY <2>1, <2>2, <2>4 DEF StageFitsBigo, OneHandlerFulfils, TypeOK
  <2>8. DeliveredOnlyIfPaid' /\ CompletedMeansDelivered' /\ PaidOrderInFulfilment'
          /\ PaymentMirrorsProvider'
    BY <2>1 DEF DeliveredOnlyIfPaid, CompletedMeansDelivered, PaidOrderInFulfilment,
                PaymentMirrorsProvider
  <2> QED
    BY <2>5, <2>6, <2>7, <2>8
<1>2. ASSUME NEW o \in Orders, CheckStart(w, o) PROVE IInv'
  <2> USE <1>2 DEF CheckStart
  <2>1. TypeOK'
    BY DEF TypeOK, Worker, Stages
  <2>2. ReportsSound'
    <3>1. BorneOut(provider[o], provider[o])
      BY DEF BorneOut, Paid
    <3> QED
      BY <3>1 DEF ReportsSound, TypeOK
  <2>3. StageFitsBigo' /\ OneHandlerFulfils'
    BY DEF StageFitsBigo, OneHandlerFulfils, TypeOK
  <2>4. DeliveredOnlyIfPaid' /\ CompletedMeansDelivered' /\ PaidOrderInFulfilment'
          /\ PaymentMirrorsProvider'
    BY DEF DeliveredOnlyIfPaid, CompletedMeansDelivered, PaidOrderInFulfilment,
           PaymentMirrorsProvider
  <2> QED
    BY <2>1, <2>2, <2>3, <2>4
<1>3. ASSUME CheckDecide(w) PROVE IInv'
  <2> DEFINE o == worker[w].order
             s == CheckedStage(worker[w].seen, payment[o])
  <2>1. /\ worker[w].at = "checking" /\ o \in Orders
        /\ BorneOut(worker[w].seen, provider[o])
        /\ UNCHANGED <<provider, notices, duplicates, order, payment, recharge,
                       timesUsed, bigo, queued, restarts, found, late>>
        /\ \/ worker' = [worker EXCEPT ![w] = Idle]
           \/ s # "idle" /\ worker' = [worker EXCEPT ![w].at = s]
    BY <1>3 DEF CheckDecide, ReportsSound, Return, GoTo
  <2>2. /\ s \in {"idle", "approve", "reject"}
        /\ s = "approve" => provider[o] \in Paid
        /\ s = "reject" => provider[o] \in {"REJECTED", "CANCELED"}
    BY <2>1 DEF CheckedStage, BorneOut
  <2> HIDE DEF s
  <2>3. TypeOK'
    BY <2>1, <2>2 DEF TypeOK, Worker, Stages, Idle, ProviderStatus
  <2>4. ReportsSound'
    BY <2>1, <2>2 DEF ReportsSound, TypeOK, Worker, Idle
  <2>5. StageFitsBigo' /\ OneHandlerFulfils'
    BY <2>1, <2>2 DEF StageFitsBigo, OneHandlerFulfils, TypeOK, Worker, Idle
  <2>6. DeliveredOnlyIfPaid' /\ CompletedMeansDelivered' /\ PaidOrderInFulfilment'
          /\ PaymentMirrorsProvider'
    BY <2>1 DEF DeliveredOnlyIfPaid, CompletedMeansDelivered, PaidOrderInFulfilment,
                PaymentMirrorsProvider
  <2> QED
    BY <2>3, <2>4, <2>5, <2>6
<1> QED
  BY <1>1, <1>2, <1>3

-----------------------------------------------------------------------------
(* A handler ends without touching anything but its own stage, or goes     *)
(* from one stage to the next where both need the same. *)
LEMMA ReturnStep ==
  ASSUME IInv, NEW w \in Workers, Return(w)
  PROVE  /\ worker' \in [Workers -> Worker]
         /\ \A v \in Workers : v # w => worker'[v] = worker[v]
         /\ worker'[w].at = "idle"
  BY DEF IInv, TypeOK, Return, Idle, Worker, Stages, ProviderStatus

LEMMA GoToStep ==
  ASSUME IInv, NEW w \in Workers, NEW s \in Stages, GoTo(w, s)
  PROVE  /\ worker' \in [Workers -> Worker]
         /\ \A v \in Workers : v # w => worker'[v] = worker[v]
         /\ worker'[w].at = s /\ worker'[w].order = worker[w].order
  BY DEF IInv, TypeOK, GoTo, Worker

(* The way of an approved payment through handleApprovedPayment. *)
LEMMA ApproveStep ==
  ASSUME IInv, NEW w \in Workers, Approve(w)
  PROVE  IInv'
<1> DEFINE o == worker[w].order
<1> USE DEF IInv
<1>1. /\ o \in Orders /\ provider[o] \in Paid
      /\ payment' = [payment EXCEPT ![o] = "APPROVED"]
      /\ order' = [order EXCEPT ![o] = "PROCESSING"]
      /\ recharge' = [recharge EXCEPT ![o] = "PENDING"]
      /\ UNCHANGED <<provider, notices, duplicates, timesUsed, bigo, queued, restarts, found, late>>
  BY DEF Approve, ReportsSound, braviveVars, bigoVars
<1>2. /\ worker' \in [Workers -> Worker]
      /\ \A v \in Workers : v # w => worker'[v] = worker[v]
      /\ worker'[w].at = "request" /\ worker'[w].order = o
  BY GoToStep DEF Approve, Stages
<1> HIDE DEF o
<1>3. TypeOK'
  BY <1>1, <1>2 DEF TypeOK, OrderStatus, PaymentStatus, RechargeStatus
<1>4. ReportsSound' /\ StageFitsBigo' /\ OneHandlerFulfils'
  BY <1>1, <1>2 DEF ReportsSound, StageFitsBigo, OneHandlerFulfils
<1>5. DeliveredOnlyIfPaid' /\ CompletedMeansDelivered' /\ PaidOrderInFulfilment'
        /\ PaymentMirrorsProvider'
  BY <1>1 DEF DeliveredOnlyIfPaid, CompletedMeansDelivered, PaidOrderInFulfilment,
              PaymentMirrorsProvider, TypeOK
<1> QED
  BY <1>3, <1>4, <1>5

LEMMA RequestStep ==
  ASSUME IInv, NEW w \in Workers, RequestRecharge(w)
  PROVE  IInv'
<1> DEFINE o == worker[w].order
<1> USE DEF IInv
<1>1. /\ o \in Orders /\ provider[o] \in Paid
      /\ UNCHANGED <<provider, notices, duplicates, order, payment, recharge,
                     timesUsed, queued, restarts, found, late>>
      /\ worker' \in [Workers -> Worker]
      /\ \A v \in Workers : v # w => worker'[v] = worker[v]
  BY GoToStep, ReturnStep
  DEF RequestRecharge, ReportsSound, braviveVars, tableVars, Stages
<1>2. \/ /\ bigo[o] = "none"
         /\ bigo' = [bigo EXCEPT ![o] = "open"]
         /\ worker'[w].at = "waiting" /\ worker'[w].order = o
      \/ /\ bigo' = bigo
         /\ worker'[w].at = "idle"
  BY GoToStep, ReturnStep DEF RequestRecharge, CanOpen, Stages
<1> HIDE DEF o
<1>3. TypeOK'
  BY <1>1, <1>2 DEF TypeOK
<1>4. ReportsSound'
  BY <1>1, <1>2 DEF ReportsSound
<1>5. StageFitsBigo' /\ OneHandlerFulfils'
  BY <1>1, <1>2 DEF StageFitsBigo, OneHandlerFulfils, TypeOK, ReportsSound
<1>6. DeliveredOnlyIfPaid' /\ CompletedMeansDelivered' /\ PaidOrderInFulfilment'
        /\ PaymentMirrorsProvider'
  BY <1>1, <1>2 DEF DeliveredOnlyIfPaid, CompletedMeansDelivered,
                    PaidOrderInFulfilment, PaymentMirrorsProvider, TypeOK
<1> QED
  BY <1>3, <1>4, <1>5, <1>6

LEMMA AnswerStep ==
  ASSUME IInv, NEW w \in Workers, BigoAnswers(w)
  PROVE  IInv'
<1> DEFINE o == worker[w].order
<1> USE DEF IInv
<1>1. /\ o \in Orders /\ provider[o] \in Paid
      /\ bigo[o] = "open" /\ o \notin queued
      /\ worker[w].at = "waiting"
      /\ UNCHANGED <<provider, notices, duplicates, order, payment, recharge,
                     timesUsed, restarts, found, late>>
      /\ worker' \in [Workers -> Worker]
      /\ \A v \in Workers : v # w => worker'[v] = worker[v]
  BY GoToStep, ReturnStep
  DEF BigoAnswers, AfterError, ReportsSound, StageFitsBigo, braviveVars, tableVars, Stages
<1>2. \/ /\ bigo' = [bigo EXCEPT ![o] = "success"] /\ queued' = queued
         /\ worker'[w].at = "complete" /\ worker'[w].order = o
      \/ /\ bigo' = [bigo EXCEPT ![o] = "failed"] /\ queued' = queued
         /\ worker'[w].at = "idle"
      \/ /\ bigo' = bigo /\ queued' = queued \cup {o}
         /\ worker'[w].at = "idle"
  BY GoToStep, ReturnStep DEF BigoAnswers, AfterError, Stages
<1>3. \A v \in Workers : v # w /\ worker[v].at \in {"waiting", "complete", "confirm"}
        => worker[v].order # o
  BY <1>1 DEF OneHandlerFulfils
<1> HIDE DEF o
<1>4. TypeOK'
  BY <1>1, <1>2 DEF TypeOK
<1>5. ReportsSound'
  BY <1>1, <1>2 DEF ReportsSound
<1>6. StageFitsBigo' /\ OneHandlerFulfils'
  BY <1>1, <1>2, <1>3 DEF StageFitsBigo, OneHandlerFulfils, TypeOK, ReportsSound
<1>7. DeliveredOnlyIfPaid' /\ CompletedMeansDelivered' /\ PaidOrderInFulfilment'
        /\ PaymentMirrorsProvider'
  BY <1>1, <1>2 DEF DeliveredOnlyIfPaid, CompletedMeansDelivered,
                    PaidOrderInFulfilment, PaymentMirrorsProvider, TypeOK
<1> QED
  BY <1>4, <1>5, <1>6, <1>7

LEMMA CompleteStep ==
  ASSUME IInv, NEW w \in Workers, Complete(w) \/ ConfirmCoupon(w)
  PROVE  IInv'
<1> DEFINE o == worker[w].order
<1> USE DEF IInv
<1>1. /\ o \in Orders /\ provider[o] \in Paid /\ bigo[o] = "success"
      /\ worker[w].at \in {"complete", "confirm"} /\ worker[w].order = o
      /\ UNCHANGED <<provider, notices, duplicates, payment, bigo, queued, restarts, found, late>>
      /\ timesUsed' \in Int
  BY DEF Complete, ConfirmCoupon, ReportsSound, StageFitsBigo, braviveVars, bigoVars, TypeOK
<1>2. /\ worker' \in [Workers -> Worker]
      /\ \A v \in Workers : v # w => worker'[v] = worker[v]
      /\ worker'[w].at = "idle"
           \/ (worker'[w].at = "confirm" /\ worker'[w].order = o)
  BY GoToStep, ReturnStep DEF Complete, ConfirmCoupon, Stages
<1>3. \/ /\ order' = [order EXCEPT ![o] = "COMPLETED"]
         /\ recharge' = [recharge EXCEPT ![o] = "APPROVED"]
      \/ UNCHANGED <<order, recharge>>
  BY DEF Complete, ConfirmCoupon
<1> HIDE DEF o
<1>4. TypeOK'
  BY <1>1, <1>2, <1>3 DEF TypeOK, OrderStatus, RechargeStatus, PaymentStatus
<1>5. ReportsSound' /\ StageFitsBigo' /\ OneHandlerFulfils'
  BY <1>1, <1>2 DEF ReportsSound, StageFitsBigo, OneHandlerFulfils
<1>6. DeliveredOnlyIfPaid' /\ CompletedMeansDelivered' /\ PaidOrderInFulfilment'
        /\ PaymentMirrorsProvider'
  BY <1>1, <1>3 DEF DeliveredOnlyIfPaid, CompletedMeansDelivered,
                    PaidOrderInFulfilment, PaymentMirrorsProvider, TypeOK
<1> QED
  BY <1>4, <1>5, <1>6

(* Rejection, refund and chargeback. *)
LEMMA ReversalStep ==
  ASSUME IInv, NEW w \in Workers, Reject(w) \/ Refund(w) \/ Chargeback(w)
  PROVE  IInv'
<1> DEFINE o == worker[w].order
<1> USE DEF IInv
<1>1. /\ o \in Orders
      /\ UNCHANGED <<provider, notices, duplicates, bigo, queued, restarts, found, late>>
      /\ timesUsed' \in Int
      /\ worker' \in [Workers -> Worker]
      /\ \A v \in Workers : v # w => worker'[v] = worker[v]
      /\ worker'[w].at = "idle"
  BY ReturnStep
  DEF Reject, Refund, Chargeback, RevertCoupon, ReportsSound, braviveVars, bigoVars, TypeOK
<1>2. \/ /\ payment' = [payment EXCEPT ![o] = "REJECTED"]
         /\ order' = [order EXCEPT ![o] = "EXPIRED"]
         /\ recharge' = [recharge EXCEPT ![o] = "REJECTED"]
         /\ provider[o] \in {"REJECTED", "CANCELED"}
      \/ /\ order' = [order EXCEPT ![o] = "REFOUNDED"]
         /\ UNCHANGED <<payment, recharge>>
      \/ /\ payment' = [payment EXCEPT ![o] = "REJECTED"]
         /\ order' = [order EXCEPT ![o] = "REFOUNDED"]
         /\ recharge' = [recharge EXCEPT ![o] = "REJECTED"]
         /\ provider[o] = "CHARGEBACK"
  BY DEF Reject, Refund, Chargeback, ReportsSound
<1> HIDE DEF o
<1>3. TypeOK'
  BY <1>1, <1>2 DEF TypeOK, OrderStatus, PaymentStatus, RechargeStatus
<1>4. ReportsSound' /\ StageFitsBigo' /\ OneHandlerFulfils'
  BY <1>1 DEF ReportsSound, StageFitsBigo, OneHandlerFulfils
<1>5. DeliveredOnlyIfPaid' /\ CompletedMeansDelivered' /\ PaidOrderInFulfilment'
        /\ PaymentMirrorsProvider'
  BY <1>1, <1>2 DEF DeliveredOnlyIfPaid, CompletedMeansDelivered,
                    PaidOrderInFulfilment, PaymentMirrorsProvider, TypeOK
<1> QED
  BY <1>3, <1>4, <1>5

(* What no handler waits for: a retry ends, the process restarts. *)
LEMMA BackgroundStep ==
  ASSUME IInv, (\E o \in Orders : RetrySettles(o)) \/ Restart
  PROVE  IInv'
<1> USE DEF IInv, tableVars, braviveVars
<1>1. ASSUME NEW o \in Orders, RetrySettles(o) PROVE IInv'
  <2>1. PICK outcome \in {"success", "failed"} : bigo' = [bigo EXCEPT ![o] = outcome]
    BY <1>1 DEF RetrySettles
  <2>2. /\ o \in queued /\ queued' = queued \ {o} /\ bigo[o] = "open"
        /\ UNCHANGED <<provider, notices, duplicates, order, payment, recharge,
                       timesUsed, worker, restarts, found, late>>
        /\ \A w \in Workers : worker[w].at \in {"waiting", "complete", "confirm"}
                                => worker[w].order # o
    BY <1>1 DEF RetrySettles, StageFitsBigo
  <2>3. TypeOK'
    BY <2>1, <2>2 DEF TypeOK
  <2>4. ReportsSound' /\ StageFitsBigo' /\ OneHandlerFulfils'
    BY <2>1, <2>2 DEF ReportsSound, StageFitsBigo, OneHandlerFulfils, TypeOK
  <2>5. DeliveredOnlyIfPaid' /\ CompletedMeansDelivered' /\ PaidOrderInFulfilment'
          /\ PaymentMirrorsProvider'
    BY <2>1, <2>2 DEF DeliveredOnlyIfPaid, CompletedMeansDelivered,
                      PaidOrderInFulfilment, PaymentMirrorsProvider, TypeOK
  <2> QED
    BY <2>3, <2>4, <2>5
<1>2. ASSUME Restart PROVE IInv'
  <2> USE <1>2, OrderAssumption DEF Restart
  <2>1. TypeOK'
    BY DEF TypeOK, Idle, Worker, Stages, ProviderStatus
  <2>2. ReportsSound' /\ StageFitsBigo' /\ OneHandlerFulfils'
    BY DEF ReportsSound, StageFitsBigo, OneHandlerFulfils, Idle
  <2>3. DeliveredOnlyIfPaid' /\ CompletedMeansDelivered' /\ PaidOrderInFulfilment'
          /\ PaymentMirrorsProvider'
    BY DEF DeliveredOnlyIfPaid, CompletedMeansDelivered, PaidOrderInFulfilment,
           PaymentMirrorsProvider
  <2> QED
    BY <2>1, <2>2, <2>3
<1> QED
  BY <1>1, <1>2

-----------------------------------------------------------------------------
THEOREM NextIInv == IInv /\ [Next]_vars => IInv'
<1> SUFFICES ASSUME IInv, [Next]_vars PROVE IInv'
  OBVIOUS
<1>1. CASE UNCHANGED vars
  BY <1>1
  DEF vars, braviveVars, tableVars, bigoVars, IInv, TypeOK, ReportsSound, StageFitsBigo,
      OneHandlerFulfils, DeliveredOnlyIfPaid, CompletedMeansDelivered,
      PaidOrderInFulfilment, PaymentMirrorsProvider
<1>2. ASSUME NEW o \in Orders, NEW s \in WebhookStatus, BraviveReports(o, s) PROVE IInv'
  BY <1>2, ReportStep
<1>3. ASSUME NEW w \in Workers, HandlerStep(w) PROVE IInv'
  BY <1>3, IntakeStep, ApproveStep, RequestStep, AnswerStep, CompleteStep, ReversalStep
  DEF HandlerStep
<1> QED
  BY <1>1, <1>2, <1>3, OrderStep, IntakeStep, BackgroundStep DEF Next

THEOREM SpecIInv == Spec => []IInv
  BY InitIInv, NextIInv, PTL DEF Spec

(* TypeOK holds for any number of orders and overlapping handlers. *)
THEOREM TypeCorrect == Spec => []TypeOK
<1>1. IInv => TypeOK
  BY DEF IInv
<1> QED
  BY <1>1, SpecIInv, PTL

(* No order is recharged that has not been paid: DeliveredOnlyIfPaid. *)
THEOREM RechargeOnlyIfPaid == Spec => []DeliveredOnlyIfPaid
<1>1. IInv => DeliveredOnlyIfPaid
  BY DEF IInv
<1> QED
  BY <1>1, SpecIInv, PTL

(* A completed order has been recharged by Bigo: CompletedMeansDelivered. *)
THEOREM CompletedIsDelivered == Spec => []CompletedMeansDelivered
<1>1. IInv => CompletedMeansDelivered
  BY DEF IInv
<1> QED
  BY <1>1, SpecIInv, PTL

(* Expiry and rejection never hit a paid order, but for a late step of the *)
(* expiry by hand: PaidOrderInFulfilment.                                  *)
THEOREM PaidStaysInFulfilment == Spec => []PaidOrderInFulfilment
<1>1. IInv => PaidOrderInFulfilment
  BY DEF IInv
<1> QED
  BY <1>1, SpecIInv, PTL

(* Overlapping handlers never complete an order twice: OneHandlerFulfils. *)
THEOREM OneFulfilment == Spec => []OneHandlerFulfils
<1>1. IInv => OneHandlerFulfils
  BY DEF IInv
<1> QED
  BY <1>1, SpecIInv, PTL

(* The payment row never says what Bravive has not: PaymentMirrorsProvider. *)
THEOREM PaymentIsReported == Spec => []PaymentMirrorsProvider
<1>1. IInv => PaymentMirrorsProvider
  BY DEF IInv
<1> QED
  BY <1>1, SpecIInv, PTL

-----------------------------------------------------------------------------
(* Every step is one of the ledger's, or leaves the ledger alone. *)
LEMMA LedgerStep ==
  ASSUME IInv, [Next]_vars
  PROVE  [Ledger!Next]_bigo
<1> USE DEF IInv, Ledger!Next, Ledger!Open, Ledger!Succeed, Ledger!GiveUp, Ledger!Move
<1>1. ASSUME NEW w \in Workers, RequestRecharge(w) PROVE [Ledger!Next]_bigo
  BY <1>1 DEF RequestRecharge, CanOpen, ReportsSound
<1>2. ASSUME NEW w \in Workers, BigoAnswers(w) PROVE [Ledger!Next]_bigo
  BY <1>2 DEF BigoAnswers, ReportsSound, StageFitsBigo
<1>3. ASSUME NEW o \in Orders, RetrySettles(o) PROVE [Ledger!Next]_bigo
  BY <1>3 DEF RetrySettles, StageFitsBigo
<1>4. ASSUME NEW w \in Workers, HandlerStep(w) PROVE [Ledger!Next]_bigo
  <2>1. ASSUME ~RequestRecharge(w), ~BigoAnswers(w) PROVE bigo' = bigo
    BY <1>4, <2>1
    DEF HandlerStep, CheckDecide, Approve, Complete, ConfirmCoupon, Reject, Refund,
        Chargeback, bigoVars
  <2> QED
    BY <1>1, <1>2, <2>1
<1>5. ASSUME Next, \A w \in Workers : ~HandlerStep(w), \A o \in Orders : ~RetrySettles(o)
      PROVE  bigo' = bigo
  BY <1>5
  DEF Next, BraviveReports, CreatePayment, SaveOrder, ExpireOrders, FindUnpaid, ExpireFound,
      Webhook, CheckStart, Restart, bigoVars
<1>6. CASE UNCHANGED vars
  BY <1>6 DEF vars, bigoVars
<1> QED
  BY <1>3, <1>4, <1>5, <1>6

(* The payment handlers and the retry service keep the promise of the      *)
(* recharge ledger: at most one recharge per order, with one outcome.      *)
THEOREM KeepsLedger == Spec => LedgerSpec
<1>1. Init => Ledger!Init
  BY DEF Init, Ledger!Init
<1>2. IInv /\ [Next]_vars => [Ledger!Next]_bigo
  BY LedgerStep
<1> QED
  BY <1>1, <1>2, SpecIInv, PTL DEF Spec, LedgerSpec, Ledger!Spec
-----------------------------------------------------------------------------
(* The coupon                                                              *)

Delivered == {o \in CouponOrders : bigo[o] = "success"}

(* Worker w has yet to count order o, or to fail at it. *)
Counting(w, o) == worker[w].at \in {"complete", "confirm"} /\ worker[w].order = o

(* The delivered orders that no handler has yet to count.  Whatever has    *)
(* been counted is among them, and a handler that counts an order adds it. *)
Settled == {o \in Delivered : \A w \in Workers : ~Counting(w, o)}

CountInv ==
  /\ IsFiniteSet(Delivered)
  /\ timesUsed <= Cardinality(Settled)

(* No delivery is ever undone, and a step makes one at most. *)
LEMMA DeliveryStep ==
  ASSUME IInv, [Next]_vars
  PROVE  /\ Delivered \subseteq Delivered'
         /\ \E o : Delivered' \subseteq Delivered \cup {o}
<1>1. [Ledger!Next]_bigo
  BY LedgerStep
<1>2. CASE bigo' = bigo
  BY <1>2 DEF Delivered
<1>3. ASSUME NEW o \in Orders, NEW s, s # "none", bigo[o] \in {"none", "open"},
             bigo' = [bigo EXCEPT ![o] = s]
      PROVE  /\ Delivered \subseteq Delivered'
             /\ Delivered' \subseteq Delivered \cup {o}
  BY <1>3, OrderAssumption DEF Delivered, IInv, TypeOK
<1> QED
  BY <1>1, <1>2, <1>3 DEF Ledger!Next, Ledger!Open, Ledger!Succeed, Ledger!GiveUp, Ledger!Move

(* A handler comes to count an order only by the answer that delivers it.  *)
LEMMA CountingStep ==
  ASSUME IInv, [Next]_vars, NEW w \in Workers, NEW o \in Orders, Counting(w, o)'
  PROVE  Counting(w, o) \/ bigo[o] = "open"
<1> USE DEF IInv, TypeOK
<1>1. ASSUME NEW v \in Workers, Return(v) PROVE Counting(w, o)
  BY <1>1 DEF Return, Idle, Counting
<1>2. ASSUME NEW v \in Workers, NEW s \in Stages \ {"complete", "confirm"}, GoTo(v, s)
      PROVE  Counting(w, o)
  BY <1>2 DEF GoTo, Worker, Counting
<1>3. ASSUME NEW v \in Workers, Complete(v) PROVE Counting(w, o)
  BY <1>3 DEF Complete, GoTo, Worker, Counting
<1>4. ASSUME NEW v \in Workers, BigoAnswers(v) PROVE Counting(w, o) \/ bigo[o] = "open"
  <2>1. Return(v) \/ GoTo(v, "complete")
    BY <1>4 DEF BigoAnswers, AfterError
  <2>2. CASE v = w
    BY <1>4, <2>1, <2>2, <1>1
    DEF BigoAnswers, StageFitsBigo, GoTo, Worker, Counting
  <2>3. CASE v # w
    BY <1>4, <2>1, <2>3, <1>1 DEF GoTo, Counting
  <2> QED
    BY <2>2, <2>3
<1>5. ASSUME NEW v \in Workers, CheckDecide(v) PROVE Counting(w, o)
  <2>1. CheckedStage(worker[v].seen, payment[worker[v].order])
          \in {"idle", "approve", "reject"}
    BY DEF CheckedStage
  <2> QED
    BY <1>1, <1>2, <1>5, <2>1 DEF CheckDecide, Stages
<1>6. ASSUME NEW v \in Workers, HandlerStep(v) PROVE Counting(w, o) \/ bigo[o] = "open"
  <2>1. ASSUME Approve(v) \/ RequestRecharge(v) PROVE Counting(w, o)
    BY <1>1, <1>2, <2>1 DEF Approve, RequestRecharge, Stages
  <2>2. ASSUME ConfirmCoupon(v) \/ Reject(v) \/ Refund(v) \/ Chargeback(v)
        PROVE  Counting(w, o)
    BY <1>1, <2>2 DEF ConfirmCoupon, Reject, Refund, Chargeback
  <2> QED
    BY <1>3, <1>4, <1>5, <1>6, <2>1, <2>2 DEF HandlerStep
<1>7. ASSUME NEW v \in Workers, NEW n \in notices, NEW again \in BOOLEAN, Webhook(v, n, again)
      PROVE  Counting(w, o)
  <2>1. StageOf(n.status) \notin {"complete", "confirm"}
    BY DEF StageOf, Notice, WebhookStatus
  <2> QED
    BY <1>7, <2>1 DEF Webhook, Counting
<1>8. ASSUME NEW v \in Workers, NEW p \in Orders, CheckStart(v, p) PROVE Counting(w, o)
  BY <1>8 DEF CheckStart, Counting
<1>9. ASSUME UNCHANGED worker PROVE Counting(w, o)
  BY <1>9 DEF Counting
<1>10. ~Restart
  BY DEF Restart, Counting, Idle
<1> QED
  BY <1>6, <1>7, <1>8, <1>9, <1>10
  DEF Next, vars, BraviveReports, CreatePayment, SaveOrder, ExpireOrders, FindUnpaid,
      ExpireFound, RetrySettles

(* Only a confirmation counts, and it counts one order, by one at most. *)
LEMMA TimesUsedStep ==
  ASSUME IInv, [Next]_vars
  PROVE  \/ timesUsed' <= timesUsed
         \/ /\ timesUsed' = timesUsed + 1
            /\ \E w \in Workers : ConfirmCoupon(w) /\ worker[w].order \in CouponOrders
<1> USE DEF IInv, TypeOK
<1>1. ASSUME NEW w \in Workers, ConfirmCoupon(w), timesUsed' # timesUsed
      PROVE  timesUsed' = timesUsed + 1 /\ worker[w].order \in CouponOrders
  BY <1>1 DEF ConfirmCoupon
<1>2. ASSUME NEW w \in Workers, Refund(w) \/ Chargeback(w) PROVE timesUsed' <= timesUsed
  BY <1>2 DEF Refund, Chargeback, RevertCoupon
<1>3. ASSUME NEW w \in Workers, HandlerStep(w), ~ConfirmCoupon(w), ~Refund(w), ~Chargeback(w)
      PROVE  timesUsed' = timesUsed
  BY <1>3
  DEF HandlerStep, CheckDecide, Approve, RequestRecharge, BigoAnswers, Complete, Reject, tableVars
<1>4. ASSUME \A w \in Workers : ~HandlerStep(w) PROVE timesUsed' = timesUsed
  BY <1>4
  DEF Next, vars, tableVars, BraviveReports, CreatePayment, SaveOrder, ExpireOrders, FindUnpaid,
      ExpireFound, Webhook, CheckStart, RetrySettles, Restart
<1> QED
  BY <1>1, <1>2, <1>3, <1>4 DEF HandlerStep

THEOREM NextCountInv ==
  ASSUME IInv, CountInv, [Next]_vars
  PROVE  CountInv'
<1>1. Delivered \subseteq Delivered' /\ IsFiniteSet(Delivered')
  <2>1. PICK o : Delivered' \subseteq Delivered \cup {o}
    BY DeliveryStep
  <2>2. IsFiniteSet(Delivered \cup {o})
    BY FS_AddElement DEF CountInv
  <2>3. IsFiniteSet(Delivered')
    BY <2>1, <2>2, FS_Subset
  <2> QED
    BY <2>3, DeliveryStep
<1>2. Settled \subseteq Settled'
  <2> SUFFICES ASSUME NEW o \in Settled, NEW w \in Workers, Counting(w, o)' PROVE FALSE
    BY <1>1 DEF Settled
  <2>1. o \in Orders /\ bigo[o] = "success"
    BY OrderAssumption DEF Settled, Delivered
  <2> QED
    BY <2>1, CountingStep DEF Settled
<1>3. /\ IsFiniteSet(Settled') /\ Cardinality(Settled') \in Nat
      /\ IsFiniteSet(Settled) /\ Cardinality(Settled) \in Nat
      /\ Cardinality(Settled) <= Cardinality(Settled')
  <2>1. Settled' \subseteq Delivered'
    BY DEF Settled
  <2>2. IsFiniteSet(Settled')
    BY <1>1, <2>1, FS_Subset
  <2>3. IsFiniteSet(Settled) /\ Cardinality(Settled) <= Cardinality(Settled')
    BY <1>2, <2>2, FS_Subset
  <2> QED
    BY <2>2, <2>3, FS_CardinalityType
<1>4. timesUsed \in Int /\ timesUsed' \in Int /\ timesUsed <= Cardinality(Settled)
  BY NextIInv DEF IInv, TypeOK, CountInv
<1>5. CASE timesUsed' <= timesUsed
  BY <1>1, <1>3, <1>4, <1>5 DEF CountInv
<1>6. ASSUME NEW w \in Workers, ConfirmCoupon(w), worker[w].order \in CouponOrders,
             timesUsed' = timesUsed + 1
      PROVE  CountInv'
  <2> DEFINE o == worker[w].order
  <2>0. /\ worker[w].at = "confirm" /\ Return(w) /\ o \in CouponOrders
        /\ worker \in [Workers -> Worker]
    BY <1>6 DEF ConfirmCoupon, IInv, TypeOK
  <2>1. o \in Delivered /\ o \notin Settled
    BY <2>0 DEF Counting, Settled, Delivered, IInv, StageFitsBigo
  <2>2. ASSUME NEW v \in Workers
        PROVE  ~(worker'[v].at \in {"complete", "confirm"} /\ worker'[v].order = o)
    BY <2>0 DEF Return, Idle, IInv, OneHandlerFulfils
  <2>3. o \in Settled'
    BY <1>1, <2>1, <2>2 DEF Settled, Counting
  <2> HIDE DEF o
  <2>4. Cardinality(Settled \cup {o}) = Cardinality(Settled) + 1
    BY <1>3, <2>1, FS_AddElement
  <2>5. Cardinality(Settled \cup {o}) <= Cardinality(Settled')
    BY <1>2, <1>3, <2>3, FS_Subset
  <2>6. timesUsed' <= Cardinality(Settled')
    BY <1>3, <1>4, <1>6, <2>4, <2>5
  <2> QED
    BY <1>1, <2>6 DEF CountInv
<1> QED
  BY <1>5, <1>6, TimesUsedStep

THEOREM SpecCountInv == Spec => []CountInv
<1>1. Init => CountInv
  <2> SUFFICES ASSUME Init PROVE CountInv
    OBVIOUS
  <2>1. Delivered = {} /\ Settled = {} /\ timesUsed = 0
    BY OrderAssumption DEF Init, Delivered, Settled
  <2> QED
    BY <2>1, FS_EmptySet DEF CountInv
<1>2. IInv /\ CountInv /\ [Next]_vars => CountInv'
  BY NextCountInv
<1> QED
  BY <1>1, <1>2, SpecIInv, PTL DEF Spec

(* The coupon is never counted more often than orders with it have been    *)
(* delivered, for any number of orders and in any order of confirmations   *)
(* and reversals: CouponNeverOvercounted.                                  *)
THEOREM CouponWithinDeliveries == Spec => []CouponNeverOvercounted
<1>1. IInv /\ CountInv => CouponNeverOvercounted
  <2> SUFFICES ASSUME IInv, CountInv PROVE timesUsed <= Cardinality(Delivered)
    BY DEF CouponNeverOvercounted, Delivered
  <2>1. Settled \subseteq Delivered
    BY DEF Settled
  <2>2. IsFiniteSet(Settled) /\ Cardinality(Settled) <= Cardinality(Delivered)
    BY <2>1, FS_Subset DEF CountInv
  <2>3. Cardinality(Settled) \in Nat /\ Cardinality(Delivered) \in Nat /\ timesUsed \in Int
    BY <2>2, FS_CardinalityType DEF CountInv, IInv, TypeOK
  <2> QED
    BY <2>2, <2>3 DEF CountInv
<1> QED
  BY <1>1, SpecIInv, SpecCountInv, PTL
=============================================================================
