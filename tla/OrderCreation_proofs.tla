-------------------------- MODULE OrderCreation_proofs --------------------------
(***************************************************************************)
(* Proofs about OrderCreation for every value of its constants.  Order     *)
(* numbers stay unique and every answer fits its request, however many     *)
(* calls overlap: both rest on what a call that has ended no longer does.  *)
(* A coupon that was closed before a call began is not taken, because the  *)
(* coupon stays closed and the call has yet to read it (ShutOut).          *)
(*                                                                         *)
(* The limits of a coupon (once per account, first purchase) are exceeded  *)
(* by calls that overlap, and by orders that come to life again after they *)
(* had given the coupon back (freed).  Of the orders that have held it     *)
(* without a break there are never more than calls overlap (LimitInv), and *)
(* for calls one after the other there is one.                             *)
(***************************************************************************)
EXTENDS OrderCreation, FiniteSetTheorems, TLAPS

(* An order is saved, and an answer given, only when the call ends.        *)
EndedWithAnswer ==
  \A r \in Calls :
    /\ r \in Saved => call[r].at = "done"
    /\ answer[r] # {} => call[r].at = "done"

(* From the comparison on, the price due is the price asked.               *)
PriceCompared ==
  \A r \in Calls :
    call[r].at \in {"number", "recent", "pay", "save", "done"}
      => call[r].due = call[r].asked

IInv ==
  /\ TypeOK
  /\ EndedWithAnswer
  /\ PriceCompared
  /\ NumbersUnique
  /\ AnswerMatchesRequest

-----------------------------------------------------------------------------
THEOREM InitIInv == Init => IInv
<1> SUFFICES ASSUME Init
             PROVE  IInv
  OBVIOUS
<1>1. NoOrder \in Order /\ NoOrder.status = "NONE"
  BY DEF NoOrder, Order, OrderStatus, PaymentStatus
<1>2. Saved = {} /\ order \in [Calls -> Order]
  BY <1>1 DEF Init, Saved
<1> QED
  BY <1>2, CreationAssumption
  DEF Init, IInv, TypeOK, Idle, EndedWithAnswer, PriceCompared, NumbersUnique,
      AnswerMatchesRequest

(* A call of which only call[r] changes, and that does not end with an     *)
(* order, keeps the invariant. *)
LEMMA CallOnly ==
  ASSUME IInv, NEW r \in Calls, NEW c \in Call,
         call[r].at # "done",
         call' = [call EXCEPT ![r] = c],
         c.at # "done",
         c.at \in {"number", "recent", "pay", "save"} => c.due = c.asked,
         UNCHANGED <<answer, lifeVars, couponVars>>
  PROVE  IInv'
<1> USE DEF IInv, lifeVars, couponVars
<1>1. Saved' = Saved /\ r \notin Saved /\ answer[r] = {}
  BY DEF Saved, EndedWithAnswer
<1>2. TypeOK'
  BY DEF TypeOK
<1>3. EndedWithAnswer' /\ PriceCompared'
  BY <1>1 DEF EndedWithAnswer, PriceCompared, TypeOK
<1>4. NumbersUnique'
  BY <1>1 DEF NumbersUnique, TypeOK, Saved
<1>5. AnswerMatchesRequest'
  <2> SUFFICES ASSUME NEW p \in Calls, NEW q \in answer[p]
               PROVE  /\ q \in Saved
                      /\ call'[q].user = call'[p].user /\ call'[q].bigo = call'[p].bigo
                      /\ call'[q].coupon = call'[p].coupon
                      /\ call'[q].due = call'[p].asked
    BY <1>1 DEF AnswerMatchesRequest
  <2>1. p # r /\ q # r /\ q \in Calls
    BY <1>1 DEF AnswerMatchesRequest, Saved
  <2> QED
    BY <2>1 DEF AnswerMatchesRequest, TypeOK
<1> QED
  BY <1>2, <1>3, <1>4, <1>5

(* A call ends with an order q that is saved and fits its request. *)
LEMMA EndsWith ==
  ASSUME IInv, NEW r \in Calls, NEW q \in Calls,
         call[r].at \in {"recent", "save"}, call[r] \in Call,
         GoTo(r, "done"), answer' = [answer EXCEPT ![r] = {q}],
         Saved \subseteq Saved', Saved' \subseteq Saved \cup {r},
         q \in Saved',
         call[q].user = call[r].user, call[q].bigo = call[r].bigo,
         call[q].coupon = call[r].coupon, call[q].due = call[r].asked,
         r \in Saved' =>
           \A p \in Saved : call[p].number \cap call[r].number = {}
  PROVE  /\ call' \in [Calls -> Call \cup {Idle}]
         /\ answer' \in [Calls -> SUBSET Calls]
         /\ EndedWithAnswer' /\ PriceCompared' /\ NumbersUnique'
         /\ AnswerMatchesRequest'
<1> USE DEF IInv, GoTo
<1>1. /\ call' = [call EXCEPT ![r] = [call[r] EXCEPT !.at = "done"]]
      /\ [call[r] EXCEPT !.at = "done"] \in Call
  BY DEF Call, Stages, TypeOK
<1>2. /\ call'[r].at = "done" /\ call'[r].user = call[r].user
      /\ call'[r].bigo = call[r].bigo /\ call'[r].coupon = call[r].coupon
      /\ call'[r].due = call[r].due /\ call'[r].asked = call[r].asked
      /\ call'[r].number = call[r].number
      /\ \A p \in Calls \ {r} : call'[p] = call[p]
  BY DEF TypeOK, Call
<1>3. r \notin Saved /\ Saved \subseteq Calls
  BY DEF EndedWithAnswer, Saved
<1>4. call' \in [Calls -> Call \cup {Idle}] /\ answer' \in [Calls -> SUBSET Calls]
  BY <1>1 DEF TypeOK
<1>5. EndedWithAnswer' /\ PriceCompared'
  BY <1>2 DEF EndedWithAnswer, PriceCompared, TypeOK
<1>6. NumbersUnique'
  BY <1>2, <1>3 DEF NumbersUnique
<1>7. AnswerMatchesRequest'
  <2> SUFFICES ASSUME NEW p \in Calls, NEW s \in answer'[p]
               PROVE  /\ s \in Saved'
                      /\ call'[s].user = call'[p].user /\ call'[s].bigo = call'[p].bigo
                      /\ call'[s].coupon = call'[p].coupon
                      /\ call'[s].due = call'[p].asked
    BY DEF AnswerMatchesRequest
  <2>1. CASE p = r
    BY <2>1, <1>2 DEF TypeOK, PriceCompared
  <2>2. CASE p # r
    <3>1. s \in answer[p] /\ s \in Saved /\ s # r
      BY <2>2, <1>3 DEF TypeOK, AnswerMatchesRequest
    <3> QED
      BY <2>2, <3>1, <1>2, <1>3 DEF AnswerMatchesRequest
  <2> QED
    BY <2>1, <2>2
<1> QED
  BY <1>4, <1>5, <1>6, <1>7

(* A call that only goes on to another stage. *)
LEMMA StageOnly ==
  ASSUME IInv, NEW r \in Calls, NEW s \in Stages \ {"done"},
         call[r].at \in Stages \ {"done"},
         s \in {"number", "recent", "pay", "save"} => call[r].due = call[r].asked,
         GoTo(r, s), UNCHANGED <<answer, lifeVars, couponVars>>
  PROVE  IInv'
<1> DEFINE c == [call[r] EXCEPT !.at = s]
<1>1. call[r] \in Call
  BY DEF IInv, TypeOK, Idle, Stages
<1>2. c \in Call /\ c.at = s /\ c.due = call[r].due /\ c.asked = call[r].asked
  BY <1>1 DEF Call
<1>3. call' = [call EXCEPT ![r] = c]
  BY DEF GoTo, IInv, TypeOK
<1>4. call[r].at # "done" /\ s # "done"
  OBVIOUS
<1> HIDE DEF c
<1> QED
  BY <1>1, <1>2, <1>3, <1>4, CallOnly

LEMMA BeginStep ==
  ASSUME IInv, NEW r \in Calls, NEW u \in Users, NEW b \in BigoIds,
         NEW coupon \in BOOLEAN, NEW asked \in Prices, Begin(r, u, b, coupon, asked)
  PROVE  IInv'
<1> DEFINE c == [at |-> IF coupon THEN "coupon"
                        ELSE IF asked = BasePrice THEN "number" ELSE "refused",
                 user |-> u, bigo |-> b, coupon |-> coupon, asked |-> asked,
                 due |-> BasePrice, tries |-> 0, number |-> {}]
<1>1. c \in Call
  <2>1. c.at \in Stages /\ c.due \in Prices /\ c.tries \in 0..MaxAttempts
    BY CreationAssumption DEF Stages, Prices
  <2> QED
    BY <2>1 DEF Call
<1>2. /\ c.at # "done"
      /\ c.at \in {"number", "recent", "pay", "save"} => c.due = c.asked
  OBVIOUS
<1>3. call' = [call EXCEPT ![r] = c] /\ call[r].at # "done"
      /\ UNCHANGED <<answer, lifeVars, couponVars>>
  BY DEF Begin
<1> HIDE DEF c
<1> QED
  BY <1>1, <1>2, <1>3, CallOnly

LEMMA ReadCouponStep ==
  ASSUME IInv, NEW r \in Calls, ReadCoupon(r)
  PROVE  IInv'
<1> DEFINE c == [call[r] EXCEPT !.at  = IF CouponValid THEN "first" ELSE "refused",
                                !.due = IF CouponValid THEN FinalAmount ELSE @]
<1>1. call[r] \in Call /\ call[r].at = "coupon" /\ FinalAmount \in Prices
  BY DEF ReadCoupon, IInv, TypeOK, Idle, Prices, FinalAmount
<1>2. c \in Call /\ c.at \in {"first", "refused"}
  BY <1>1 DEF Call, Stages
<1>3. call' = [call EXCEPT ![r] = c]
  BY <1>1 DEF ReadCoupon, IInv, TypeOK
<1> HIDE DEF c
<1> QED
  BY <1>1, <1>2, <1>3, CallOnly DEF ReadCoupon

LEMMA HistoryStep ==
  ASSUME IInv, NEW r \in Calls, CheckCouponHistory(r)
  PROVE  IInv'
<1>1. ASSUME CheckHistory(r, "first", "bigo") PROVE IInv'
  BY <1>1, StageOnly DEF CheckHistory, Stages
<1>2. ASSUME CheckHistory(r, "bigo", "account") PROVE IInv'
  BY <1>2, StageOnly DEF CheckHistory, Stages
<1>3. ASSUME CheckHistory(r, "account", AfterValidation(r)) PROVE IInv'
  BY <1>3, StageOnly DEF CheckHistory, AfterValidation, Stages
<1> QED
  BY <1>1, <1>2, <1>3 DEF CheckCouponHistory

LEMMA TryNumberStep ==
  ASSUME IInv, NEW r \in Calls, TryNumber(r)
  PROVE  IInv'
<1>1. PICK n \in Numbers :
        call' = [call EXCEPT
          ![r].number = {n},
          ![r].tries = IF @ < MaxAttempts THEN @ + 1 ELSE @,
          ![r].at = IF OutOfAttempts(call[r].tries + 1) THEN "refused"
                    ELSE IF Taken(n) THEN "number" ELSE "recent"]
  BY DEF TryNumber
<1> DEFINE c == [call[r] EXCEPT
                   !.number = {n},
                   !.tries = IF @ < MaxAttempts THEN @ + 1 ELSE @,
                   !.at = IF OutOfAttempts(call[r].tries + 1) THEN "refused"
                          ELSE IF Taken(n) THEN "number" ELSE "recent"]
<1>2. call[r] \in Call /\ call[r].at = "number" /\ call[r].due = call[r].asked
  BY DEF TryNumber, IInv, TypeOK, Idle, PriceCompared
<1>3. /\ c \in Call /\ c.at \in {"refused", "number", "recent"}
      /\ c.due = call[r].due /\ c.asked = call[r].asked
  <2>1. /\ c.tries = IF call[r].tries < MaxAttempts
                     THEN call[r].tries + 1 ELSE call[r].tries
        /\ call[r].tries \in 0..MaxAttempts
    BY <1>2 DEF Call
  <2>2. c.tries \in 0..MaxAttempts
    BY <2>1, CreationAssumption
  <2>3. c.at \in {"refused", "number", "recent"}
    BY <1>2 DEF Call
  <2> QED
    BY <1>2, <2>2, <2>3 DEF Call, Stages
<1>4. call' = [call EXCEPT ![r] = c]
  BY <1>1 DEF IInv, TypeOK
<1> HIDE DEF c
<1> QED
  BY <1>2, <1>3, <1>4, CallOnly DEF TryNumber

LEMMA FindRecentStep ==
  ASSUME IInv, NEW r \in Calls, FindRecent(r)
  PROVE  IInv'
<1>1. /\ call[r] \in Call /\ call[r].at = "recent" /\ call[r].due = call[r].asked
      /\ UNCHANGED <<lifeVars, couponVars>>
  BY DEF FindRecent, IInv, TypeOK, Idle, PriceCompared
<1>2. ASSUME NEW q \in RecentOrders(r), SameOrder(q, r),
             GoTo(r, "done"), answer' = [answer EXCEPT ![r] = {q}]
      PROVE  IInv'
  <2>1. q \in Calls /\ q \in Saved /\ Saved' = Saved /\ r \notin Saved'
    BY <1>1 DEF RecentOrders, Saved, IInv, EndedWithAnswer, lifeVars
  <2>2. /\ call[q].user = call[r].user /\ call[q].bigo = call[r].bigo
        /\ call[q].coupon = call[r].coupon /\ call[q].due = call[r].asked
    BY <1>1, <1>2 DEF RecentOrders, SameOrder
  <2>3. /\ call' \in [Calls -> Call \cup {Idle}]
        /\ answer' \in [Calls -> SUBSET Calls]
        /\ EndedWithAnswer' /\ PriceCompared' /\ NumbersUnique' /\ AnswerMatchesRequest'
    BY <1>1, <1>2, <2>1, <2>2, EndsWith
  <2> QED
    BY <1>1, <2>3 DEF IInv, TypeOK, lifeVars, couponVars
<1>3. ASSUME GoTo(r, "pay"), UNCHANGED answer PROVE IInv'
  BY <1>1, <1>3, StageOnly DEF Stages
<1> QED
  BY <1>2, <1>3 DEF FindRecent

LEMMA SaveOrderStep ==
  ASSUME IInv, NEW r \in Calls, SaveOrder(r)
  PROVE  IInv'
<1>1. /\ call[r] \in Call /\ call[r].at = "save" /\ call[r].due = call[r].asked
      /\ UNCHANGED <<timesUsed, freed, refunds, couponVars>>
  BY DEF SaveOrder, IInv, TypeOK, Idle, PriceCompared
<1>2. CASE NumberFree(r)
  <2>1. /\ order' = [order EXCEPT ![r] = NewOrder]
        /\ NewOrder \in Order /\ NewOrder.status = "CREATED"
        /\ answer' = [answer EXCEPT ![r] = {r}]
        /\ GoTo(r, "done")
    BY <1>2 DEF SaveOrder, NewOrder, Order, OrderStatus, PaymentStatus
  <2>2. /\ Saved' = Saved \cup {r}
        /\ \A p \in Saved : call[p].number \cap call[r].number = {}
    BY <1>2, <2>1 DEF Saved, NumberFree, Taken, IInv, TypeOK
  <2>3. /\ call' \in [Calls -> Call \cup {Idle}]
        /\ answer' \in [Calls -> SUBSET Calls]
        /\ EndedWithAnswer' /\ PriceCompared' /\ NumbersUnique' /\ AnswerMatchesRequest'
    BY <1>1, <2>1, <2>2, EndsWith
  <2> QED
    BY <1>1, <2>1, <2>3 DEF IInv, TypeOK, couponVars
<1>3. CASE ~NumberFree(r)
  BY <1>1, <1>3, StageOnly DEF SaveOrder, Stages, lifeVars
<1> QED
  BY <1>2, <1>3

(* What a step in the life of an order does to it, and to no other: a      *)
(* saved order stays saved, freed remembers, and whoever has not been      *)
(* freed has no status that frees.                                         *)
FreedFits ==
  \A q \in Calls :
    /\ order[q].status \in {"EXPIRED", "REFOUNDED"} => order[q].status \in freed[q]
    /\ order[q].payment = "REJECTED" => freed[q] # {}

LEMMA LifeMoves ==
  ASSUME TypeOK, NEW r \in Calls, OrderLife(r)
  PROVE  /\ \E o \in Order : /\ order' = [order EXCEPT ![r] = o]
                             /\ o.status = "NONE" <=> order[r].status = "NONE"
         /\ freed' \in [Calls -> SUBSET {"EXPIRED", "REFOUNDED"}]
         /\ \A q \in Calls : freed[q] \subseteq freed'[q]
         /\ FreedFits => FreedFits'
<1> DEFINE Moves(o, s) ==
      /\ order' = [order EXCEPT ![r] = o] /\ o \in Order
      /\ o.status = "NONE" <=> order[r].status = "NONE"
      /\ s \subseteq {"EXPIRED", "REFOUNDED"}
      /\ freed' = [freed EXCEPT ![r] = @ \cup s]
      /\ \/ o.status \in s
         \/ o.status \notin {"EXPIRED", "REFOUNDED"}
         \/ o.status = order[r].status
      /\ o.payment = "REJECTED" => order[r].payment = "REJECTED" \/ s # {}
<1>0. {} \in SUBSET {"EXPIRED", "REFOUNDED"}
  OBVIOUS
<1>1. order[r] \in Order /\ freed = [freed EXCEPT ![r] = @ \cup {}]
  BY DEF TypeOK
<1>2. \E o \in Order, s \in SUBSET {"EXPIRED", "REFOUNDED"} : Moves(o, s)
  <2>1. CASE Age(r)
    <3> DEFINE o == [order[r] EXCEPT !.recent = FALSE]
    <3>1. o \in Order /\ o.status = order[r].status /\ o.payment = order[r].payment
      BY <1>1 DEF Order
    <3>2. order' = [order EXCEPT ![r] = o] /\ freed' = freed
      BY <2>1 DEF Age, TypeOK
    <3>3. Moves(o, {})
      BY <1>1, <3>1, <3>2
    <3> HIDE DEF Moves, o
    <3> QED
      BY <3>1, <3>3, <1>0
  <2>2. ASSUME NEW s \in {"EXPIRED", "REFOUNDED"}, NEW p \in PaymentStatus,
               SetStatus(r, s, p), order[r].status # "NONE"
        PROVE  \E o \in Order, t \in SUBSET {"EXPIRED", "REFOUNDED"} : Moves(o, t)
    <3> DEFINE o == [order[r] EXCEPT !.status = s, !.payment = p]
    <3>1. o \in Order /\ o.status = s /\ o.payment = p /\ s # "NONE"
      BY <1>1 DEF Order, OrderStatus
    <3>2. order' = [order EXCEPT ![r] = o] /\ freed' = [freed EXCEPT ![r] = @ \cup {s}]
      <4>1. {s} \cap {"EXPIRED", "REFOUNDED"} = {s}
        OBVIOUS
      <4> QED
        BY <2>2, <4>1 DEF SetStatus, TypeOK
    <3>3. Moves(o, {s})
      BY <2>2, <3>1, <3>2
    <3> HIDE DEF Moves, o
    <3> QED
      BY <3>1, <3>3, <1>0
  <2>3. CASE Expire(r)
    BY <1>1, <2>2, <2>3 DEF Expire, Order, Saved
  <2>4. CASE Reject(r)
    BY <2>2, <2>4 DEF Reject, PaymentStatus, Saved
  <2>5. CASE Refund(r)
    <3>1. PICK p \in {order[r].payment, "REJECTED"} : SetStatus(r, "REFOUNDED", p)
      BY <2>5 DEF Refund
    <3>2. p \in PaymentStatus /\ order[r].status # "NONE"
      BY <1>1, <2>5, <3>1 DEF Order, PaymentStatus, Refund, Saved
    <3> QED
      BY <2>2, <3>1, <3>2
  <2>6. CASE Approve(r)
    <3> DEFINE o == [order[r] EXCEPT !.status = "PROCESSING", !.payment = "APPROVED",
                                     !.bigo = IF @ = "none" THEN "asked" ELSE @]
    <3>1. o \in Order /\ o.status = "PROCESSING" /\ o.payment = "APPROVED"
      BY <1>1 DEF Order, OrderStatus, PaymentStatus
    <3>2. order' = [order EXCEPT ![r] = o] /\ freed' = freed /\ order[r].status # "NONE"
      BY <2>6 DEF Approve, TypeOK, Saved
    <3>3. Moves(o, {})
      BY <1>1, <3>1, <3>2
    <3> HIDE DEF Moves, o
    <3> QED
      BY <3>1, <3>3, <1>0
  <2>7. CASE Fulfil(r)
    <3> DEFINE o == [order[r] EXCEPT !.status = "COMPLETED", !.bigo = "done"]
    <3>1. o \in Order /\ o.status = "COMPLETED" /\ o.payment = order[r].payment
      BY <1>1 DEF Order, OrderStatus
    <3>2. order' = [order EXCEPT ![r] = o] /\ freed' = freed
      BY <2>7 DEF Fulfil, TypeOK
    <3>3. order[r].status # "NONE"
      BY <2>7 DEF Fulfil, Saved
    <3>4. Moves(o, {})
      BY <1>1, <3>1, <3>2, <3>3
    <3> HIDE DEF Moves, o
    <3> QED
      BY <3>1, <3>4, <1>0
  <2> QED
    BY <2>1, <2>3, <2>4, <2>5, <2>6, <2>7 DEF OrderLife
<1>3. PICK o \in Order, s \in SUBSET {"EXPIRED", "REFOUNDED"} : Moves(o, s)
  BY <1>2
<1>4. /\ order'[r] = o /\ freed'[r] = freed[r] \cup s
      /\ \A q \in Calls \ {r} : order'[q] = order[q] /\ freed'[q] = freed[q]
  BY <1>3 DEF TypeOK
<1>5. freed' \in [Calls -> SUBSET {"EXPIRED", "REFOUNDED"}]
  BY <1>3 DEF TypeOK
<1>6. FreedFits => FreedFits'
  BY <1>3, <1>4 DEF FreedFits
<1>7. \A q \in Calls : freed[q] \subseteq freed'[q]
  BY <1>4
<1> QED
  BY <1>3, <1>5, <1>6, <1>7

(* The life of saved orders and the administrator change no call, and no   *)
(* order ceases to be saved. *)
LEMMA MeanwhileStep ==
  ASSUME IInv,
         \/ \E r \in Calls : OrderLife(r)
         \/ CloseCoupon
         \/ \E d \in Discounts : ChangeDiscount(d)
  PROVE  IInv'
<1> USE DEF IInv, lifeVars, couponVars
<1>1. UNCHANGED <<call, answer>>
  BY DEF OrderLife, Age, Expire, Reject, Approve, Fulfil, Refund, CloseCoupon, ChangeDiscount
<1>2. TypeOK' /\ Saved' = Saved
  <2>1. ASSUME NEW r \in Calls, OrderLife(r) PROVE TypeOK' /\ Saved' = Saved
    <3>1. PICK o \in Order : /\ order' = [order EXCEPT ![r] = o]
                             /\ o.status = "NONE" <=> order[r].status = "NONE"
      BY <2>1, LifeMoves
    <3>2. freed' \in [Calls -> SUBSET {"EXPIRED", "REFOUNDED"}]
      BY <2>1, LifeMoves
    <3>3. timesUsed' \in Int /\ refunds' \in 0..MaxRefunds /\ UNCHANGED couponVars
      <4>1. CASE Fulfil(r)
        <5>1. timesUsed' \in {timesUsed, timesUsed + 1} /\ UNCHANGED <<refunds, couponVars>>
          BY <4>1 DEF Fulfil
        <5> QED
          BY <5>1 DEF TypeOK
      <4>2. CASE Refund(r)
        <5>1. /\ refunds' = refunds + 1 /\ refunds < MaxRefunds /\ UNCHANGED couponVars
              /\ timesUsed' = timesUsed - 1 \/ timesUsed' = timesUsed
          BY <4>2 DEF Refund
        <5> QED
          BY <5>1, CreationAssumption DEF TypeOK
      <4>3. CASE Age(r) \/ Expire(r) \/ Reject(r) \/ Approve(r)
        BY <4>3 DEF Age, Expire, Reject, Approve, TypeOK
      <4> QED
        BY <2>1, <4>1, <4>2, <4>3 DEF OrderLife
    <3>4. order' \in [Calls -> Order] /\ Saved' = Saved
      <4>1. order'[r] = o /\ \A q \in Calls \ {r} : order'[q] = order[q]
        BY <3>1 DEF TypeOK
      <4>2. Saved' = Saved
        BY <3>1, <4>1 DEF Saved
      <4> QED
        BY <3>1, <4>2 DEF TypeOK
    <3> QED
      BY <1>1, <3>2, <3>3, <3>4 DEF TypeOK
  <2>2. ASSUME CloseCoupon \/ \E d \in Discounts : ChangeDiscount(d)
        PROVE  TypeOK' /\ Saved' = Saved
    BY <2>2 DEF CloseCoupon, ChangeDiscount, TypeOK, Saved
  <2> QED
    BY <2>1, <2>2
<1> QED
  BY <1>1, <1>2
  DEF EndedWithAnswer, PriceCompared, NumbersUnique, AnswerMatchesRequest

-----------------------------------------------------------------------------
THEOREM NextIInv == IInv /\ [Next]_vars => IInv'
<1> SUFFICES ASSUME IInv, [Next]_vars PROVE IInv'
  OBVIOUS
<1>1. CASE UNCHANGED vars
  BY <1>1
  DEF vars, lifeVars, couponVars, IInv, TypeOK, EndedWithAnswer, PriceCompared,
      NumbersUnique, AnswerMatchesRequest, Saved
<1>2. ASSUME NEW r \in Calls, CallStep(r) PROVE IInv'
  <2>1. ASSUME AskForPayment(r) PROVE IInv'
    <3>1. call[r].at = "pay" /\ call[r].due = call[r].asked
      BY <2>1 DEF AskForPayment, IInv, PriceCompared
    <3> QED
      BY <2>1, <3>1, StageOnly DEF AskForPayment, Stages
  <2> QED
    BY <1>2, <2>1, ReadCouponStep, HistoryStep, TryNumberStep, FindRecentStep,
       SaveOrderStep
    DEF CallStep
<1> QED
  BY <1>1, <1>2, BeginStep, MeanwhileStep DEF Next

THEOREM SpecIInv == Spec => []IInv
  BY InitIInv, NextIInv, PTL DEF Spec

(* TypeOK for any number of overlapping calls. *)
THEOREM TypeCorrect == Spec => []TypeOK
<1>1. IInv => TypeOK
  BY DEF IInv
<1> QED
  BY <1>1, SpecIInv, PTL

(* Order numbers are unique under any overlap of calls: NumbersUnique. *)
THEOREM UniqueNumbers == Spec => []NumbersUnique
<1>1. IInv => NumbersUnique
  BY DEF IInv
<1> QED
  BY <1>1, SpecIInv, PTL

(* A buyer gets the order that was asked for: AnswerMatchesRequest. *)
THEOREM AnswersMatch == Spec => []AnswerMatchesRequest
<1>1. IInv => AnswerMatchesRequest
  BY DEF IInv
<1> QED
  BY <1>1, SpecIInv, PTL
-----------------------------------------------------------------------------
(* The way of one call: what a step of it leaves alone, and which stage    *)
(* follows which.                                                          *)
LEMMA CallMoves ==
  ASSUME IInv, NEW r \in Calls, CallStep(r)
  PROVE  /\ call[r].at \in Stages \ {"done", "refused"}
         /\ call' \in [Calls -> Call \cup {Idle}]
         /\ call'[r].user = call[r].user /\ call'[r].bigo = call[r].bigo
         /\ call'[r].coupon = call[r].coupon
         /\ \A q \in Calls \ {r} : call'[q] = call[q]
         /\ UNCHANGED <<open, discount, timesUsed, freed, refunds>>
         /\ \/ call'[r].at = "refused"
            \/ call[r].at = "coupon" /\ call'[r].at = "first" /\ CouponValid
            \/ /\ call[r].at = "first" /\ call'[r].at = "bigo"
               /\ \A q \in Calls : ~Blocks(q, r, "first")
            \/ /\ call[r].at = "bigo" /\ call'[r].at = "account"
               /\ \A q \in Calls : ~Blocks(q, r, "bigo")
            \/ /\ call[r].at = "account" /\ call'[r].at = "number"
               /\ \A q \in Calls : ~Blocks(q, r, "account")
            \/ /\ call[r].at \in {"number", "recent", "pay", "save"}
               /\ call'[r].at \in {"number", "recent", "pay", "save", "done"}
         /\ \/ order' = order
            \/ /\ order' = [order EXCEPT ![r] = NewOrder]
               /\ call[r].at = "save" /\ call'[r].at = "done"
<1> USE DEF IInv, lifeVars, couponVars
<1>0. ASSUME NEW s \in Stages, GoTo(r, s), call[r].at \in Stages
      PROVE  /\ call' \in [Calls -> Call \cup {Idle}]
             /\ call'[r].at = s
             /\ call'[r].user = call[r].user /\ call'[r].bigo = call[r].bigo
             /\ call'[r].coupon = call[r].coupon
             /\ \A q \in Calls \ {r} : call'[q] = call[q]
  <2>1. call[r] \in Call
    BY <1>0 DEF TypeOK, Idle, Stages
  <2> QED
    BY <1>0, <2>1 DEF GoTo, TypeOK, Call
<1>1. CASE ReadCoupon(r)
  <2>1. call[r] \in Call /\ FinalAmount \in Prices
    BY <1>1 DEF ReadCoupon, TypeOK, Idle, Prices, FinalAmount
  <2> QED
    BY <1>1, <2>1 DEF ReadCoupon, TypeOK, Call, Stages
<1>2. CASE CheckHistory(r, "first", "bigo")
  BY <1>2, <1>0 DEF CheckHistory, Stages
<1>3. CASE CheckHistory(r, "bigo", "account")
  BY <1>3, <1>0 DEF CheckHistory, Stages
<1>4. CASE CheckHistory(r, "account", AfterValidation(r))
  BY <1>4, <1>0 DEF CheckHistory, AfterValidation, Stages
<1>5. CASE TryNumber(r)
  <2>1. PICK n \in Numbers :
          call' = [call EXCEPT
            ![r].number = {n},
            ![r].tries = IF @ < MaxAttempts THEN @ + 1 ELSE @,
            ![r].at = IF OutOfAttempts(call[r].tries + 1) THEN "refused"
                      ELSE IF Taken(n) THEN "number" ELSE "recent"]
    BY <1>5 DEF TryNumber
  <2>2. call[r] \in Call /\ call[r].at = "number"
    BY <1>5 DEF TryNumber, TypeOK, Idle
  <2>3. call'[r].at \in {"refused", "number", "recent"}
    BY <2>1, <2>2 DEF TypeOK, Call
  <2>4. call' \in [Calls -> Call \cup {Idle}]
    BY <1>5, TryNumberStep DEF TypeOK
  <2> QED
    BY <1>5, <2>1, <2>2, <2>3, <2>4 DEF TryNumber, TypeOK, Call, Stages
<1>6. CASE FindRecent(r)
  BY <1>6, <1>0 DEF FindRecent, Stages
<1>7. CASE AskForPayment(r)
  BY <1>7, <1>0 DEF AskForPayment, Stages
<1>8. CASE SaveOrder(r)
  BY <1>8, <1>0 DEF SaveOrder, Stages
<1> QED
  BY <1>1, <1>2, <1>3, <1>4, <1>5, <1>6, <1>7, <1>8 DEF CallStep, CheckCouponHistory

-----------------------------------------------------------------------------
(* A coupon that has been closed                                           *)

(* What keeps call r from saving an order with the coupon once the coupon  *)
(* has been closed before the call was made: validateCoupon is still ahead *)
(* of it, or has turned it away.  The coupon is never opened again.        *)
ShutOut(r) ==
  /\ ~open
  /\ call[r].at \notin {"idle", "coupon", "refused"} => ~call[r].coupon

LEMMA ShutOutStep ==
  ASSUME IInv, [Next]_vars, NEW r \in Calls, ShutOut(r)
  PROVE  ShutOut(r)'
<1>1. CASE UNCHANGED vars
  BY <1>1 DEF vars, couponVars, ShutOut
<1>2. ASSUME NEW q \in Calls, NEW u \in Users, NEW b \in BigoIds,
             NEW coupon \in BOOLEAN, NEW asked \in Prices, Begin(q, u, b, coupon, asked)
      PROVE  ShutOut(r)'
  <2>1. /\ call'[q].at = IF coupon THEN "coupon"
                         ELSE IF asked = BasePrice THEN "number" ELSE "refused"
        /\ call'[q].coupon = coupon
        /\ \A p \in Calls \ {q} : call'[p] = call[p]
        /\ open' = open
    BY <1>2 DEF Begin, IInv, TypeOK, couponVars
  <2> QED
    BY <2>1 DEF ShutOut
<1>3. ASSUME NEW q \in Calls, CallStep(q) PROVE ShutOut(r)'
  <2>1. /\ call'[q].coupon = call[q].coupon
        /\ call'[q].at = "idle" => call[q].at = "idle"
        /\ \A p \in Calls \ {q} : call'[p] = call[p]
        /\ open' = open
        /\ call[q].at \notin {"idle", "refused"}
        /\ call[q].at = "coupon" /\ ~open => call'[q].at = "refused"
    BY <1>3, CallMoves DEF CouponValid, Stages
  <2> QED
    BY <2>1 DEF ShutOut
<1>4. ASSUME NEW q \in Calls, OrderLife(q) PROVE ShutOut(r)'
  BY <1>4
  DEF OrderLife, Age, Expire, Reject, Approve, Fulfil, Refund, couponVars, ShutOut
<1>5. ASSUME CloseCoupon \/ \E d \in Discounts : ChangeDiscount(d) PROVE ShutOut(r)'
  BY <1>5 DEF CloseCoupon, ChangeDiscount, ShutOut
<1> QED
  BY <1>1, <1>2, <1>3, <1>4, <1>5 DEF Next

(* A coupon closed before the request is not taken, though validateCoupon  *)
(* reads it at one moment only: ClosedCouponNotTaken.                      *)
THEOREM ClosedCouponRefused == Spec => ClosedCouponNotTaken
<1>1. ASSUME NEW r \in Calls
      PROVE  Spec => [](call[r].at = "idle" /\ ~open => [](r \in Saved => ~call[r].coupon))
  <2>1. IInv /\ call[r].at = "idle" /\ ~open => ShutOut(r)
    BY DEF ShutOut
  <2>2. IInv /\ ShutOut(r) /\ [Next]_vars => ShutOut(r)'
    BY ShutOutStep
  <2>3. IInv /\ ShutOut(r) => (r \in Saved => ~call[r].coupon)
    BY DEF ShutOut, IInv, EndedWithAnswer
  <2> QED
    BY <2>1, <2>2, <2>3, SpecIInv, PTL DEF Spec
<1> QED
  BY <1>1 DEF ClosedCouponNotTaken

-----------------------------------------------------------------------------
(* How often overlapping calls use a coupon                                *)

(* The three checks of the history, whether the coupon asks for them, and  *)
(* the Bigo account or the buyer a check is about. *)
Checks     == {"first", "bigo", "account"}
Limited(s) == IF s = "first" THEN FirstPurchase ELSE OncePerBigoId
Parties    == BigoIds \cup Users
About(q, s, x) == IF s = "bigo" THEN call[q].bigo = x ELSE call[q].user = x

(* Once past check s, a call that uses the coupon may save its order. *)
Later(s) ==
  {"number", "recent", "pay", "save"} \cup
    (CASE s = "first" -> {"bigo", "account"} [] s = "bigo" -> {"account"} [] OTHER -> {})
Admitted(q, s) == call[q].coupon /\ call[q].at \in Later(s)

(* An order that has held the coupon, for check s, ever since it was saved. *)
Held(q, s) ==
  /\ q \in Saved /\ call[q].coupon
  /\ IF s = "first" THEN "EXPIRED" \notin freed[q] ELSE freed[q] = {}

(* Whoever holds the coupon for x or may yet get it. *)
Claims(s, x) == {q \in Calls : About(q, s, x) /\ (Held(q, s) \/ Admitted(q, s))}

Begun == {r \in Calls : call[r].at # "idle"}

FewActive == Cardinality(Active) <= MaxActive
FewClaims ==
  \A s \in Checks, x \in Parties :
    Limited(s) => Cardinality(Claims(s, x)) <= MaxActive

(* A call joins the claims when no order holds the coupon: all the others  *)
(* are under way.  The claim of a call that is turned away, or of an order *)
(* that is freed, ends for good. *)
LimitInv == IsFiniteSet(Begun) /\ FewActive /\ FreedFits /\ FewClaims

LEMMA InitLimitInv == Init => LimitInv
<1> SUFFICES ASSUME Init
             PROVE  LimitInv
  OBVIOUS
<1>1. Begun = {} /\ Active = {} /\ Saved = {}
  <2>1. order = [q \in Calls |-> NoOrder] /\ NoOrder.status = "NONE"
    BY DEF Init, NoOrder
  <2> QED
    BY <2>1 DEF Init, Begun, Active, Saved, Idle
<1>2. \A s \in Checks, x \in Parties : Claims(s, x) = {}
  BY <1>1 DEF Init, Claims, Held, Admitted, Later, Checks, Idle
<1>3. FreedFits
  <2>1. order = [q \in Calls |-> NoOrder] /\ NoOrder.status = "NONE" /\ NoOrder.payment = "PENDING"
    BY DEF Init, NoOrder
  <2> QED
    BY <2>1 DEF FreedFits
<1> QED
  BY <1>1, <1>2, <1>3, FS_EmptySet, CreationAssumption DEF LimitInv, FewActive, FewClaims

LEMMA Sizes ==
  ASSUME IInv, IsFiniteSet(Begun)
  PROVE  /\ IsFiniteSet(Active) /\ Cardinality(Active) \in Nat
         /\ \A s \in Checks, x \in Parties :
              IsFiniteSet(Claims(s, x)) /\ Cardinality(Claims(s, x)) \in Nat
<1>1. Active \subseteq Begun /\ Saved \subseteq Begun
  BY DEF Active, Saved, Begun, IInv, EndedWithAnswer
<1>2. ASSUME NEW s \in Checks, NEW x \in Parties PROVE Claims(s, x) \subseteq Begun
  <2> SUFFICES ASSUME NEW q \in Claims(s, x) PROVE q \in Begun
    OBVIOUS
  <2>1. CASE Admitted(q, s)
    BY <2>1 DEF Admitted, Later, Begun, Claims
  <2>2. CASE Held(q, s)
    BY <1>1, <2>2 DEF Held
  <2> QED
    BY <2>1, <2>2 DEF Claims
<1>3. ASSUME NEW S, S \subseteq Begun PROVE IsFiniteSet(S) /\ Cardinality(S) \in Nat
  BY <1>3, FS_Subset, FS_CardinalityType
<1> QED
  BY <1>1, <1>2, <1>3

(* Claims only end, or are all under way. *)
LEMMA ClaimsStep ==
  ASSUME IInv, IInv', LimitInv, IsFiniteSet(Begun)', FewActive', FreedFits',
         \A s \in Checks, x \in Parties : Limited(s) =>
           \/ Claims(s, x)' \subseteq Claims(s, x)
           \/ Claims(s, x)' \subseteq Active'
  PROVE  LimitInv'
<1> SUFFICES ASSUME NEW s \in Checks, NEW x \in Parties, Limited(s)
             PROVE  Cardinality(Claims(s, x)') <= MaxActive
  BY DEF LimitInv, FewClaims, Limited
<1>1. CASE Claims(s, x)' \subseteq Claims(s, x)
  <2>1. IsFiniteSet(Claims(s, x)) /\ Cardinality(Claims(s, x)) <= MaxActive
    BY Sizes DEF LimitInv, FewClaims
  <2>2. Cardinality(Claims(s, x)') <= Cardinality(Claims(s, x))
    BY <1>1, <2>1, FS_Subset
  <2>3. Cardinality(Claims(s, x)') \in Nat /\ Cardinality(Claims(s, x)) \in Nat
    BY <1>1, <2>1, FS_Subset, FS_CardinalityType
  <2> QED
    BY <2>1, <2>2, <2>3, CreationAssumption
<1>2. CASE Claims(s, x)' \subseteq Active'
  <2>1. IsFiniteSet(Active') /\ Cardinality(Active') <= MaxActive
    <3>1. Active' \subseteq Begun'
      BY DEF Active, Begun
    <3>2. IsFiniteSet(Begun')
      OBVIOUS
    <3> QED
      BY <3>1, <3>2, FS_Subset DEF FewActive
  <2>2. Cardinality(Claims(s, x)') <= Cardinality(Active')
    BY <1>2, <2>1, FS_Subset
  <2>3. Cardinality(Claims(s, x)') \in Nat /\ Cardinality(Active') \in Nat
    BY <1>2, <2>1, FS_Subset, FS_CardinalityType
  <2> QED
    BY <2>1, <2>2, <2>3, CreationAssumption
<1> QED
  BY <1>1, <1>2

(* Fewer calls keep their bound. *)
LEMMA Smaller ==
  ASSUME IInv, LimitInv, Begun' \subseteq Begun, Active' \subseteq Active
  PROVE  IsFiniteSet(Begun)' /\ FewActive'
<1>1. IsFiniteSet(Begun')
  BY FS_Subset DEF LimitInv
<1>2. IsFiniteSet(Active) /\ Cardinality(Active) \in Nat
  BY Sizes DEF LimitInv
<1>3. Cardinality(Active') <= Cardinality(Active) /\ Cardinality(Active') \in Nat
  BY <1>2, FS_Subset, FS_CardinalityType
<1>4. Cardinality(Active) <= MaxActive
  BY DEF LimitInv, FewActive
<1> QED
  BY <1>1, <1>2, <1>3, <1>4, CreationAssumption DEF FewActive

(* A new call has yet to pass the checks. *)
LEMMA BeginKeepsLimits ==
  ASSUME IInv, IInv', LimitInv, NEW r \in Calls, NEW u \in Users, NEW b \in BigoIds,
         NEW coupon \in BOOLEAN, NEW asked \in Prices, Begin(r, u, b, coupon, asked)
  PROVE  LimitInv'
<1>1. /\ call'[r].at \in {"coupon", "number", "refused"}
      /\ call'[r].coupon => call'[r].at = "coupon"
      /\ \A q \in Calls \ {r} : call'[q] = call[q]
      /\ order' = order /\ freed' = freed
      /\ r \notin Saved /\ call[r].at = "idle"
  BY DEF Begin, IInv, TypeOK, lifeVars, EndedWithAnswer
<1>2. /\ Begun' = Begun \cup {r} /\ Active' \subseteq Active \cup {r}
      /\ Saved' = Saved
  BY <1>1 DEF Begun, Active, Saved
<1>3. IsFiniteSet(Begun)'
  BY <1>2, FS_AddElement DEF LimitInv
<1>4. FewActive'
  <2>1. PICK k \in Nat : k = Cardinality(Active)
    BY Sizes DEF LimitInv
  <2>2. IsFiniteSet(Active) /\ r \notin Active
    BY <1>1, Sizes DEF LimitInv, Active
  <2>3. IsFiniteSet(Active \cup {r}) /\ Cardinality(Active \cup {r}) = k + 1
    BY <2>1, <2>2, FS_AddElement
  <2>4. Cardinality(Active') <= k + 1 /\ Cardinality(Active') \in Nat
    BY <1>2, <2>1, <2>3, FS_Subset, FS_CardinalityType
  <2>5. k < MaxActive
    BY <2>1 DEF Begin
  <2> QED
    BY <2>1, <2>4, <2>5, CreationAssumption DEF FewActive
<1>5. FreedFits'
  BY <1>1 DEF LimitInv, FreedFits
<1>6. ASSUME NEW s \in Checks, NEW x \in Parties
      PROVE  Claims(s, x)' \subseteq Claims(s, x)
  <2> SUFFICES ASSUME NEW q \in Claims(s, x)'
               PROVE  q \in Claims(s, x)
    OBVIOUS
  <2>1. q \in Calls /\ (Held(q, s)' \/ Admitted(q, s)') /\ About(q, s, x)'
    BY DEF Claims
  <2>2. q # r
    BY <1>1, <1>2, <2>1 DEF Held, Admitted, Later
  <2>3. call'[q] = call[q] /\ (q \in Saved' <=> q \in Saved)
    BY <1>1, <1>2, <2>1, <2>2
  <2> QED
    BY <1>1, <2>1, <2>3 DEF Claims, About, Held, Admitted
<1> QED
  BY <1>3, <1>4, <1>5, <1>6, ClaimsStep

(* An order that holds the coupon is found by the check. *)
LEMMA HeldBlocks ==
  ASSUME IInv, FreedFits, NEW s \in Checks, NEW x \in Parties, Limited(s),
         NEW q \in Calls, NEW r \in Calls, About(q, s, x), About(r, s, x), Held(q, s)
  PROVE  Blocks(q, r, s)
<1>1. order[q].status \in OrderStatus /\ order[q].payment \in PaymentStatus
  BY DEF IInv, TypeOK, Order
<1>2. CASE s = "first"
  BY <1>2 DEF Blocks, IsPrevious, Held, About, Limited, FreedFits
<1>3. CASE s # "first"
  <2>1. Counts(q)
    BY <1>1, <1>3 DEF Counts, Held, FreedFits, PaymentStatus
  <2> QED
    BY <1>3, <2>1 DEF Blocks, About, Limited, Checks
<1> QED
  BY <1>2, <1>3

(* A call that passes a check has found no order that holds the coupon for *)
(* its party; a call that saves its order keeps its claim. *)
LEMMA CallKeepsLimits ==
  ASSUME IInv, IInv', LimitInv, NEW r \in Calls, CallStep(r)
  PROVE  LimitInv'
<1>1. /\ call'[r].user = call[r].user /\ call'[r].bigo = call[r].bigo
      /\ call'[r].coupon = call[r].coupon
      /\ \A q \in Calls \ {r} : call'[q] = call[q]
      /\ call[r].at \in Stages \ {"done", "refused"}
      /\ freed' = freed
  BY CallMoves
<1>2. r \in Active /\ r \in Begun /\ r \notin Saved
  BY <1>1 DEF Active, Begun, Stages, IInv, EndedWithAnswer
<1>3. /\ \A q \in Calls \ {r} : order'[q] = order[q] /\ (q \in Saved' <=> q \in Saved)
      /\ \/ order'[r] = order[r] /\ r \notin Saved'
         \/ order'[r] = NewOrder /\ call[r].at = "save" /\ call'[r].at = "done"
  BY <1>2, CallMoves DEF Saved, IInv, TypeOK
<1>4. Begun' \subseteq Begun /\ Active' \subseteq Active
  BY <1>1, <1>2 DEF Begun, Active
<1>5. FreedFits'
  BY <1>1, <1>3 DEF LimitInv, FreedFits, NewOrder
<1>6. IsFiniteSet(Begun)' /\ FewActive'
  BY <1>4, Smaller
<1>7. ASSUME NEW s \in Checks, NEW x \in Parties, Limited(s)
      PROVE  \/ Claims(s, x)' \subseteq Claims(s, x)
             \/ Claims(s, x)' \subseteq Active'
  <2>1. ASSUME NEW q \in Calls, q # r, q \in Claims(s, x)'
        PROVE  q \in Claims(s, x)
    BY <1>1, <1>3, <2>1 DEF Claims, About, Held, Admitted
  <2>2. CASE r \notin Claims(s, x)' \/ r \in Claims(s, x)
    BY <2>1, <2>2 DEF Claims
  <2>3. CASE r \in Claims(s, x)' /\ r \notin Claims(s, x)
    <3>1. About(r, s, x) /\ call[r].coupon
      BY <1>1, <1>3, <2>3 DEF Claims, About, Held, Admitted
    <3>2. ~Admitted(r, s)
      BY <2>3, <3>1 DEF Claims
    <3>3. call[r].at # "save" /\ r \notin Saved'
      BY <1>3, <3>1, <3>2 DEF Admitted, Later
    <3>4. call'[r].at \in Later(s) /\ call[r].at \notin Later(s)
      BY <2>3, <3>1, <3>2, <3>3 DEF Claims, Held, Admitted
    <3>5. \A q \in Calls : ~Blocks(q, r, s)
      BY <3>4, CallMoves DEF Later, Checks
    <3>6. \A q \in Calls : About(q, s, x) => ~Held(q, s)
      BY <1>7, <3>1, <3>5, HeldBlocks DEF LimitInv
    <3>7. r \in Active'
      BY <3>4 DEF Active, Later
    <3>8. ASSUME NEW q \in Claims(s, x)', q # r
          PROVE  q \in Active'
      <4>1. q \in Calls /\ q \in Claims(s, x)
        BY <2>1, <3>8 DEF Claims
      <4>2. Admitted(q, s)
        BY <3>6, <4>1 DEF Claims
      <4> QED
        BY <1>1, <3>8, <4>1, <4>2 DEF Admitted, Later, Active
    <3> QED
      BY <3>7, <3>8
  <2> QED
    BY <2>2, <2>3
<1> QED
  BY <1>5, <1>6, <1>7, ClaimsStep

(* No step of an order makes a claim: what it has given back stays given   *)
(* back. *)
LEMMA LifeKeepsLimits ==
  ASSUME IInv, IInv', LimitInv, NEW r \in Calls, OrderLife(r)
  PROVE  LimitInv'
<1>1. UNCHANGED call
  BY DEF OrderLife, Age, Expire, Reject, Approve, Fulfil, Refund
<1>2. /\ \A q \in Calls : freed[q] \subseteq freed'[q]
      /\ FreedFits' /\ Saved' = Saved
  <2>1. PICK o \in Order : /\ order' = [order EXCEPT ![r] = o]
                           /\ o.status = "NONE" <=> order[r].status = "NONE"
    BY LifeMoves DEF IInv
  <2>2. order'[r] = o /\ \A q \in Calls \ {r} : order'[q] = order[q]
    BY <2>1 DEF IInv, TypeOK
  <2>3. Saved' = Saved
    BY <2>1, <2>2 DEF Saved
  <2> QED
    BY <2>3, LifeMoves DEF LimitInv, IInv
<1>3. Begun' = Begun /\ Active' = Active
  BY <1>1 DEF Begun, Active
<1>4. ASSUME NEW s \in Checks, NEW x \in Parties
      PROVE  Claims(s, x)' \subseteq Claims(s, x)
  BY <1>1, <1>2 DEF Claims, About, Held, Admitted
<1> QED
  BY <1>2, <1>3, <1>4, ClaimsStep DEF LimitInv, FewActive

LEMMA NextLimitInv ==
  ASSUME IInv, IInv', LimitInv, [Next]_vars
  PROVE  LimitInv'
<1>1. ASSUME UNCHANGED <<call, order, freed>> PROVE LimitInv'
  <2>1. UNCHANGED <<Begun, Active>>
    BY <1>1 DEF Begun, Active
  <2>2. \A s \in Checks, x \in Parties : Claims(s, x)' = Claims(s, x)
    BY <1>1 DEF Claims, About, Held, Admitted, Saved
  <2> QED
    BY <1>1, <2>1, <2>2 DEF LimitInv, FewActive, FreedFits, FewClaims, Limited
<1>2. ASSUME CloseCoupon \/ \E d \in Discounts : ChangeDiscount(d) PROVE LimitInv'
  BY <1>1, <1>2 DEF CloseCoupon, ChangeDiscount, lifeVars
<1>3. CASE UNCHANGED vars
  BY <1>1, <1>3 DEF vars, lifeVars
<1> QED
  BY <1>2, <1>3, BeginKeepsLimits, CallKeepsLimits, LifeKeepsLimits DEF Next

THEOREM SpecLimitInv == Spec => []LimitInv
  BY InitLimitInv, NextLimitInv, SpecIInv, PTL DEF Spec

LEMMA ClaimsCoverHolders ==
  ASSUME IInv, LimitInv, NEW s \in Checks, NEW x \in Parties, Limited(s),
         NEW S, S \subseteq {q \in Calls : About(q, s, x) /\ Held(q, s)}
  PROVE  Cardinality(S) \in Nat /\ Cardinality(S) <= MaxActive
<1>1. S \subseteq Claims(s, x)
  BY DEF Claims
<1>2. /\ IsFiniteSet(Claims(s, x)) /\ Cardinality(Claims(s, x)) \in Nat
      /\ Cardinality(Claims(s, x)) <= MaxActive
  BY Sizes DEF LimitInv, FewClaims
<1>3. /\ IsFiniteSet(S) /\ Cardinality(S) \in Nat
      /\ Cardinality(S) <= Cardinality(Claims(s, x))
  BY <1>1, <1>2, FS_Subset, FS_CardinalityType
<1> QED
  BY <1>2, <1>3, CreationAssumption

LEMMA UsesInv == IInv /\ LimitInv => UsesWithinOverlap
<1> SUFFICES ASSUME IInv, LimitInv, OncePerBigoId
             PROVE  UsesWithinOverlap
  BY DEF UsesWithinOverlap
<1>1. Limited("bigo") /\ Limited("account") /\ {"bigo", "account"} \subseteq Checks
  BY DEF Limited, Checks
<1>2. ASSUME NEW b \in BigoIds PROVE Cardinality(UsesByBigoId(b)) <= MaxActive
  <2>1. /\ UsesByBigoId(b) \subseteq {q \in Calls : About(q, "bigo", b) /\ Held(q, "bigo")}
        /\ b \in Parties
    BY DEF UsesByBigoId, HoldingCoupon, About, Held, Parties, Saved
  <2> QED
    BY <1>1, <2>1, ClaimsCoverHolders
<1>3. ASSUME NEW u \in Users PROVE Cardinality(UsesByUser(u)) <= MaxActive
  <2>1. /\ UsesByUser(u) \subseteq {q \in Calls : About(q, "account", u) /\ Held(q, "account")}
        /\ u \in Parties
    BY DEF UsesByUser, HoldingCoupon, About, Held, Parties, Saved
  <2> QED
    BY <1>1, <2>1, ClaimsCoverHolders
<1> QED
  BY <1>2, <1>3 DEF UsesWithinOverlap

LEMMA FirstPurchasesInv == IInv /\ LimitInv => FirstPurchasesWithinOverlap
<1> SUFFICES ASSUME IInv, LimitInv, FirstPurchase, NEW u \in Users
             PROVE  Cardinality(FirstPurchases(u)) <= MaxActive
  BY DEF FirstPurchasesWithinOverlap
<1>1. /\ FirstPurchases(u) \subseteq {q \in Calls : About(q, "first", u) /\ Held(q, "first")}
      /\ u \in Parties /\ Limited("first") /\ "first" \in Checks
  BY DEF FirstPurchases, About, Held, Parties, Limited, Checks, Saved
<1> QED
  BY <1>1, ClaimsCoverHolders

(* A coupon for one use per Bigo account and buyer is held without a break *)
(* by no more orders than requests overlap, whatever is reported about     *)
(* them: UsesWithinOverlap. *)
THEOREM UsesBounded == Spec => []UsesWithinOverlap
  BY UsesInv, SpecIInv, SpecLimitInv, PTL

(* A buyer has no more orders that never expired with a coupon for the     *)
(* first purchase than that: FirstPurchasesWithinOverlap. *)
THEOREM FirstPurchasesBounded == Spec => []FirstPurchasesWithinOverlap
  BY FirstPurchasesInv, SpecIInv, SpecLimitInv, PTL

(* With a server that answers one request after the other, of two orders   *)
(* with the coupon for one Bigo account or by one buyer one has expired or *)
(* been refunded.  (The coupon may have two uses for all that: the freed   *)
(* order comes to life again when its payment is approved late, or when    *)
(* its exchange with Bigo ends after the refund.)                          *)
UsedOncePerBigoId ==
  OncePerBigoId =>
    \A q, r \in HoldingCoupon :
      call[q].bigo = call[r].bigo \/ call[q].user = call[r].user => q = r

(* ... and of two orders of a buyer with a coupon for the first purchase,  *)
(* one has expired. *)
OneFirstPurchase ==
  FirstPurchase =>
    \A q, r \in Saved :
      /\ call[q].user = call[r].user /\ call[q].coupon /\ call[r].coupon
      /\ "EXPIRED" \notin freed[q] /\ "EXPIRED" \notin freed[r]
      => q = r

LEMMA NoTwo ==
  ASSUME MaxActive <= 1, IInv, LimitInv, NEW s \in Checks, NEW x \in Parties,
         Limited(s), NEW q \in Calls, NEW r \in Calls,
         About(q, s, x), About(r, s, x), Held(q, s), Held(r, s)
  PROVE  q = r
<1> SUFFICES ASSUME q # r
             PROVE  FALSE
  OBVIOUS
<1>1. Cardinality({q, r}) <= MaxActive /\ Cardinality({q, r}) \in Nat
  <2>1. PICK S : S = {q, r}
    OBVIOUS
  <2>2. S \subseteq {p \in Calls : About(p, s, x) /\ Held(p, s)}
    BY <2>1
  <2> QED
    BY <2>1, <2>2, ClaimsCoverHolders
<1>2. Cardinality({q, r}) = 2
  <2>1. IsFiniteSet({q}) /\ Cardinality({q}) = 1
    BY FS_Singleton
  <2>2. Cardinality({q} \cup {r}) = 2
    <3>1. PICK S : S = {q}
      OBVIOUS
    <3>2. IsFiniteSet(S) /\ Cardinality(S) = 1 /\ r \notin S
      BY <2>1, <3>1
    <3>3. Cardinality(S \cup {r}) = Cardinality(S) + 1
      BY <3>2, FS_AddElement
    <3> QED
      BY <3>1, <3>2, <3>3
  <2>3. {q} \cup {r} = {q, r}
    OBVIOUS
  <2> QED
    BY <2>2, <2>3
<1> QED
  BY <1>1, <1>2, CreationAssumption

(* Of requests one after the other, only one holds the coupon without a    *)
(* break: UsedOncePerBigoId. *)
THEOREM SerialUsedOnce ==
  ASSUME MaxActive <= 1
  PROVE  Spec => []UsedOncePerBigoId
<1>1. IInv /\ LimitInv => UsedOncePerBigoId
  <2> SUFFICES ASSUME IInv, LimitInv, OncePerBigoId,
                      NEW q \in HoldingCoupon, NEW r \in HoldingCoupon,
                      call[q].bigo = call[r].bigo \/ call[q].user = call[r].user
               PROVE  q = r
    BY DEF UsedOncePerBigoId
  <2>1. q \in Calls /\ r \in Calls /\ call[q].bigo \in BigoIds /\ call[q].user \in Users
    <3>1. q \in Calls /\ r \in Calls /\ call[q].at = "done"
      BY DEF HoldingCoupon, Saved, IInv, EndedWithAnswer
    <3>2. call[q] \in Call
      BY <3>1 DEF IInv, TypeOK, Idle
    <3> QED
      BY <3>1, <3>2 DEF Call
  <2>2. /\ Limited("bigo") /\ Limited("account") /\ "bigo" \in Checks /\ "account" \in Checks
        /\ Held(q, "bigo") /\ Held(r, "bigo") /\ Held(q, "account") /\ Held(r, "account")
        /\ call[q].bigo \in Parties /\ call[q].user \in Parties
    BY <2>1 DEF Limited, Checks, Held, HoldingCoupon, Parties
  <2>3. CASE call[q].bigo = call[r].bigo
    <3>1. About(q, "bigo", call[q].bigo) /\ About(r, "bigo", call[q].bigo)
      BY <2>3 DEF About
    <3> QED
      BY <2>1, <2>2, <3>1, NoTwo
  <2>4. CASE call[q].user = call[r].user
    <3>1. About(q, "account", call[q].user) /\ About(r, "account", call[q].user)
      BY <2>4 DEF About
    <3> QED
      BY <2>1, <2>2, <3>1, NoTwo
  <2> QED
    BY <2>3, <2>4
<1> QED
  BY <1>1, SpecIInv, SpecLimitInv, PTL

(* ... and is a buyer's first purchase that never expired:                 *)
(* OneFirstPurchase. *)
THEOREM SerialFirstPurchase ==
  ASSUME MaxActive <= 1
  PROVE  Spec => []OneFirstPurchase
<1>1. IInv /\ LimitInv => OneFirstPurchase
  <2> SUFFICES ASSUME IInv, LimitInv, FirstPurchase, NEW q \in Saved, NEW r \in Saved,
                      call[q].user = call[r].user, call[q].coupon, call[r].coupon,
                      "EXPIRED" \notin freed[q], "EXPIRED" \notin freed[r]
               PROVE  q = r
    BY DEF OneFirstPurchase
  <2>1. q \in Calls /\ r \in Calls /\ call[q].user \in Users
    <3>1. q \in Calls /\ r \in Calls /\ call[q].at = "done"
      BY DEF Saved, IInv, EndedWithAnswer
    <3>2. call[q] \in Call
      BY <3>1 DEF IInv, TypeOK, Idle
    <3> QED
      BY <3>1, <3>2 DEF Call
  <2>2. /\ Limited("first") /\ "first" \in Checks /\ Held(q, "first") /\ Held(r, "first")
        /\ call[q].user \in Parties
        /\ About(q, "first", call[q].user) /\ About(r, "first", call[q].user)
    BY <2>1 DEF Limited, Checks, Held, Parties, About
  <2> QED
    BY <2>1, <2>2, NoTwo
<1> QED
  BY <1>1, SpecIInv, SpecLimitInv, PTL
=============================================================================
