-------------------------- MODULE BigoRecharge_proofs --------------------------
(***************************************************************************)
(* Proofs about BigoRecharge for every value of its constants.             *)
(*                                                                         *)
(* The inductive invariant says, for each entry, which single activation   *)
(* or timer works on it, how the stage of that activation fits the row,    *)
(* how often Bigo has been asked, and what Bigo has executed.              *)
(***************************************************************************)
EXTENDS BigoRecharge, TLAPS

(* The row of an entry as its activation or timer expects it. *)
StageFitsRow ==
  /\ \A k \in calls :
       /\ k.at \in {"primary", "backup", "ok", "errRetry", "errFinal"}
            => row[k.entry].status = "REQUESTED"
       /\ k.at \in {"claim", "arm"} => row[k.entry].status = "RETRY_PENDING"
       /\ k.at = "arm" => k.attempt < MaxRetries
  /\ \A t \in timers : row[t[1]].status = "RETRY_PENDING"

(* How often Bigo has been asked at most when an attempt is at a stage. *)
AskedSoFar ==
  /\ \A e \in Entries : row[e].status = "NONE" => requests[e] = 0
  /\ \A k \in calls :
       /\ k.at \in {"claim", "primary"} => requests[k.entry] <= k.attempt
       /\ k.at \notin {"claim", "primary"} => requests[k.entry] <= k.attempt + 1
  /\ \A t \in timers : requests[t[1]] <= t[2]

(* Bigo's book: an id is executed once, and an answer "ok" means it was. *)
BookKept ==
  /\ \A e \in Entries : granted[e] = IF e \in accepted THEN 1 ELSE 0
  /\ \A k \in calls : k.at = "ok" => k.entry \in accepted
  /\ \A e \in Entries : row[e].status = "SUCCESS" => e \in accepted

IInv ==
  /\ TypeOK
  /\ SingleAttempt
  /\ StageFitsRow
  /\ AskedSoFar
  /\ BookKept
  /\ BoundedRequests
  /\ NoRetryForgotten

-----------------------------------------------------------------------------
(* The stage after an answer is a stage, is "ok" exactly for an answer     *)
(* "ok", and never goes back to "claim", "primary" or "arm".               *)
LEMMA AfterReplyStage ==
  ASSUME NEW at \in {"primary", "backup"}, NEW r \in {"ok", "retryable", "final"}
  PROVE  /\ AfterReply(at, r) \in {"backup", "ok", "errRetry", "errFinal"}
         /\ AfterReply(at, r) = "ok" <=> r = "ok"
  BY BigoAssumption DEF AfterReply

(* Bigo executes only an id it has not executed yet, and answers "ok" only *)
(* when it does.                                                           *)
LEMMA AnswerSound ==
  ASSUME NEW id, NEW a \in BigoAnswer(id)
  PROVE  /\ a.executes \in BOOLEAN
         /\ a.reply \in {"ok", "retryable", "final"}
         /\ a.executes => id \notin accepted
         /\ a.reply = "ok" => a.executes
  BY DEF BigoAnswer

THEOREM InitIInv == Init => IInv
  BY BigoAssumption
  DEF Init, IInv, TypeOK, SingleAttempt, StageFitsRow, AskedSoFar, BookKept,
      BoundedRequests, NoRetryForgotten, RowStatus, Entries

(* A row is inserted for an entry nobody works on. *)
LEMMA InsertStep ==
  ASSUME IInv, NEW e \in Entries, CanInsert(e), InsertRow(e),
         UNCHANGED <<timers, restarts, requests, accepted, granted>>,
         ready' \subseteq Callers \X Recharges
  PROVE  IInv'
<1> DEFINE new == [entry |-> e, attempt |-> 0, at |-> "primary"]
<1> USE BigoAssumption DEF IInv, InsertRow, CanInsert
<1>1. /\ new \in Call
      /\ \A k \in calls : k.entry # e
      /\ \A t \in timers : t[1] # e
  BY DEF TypeOK, StageFitsRow, Call, Stages
<1>2. TypeOK'
  BY <1>1 DEF TypeOK, RowStatus
<1>3. SingleAttempt'
  BY <1>1 DEF SingleAttempt
<1>4. StageFitsRow'
  BY <1>1 DEF StageFitsRow, TypeOK, Call
<1>5. AskedSoFar'
  BY <1>1 DEF AskedSoFar, TypeOK, Call
<1>6. BookKept'
  BY <1>1 DEF BookKept, TypeOK
<1>7. BoundedRequests'
  BY DEF BoundedRequests
<1>8. NoRetryForgotten'
  BY <1>1 DEF NoRetryForgotten, TypeOK
<1> QED
  BY <1>2, <1>3, <1>4, <1>5, <1>6, <1>7, <1>8

LEMMA ExchangeStep ==
  ASSUME IInv, NEW k \in calls, Exchange(k)
  PROVE  IInv'
<1> USE BigoAssumption DEF IInv
<1>1. PICK a \in BigoAnswer(k.entry) :
        /\ Proceed(k, AfterReply(k.at, a.reply))
        /\ IF a.executes
           THEN /\ accepted' = accepted \cup {k.entry}
                /\ granted' = [granted EXCEPT ![k.entry] = @ + 1]
           ELSE UNCHANGED <<accepted, granted>>
  BY DEF Exchange, RequestId
<1>2. /\ k \in Call /\ k.entry \in Entries /\ k.attempt \in 0..MaxRetries
      /\ k.at \in {"primary", "backup"}
      /\ row[k.entry].status = "REQUESTED"
      /\ \A t \in timers : t[1] # k.entry
      /\ UNCHANGED <<row, ready, timers, restarts>>
  BY DEF Exchange, TypeOK, Call, StageFitsRow, SingleAttempt
<1> DEFINE new == [k EXCEPT !.at = AfterReply(k.at, a.reply)]
<1>3. /\ calls' = (calls \ {k}) \cup {new}
      /\ new \in Call /\ new.entry = k.entry /\ new.attempt = k.attempt
      /\ new.at \in {"backup", "ok", "errRetry", "errFinal"}
      /\ new.at = "ok" => a.executes
      /\ a.executes \in BOOLEAN
      /\ a.executes => k.entry \notin accepted
  BY <1>1, <1>2, AnswerSound, AfterReplyStage DEF Proceed, Call, Stages
<1> HIDE DEF new
<1>4. /\ requests' \in [Entries -> Nat]
      /\ \A e \in Entries \ {k.entry} : requests'[e] = requests[e]
      /\ requests'[k.entry] <= k.attempt + 1
  BY <1>2 DEF Exchange, TypeOK, AskedSoFar
<1>5. TypeOK'
  BY <1>1, <1>2, <1>3, <1>4 DEF TypeOK
<1>6. SingleAttempt'
  BY <1>2, <1>3 DEF SingleAttempt
<1>7. StageFitsRow'
  BY <1>2, <1>3 DEF StageFitsRow
<1>8. AskedSoFar'
  BY <1>2, <1>3, <1>4 DEF AskedSoFar, TypeOK, SingleAttempt, Call
<1>9. BookKept'
  BY <1>1, <1>2, <1>3 DEF BookKept, TypeOK, Call
<1>10. BoundedRequests'
  BY <1>2, <1>4 DEF BoundedRequests, TypeOK
<1>11. NoRetryForgotten'
  BY <1>2, <1>3 DEF NoRetryForgotten
<1> QED
  BY <1>5, <1>6, <1>7, <1>8, <1>9, <1>10, <1>11

(* An activation ends: its row is settled and nothing works on it any more. *)
LEMMA SettleStep ==
  ASSUME IInv, NEW k \in calls, NEW s \in {"SUCCESS", "FAILED"},
         k.at \in {"ok", "errRetry", "errFinal"}, s = "SUCCESS" => k.at = "ok",
         SetStatus(k.entry, s), calls' = calls \ {k},
         UNCHANGED <<ready, timers, restarts, requests, accepted, granted>>
  PROVE  IInv'
<1> USE BigoAssumption DEF IInv, SetStatus
<1>1. /\ k \in Call /\ k.entry \in Entries
      /\ row[k.entry].status = "REQUESTED"
      /\ \A t \in timers : t[1] # k.entry
      /\ \A j \in calls' : j.entry # k.entry
  BY DEF TypeOK, Call, StageFitsRow, SingleAttempt
<1>2. TypeOK'
  BY <1>1 DEF TypeOK, RowStatus
<1>3. SingleAttempt'
  BY DEF SingleAttempt
<1>4. StageFitsRow'
  BY <1>1 DEF StageFitsRow, TypeOK, Call
<1>5. AskedSoFar'
  BY <1>1 DEF AskedSoFar, TypeOK
<1>6. BookKept'
  BY <1>1 DEF BookKept, TypeOK
<1>7. BoundedRequests'
  BY DEF BoundedRequests
<1>8. NoRetryForgotten'
  BY <1>1 DEF NoRetryForgotten, TypeOK
<1> QED
  BY <1>2, <1>3, <1>4, <1>5, <1>6, <1>7, <1>8

(* An activation goes on to a later stage of the same attempt: to "arm"    *)
(* with the row RETRY_PENDING, or from "claim" with the row REQUESTED.     *)
LEMMA StageStep ==
  ASSUME IInv, NEW k \in calls, NEW s \in {"primary", "errRetry", "arm"},
         Proceed(k, s),
         row' \in [Entries -> [status : RowStatus, attempts : 0..MaxRetries]],
         \A e \in Entries \ {k.entry} : row'[e] = row[e],
         \/ /\ s = "arm" /\ row'[k.entry].status = "RETRY_PENDING"
            /\ k.at = "errRetry" /\ k.attempt < MaxRetries
         \/ /\ s # "arm" /\ row'[k.entry].status = "REQUESTED"
            /\ k.at = "claim",
         UNCHANGED <<ready, timers, restarts, requests, accepted, granted>>
  PROVE  IInv'
<1> USE BigoAssumption DEF IInv
<1> DEFINE new == [k EXCEPT !.at = s]
<1>1. /\ calls' = (calls \ {k}) \cup {new}
      /\ k \in Call /\ k.entry \in Entries /\ k.attempt \in 0..MaxRetries
      /\ new \in Call /\ new.entry = k.entry /\ new.attempt = k.attempt
      /\ new.at = s
  BY DEF Proceed, TypeOK, Call, Stages
<1> HIDE DEF new
<1>2. /\ \A t \in timers : t[1] # k.entry
      /\ \A j \in calls : j.entry = k.entry => j = k
      /\ row[k.entry].status \in {"REQUESTED", "RETRY_PENDING"}
  BY DEF SingleAttempt, StageFitsRow
<1>3. TypeOK'
  BY <1>1 DEF TypeOK
<1>4. SingleAttempt'
  BY <1>1, <1>2 DEF SingleAttempt
<1>5. StageFitsRow'
  BY <1>1, <1>2 DEF StageFitsRow, TypeOK, Call
<1>6. AskedSoFar'
  <2>1. requests[k.entry] <= k.attempt + 1
        /\ (k.at = "claim" => requests[k.entry] <= k.attempt)
    BY <1>1 DEF AskedSoFar, TypeOK
  <2>2. \A j \in calls' : \/ j = new
                          \/ j \in calls
    BY <1>1
  <2>3. row'[k.entry].status # "NONE"
    OBVIOUS
  <2> QED
    BY <1>1, <2>1, <2>2, <2>3 DEF AskedSoFar, TypeOK
<1>7. BookKept'
  BY <1>1, <1>2 DEF BookKept, TypeOK
<1>8. BoundedRequests'
  BY DEF BoundedRequests
<1>9. NoRetryForgotten'
  BY <1>1, <1>2 DEF NoRetryForgotten, TypeOK
<1> QED
  BY <1>3, <1>4, <1>5, <1>6, <1>7, <1>8, <1>9

(* A timer takes over the row from the activation that sets it. *)
LEMMA ArmStep ==
  ASSUME IInv, NEW k \in calls, ArmTimer(k)
  PROVE  IInv'
<1> USE BigoAssumption DEF IInv, ArmTimer
<1> DEFINE t == <<k.entry, k.attempt + 1>>
<1>1. /\ k \in Call /\ k.entry \in Entries
      /\ t \in Entries \X (1..MaxRetries)
      /\ row[k.entry].status = "RETRY_PENDING"
      /\ requests[k.entry] <= k.attempt + 1
      /\ \A s \in timers : s[1] # k.entry
      /\ \A j \in calls' : j.entry # k.entry
      /\ timers' = timers \cup {t} /\ t[1] = k.entry /\ t[2] = k.attempt + 1
  BY DEF TypeOK, Call, StageFitsRow, SingleAttempt, AskedSoFar
<1> HIDE DEF t
<1>2. TypeOK'
  BY <1>1 DEF TypeOK
<1>3. SingleAttempt'
  BY <1>1 DEF SingleAttempt
<1>4. StageFitsRow'
  BY <1>1 DEF StageFitsRow
<1>5. AskedSoFar'
  BY <1>1 DEF AskedSoFar
<1>6. BookKept' /\ BoundedRequests'
  BY DEF BookKept, BoundedRequests
<1>7. NoRetryForgotten'
  BY <1>1 DEF NoRetryForgotten
<1> QED
  BY <1>2, <1>3, <1>4, <1>5, <1>6, <1>7

(* The retry takes over the row from its timer; the row is still           *)
(* RETRY_PENDING, so the retry is never skipped.                           *)
LEMMA FireStep ==
  ASSUME IInv, NEW e, NEW n, FireTimer(e, n)
  PROVE  IInv'
<1> USE BigoAssumption DEF IInv, FireTimer
<1> DEFINE new == [entry |-> e, attempt |-> n, at |-> "claim"]
<1>1. /\ <<e, n>> \in timers /\ e \in Entries /\ n \in 1..MaxRetries
      /\ row[e].status = "RETRY_PENDING" /\ requests[e] <= n
      /\ calls' = calls \cup {new}
      /\ new \in Call /\ new.entry = e /\ new.attempt = n /\ new.at = "claim"
      /\ \A k \in calls : k.entry # e
      /\ \A t \in timers' : t \in timers /\ t[1] # e
  BY DEF TypeOK, Call, Stages, StageFitsRow, SingleAttempt, AskedSoFar
<1> HIDE DEF new
<1>2. TypeOK'
  BY <1>1 DEF TypeOK
<1>3. SingleAttempt'
  BY <1>1 DEF SingleAttempt
<1>4. StageFitsRow'
  BY <1>1 DEF StageFitsRow
<1>5. AskedSoFar'
  BY <1>1 DEF AskedSoFar
<1>6. BookKept' /\ BoundedRequests'
  BY <1>1 DEF BookKept, BoundedRequests
<1>7. NoRetryForgotten'
  BY <1>1 DEF NoRetryForgotten
<1> QED
  BY <1>2, <1>3, <1>4, <1>5, <1>6, <1>7

THEOREM NextIInv == IInv /\ [Next]_vars => IInv'
<1> SUFFICES ASSUME IInv, [Next]_vars PROVE IInv'
  OBVIOUS
<1> USE BigoAssumption
<1>1. ASSUME NEW c \in Callers, NEW o \in Recharges, FindExisting(c, o)
      PROVE  IInv'
  BY <1>1 DEF FindExisting, IInv, TypeOK, SingleAttempt, StageFitsRow,
              AskedSoFar, BookKept, BoundedRequests, NoRetryForgotten
<1>2. ASSUME NEW c \in Callers, NEW o \in Recharges, CreateRow(c, o)
      PROVE  IInv'
  <2>1. o \in Entries /\ ready' \subseteq Callers \X Recharges
    BY <1>2 DEF Entries, CreateRow, IInv, TypeOK
  <2>2. CASE CanInsert(o) /\ InsertRow(o)
    BY <1>2, <2>1, <2>2, InsertStep DEF CreateRow
  <2>3. CASE UNCHANGED <<row, calls>>
    BY <1>2, <2>1, <2>3 DEF CreateRow, IInv, TypeOK, SingleAttempt, StageFitsRow,
              AskedSoFar, BookKept, BoundedRequests, NoRetryForgotten
  <2> QED
    BY <1>2, <2>2, <2>3 DEF CreateRow
<1>3. ASSUME NEW e \in Disables, StartDisable(e)
      PROVE  IInv'
  <2>1. e \in Entries /\ ready' \subseteq Callers \X Recharges
    BY <1>3 DEF Entries, StartDisable, IInv, TypeOK
  <2> QED
    BY <1>3, <2>1, InsertStep DEF StartDisable
<1>4. ASSUME NEW k \in calls, CallStep(k)
      PROVE  IInv'
  <2>0. k \in Call /\ k.entry \in Entries /\ k.attempt \in 0..MaxRetries
        /\ row \in [Entries -> [status : RowStatus, attempts : 0..MaxRetries]]
    BY DEF IInv, TypeOK, Call
  <2>1. CASE Exchange(k)
    BY <2>1, ExchangeStep
  <2>2. CASE SaveSuccess(k)
    BY <2>2, SettleStep DEF SaveSuccess
  <2>3. CASE RecordFailure(k)
    <3>1. CASE /\ k.at = "errRetry" /\ RetryAllowed(k.attempt + 1)
               /\ QueueRetry(k)
      <4>1. /\ row' \in [Entries -> [status : RowStatus, attempts : 0..MaxRetries]]
            /\ \A e \in Entries \ {k.entry} : row'[e] = row[e]
            /\ row'[k.entry].status = "RETRY_PENDING"
            /\ k.attempt < MaxRetries
        BY <2>0, <3>1 DEF QueueRetry, RetryAllowed, RowStatus
      <4> QED
        BY <2>3, <3>1, <4>1, StageStep DEF RecordFailure, QueueRetry
    <3>2. CASE SetStatus(k.entry, "FAILED") /\ calls' = calls \ {k}
      BY <2>3, <3>2, SettleStep DEF RecordFailure
    <3> QED
      BY <2>3, <3>1, <3>2 DEF RecordFailure
  <2>4. CASE ArmTimer(k)
    BY <2>4, ArmStep
  <2>5. CASE Claim(k)
    <3>1. /\ row' \in [Entries -> [status : RowStatus, attempts : 0..MaxRetries]]
          /\ \A e \in Entries \ {k.entry} : row'[e] = row[e]
          /\ row'[k.entry].status = "REQUESTED"
      BY <2>0, <2>5 DEF Claim, SetStatus, RowStatus
    <3>2. RetryStage(k.entry) \in {"primary", "errRetry"}
      BY DEF RetryStage
    <3> QED
      BY <2>5, <3>1, <3>2, StageStep DEF Claim
  <2> QED
    BY <1>4, <2>1, <2>2, <2>3, <2>4, <2>5 DEF CallStep
<1>5. ASSUME NEW t \in timers, FireTimer(t[1], t[2])
      PROVE  IInv'
  BY <1>5, FireStep
<1>6. ASSUME Restart
      PROVE  IInv'
  BY <1>6 DEF Restart, IInv, TypeOK, SingleAttempt, StageFitsRow, AskedSoFar,
              BookKept, BoundedRequests, NoRetryForgotten
<1>7. CASE UNCHANGED vars
  BY <1>7 DEF vars, IInv, TypeOK, SingleAttempt, StageFitsRow, AskedSoFar,
              BookKept, BoundedRequests, NoRetryForgotten
<1> QED
  BY <1>1, <1>2, <1>3, <1>4, <1>5, <1>6, <1>7 DEF Next

THEOREM SpecIInv == Spec => []IInv
  BY InitIInv, NextIInv, PTL DEF Spec

-----------------------------------------------------------------------------
(* The variables always hold values of their types.                        *)
THEOREM TypeCorrect == Spec => []TypeOK
  BY SpecIInv, PTL DEF IInv

(* One activation or one timer works on a row, for any number of callers,  *)
(* retries and restarts.                                                   *)
THEOREM OneAttemptAtATime == Spec => []SingleAttempt
  BY SpecIInv, PTL DEF IInv

(* Bigo executes the request of an entry at most once.                     *)
THEOREM AtMostOneGrant == Spec => []GrantedOnce
<1>1. IInv => GrantedOnce
  BY DEF IInv, BookKept, GrantedOnce
<1> QED
  BY <1>1, SpecIInv, PTL

(* A SUCCESS row stands for a request that Bigo has executed.              *)
THEOREM SuccessIsGranted == Spec => []SuccessMeansGranted
<1>1. IInv => SuccessMeansGranted
  BY DEF IInv, BookKept, SuccessMeansGranted
<1> QED
  BY <1>1, SpecIInv, PTL

(* Bigo is asked at most MaxRetries + 1 times for an entry.                *)
THEOREM RequestsBounded == Spec => []BoundedRequests
  BY SpecIInv, PTL DEF IInv

(* Before any restart no unsettled row is without its activation or timer. *)
THEOREM NothingForgotten == Spec => []NoRetryForgotten
  BY SpecIInv, PTL DEF IInv

-----------------------------------------------------------------------------
(* The retry queue keeps the promise of RechargeLedger: each of its steps  *)
(* opens, settles or leaves alone the entry it works on.                   *)
phaseOf == [e \in Entries |-> Phase(row[e].status)]

Rows == [Entries -> [status : RowStatus, attempts : 0..MaxRetries]]

(* A step that changes the phase of one row only. *)
LEMMA OneRowMoves ==
  ASSUME NEW e \in Entries, row \in Rows, row' \in Rows,
         \A d \in Entries \ {e} : row'[d].status = row[d].status
  PROVE  phaseOf' = [phaseOf EXCEPT ![e] = Phase(row'[e].status)]
  BY DEF phaseOf, Phase, Rows

LEMMA LedgerStep ==
  ASSUME IInv, IInv', [Next]_vars
  PROVE  [Ledger!Next]_phaseOf
<1> USE DEF Rows
<1>1. row \in Rows /\ row' \in Rows
  BY DEF IInv, TypeOK
<1>2. ASSUME NEW e \in Entries, CanInsert(e), InsertRow(e)
      PROVE  Ledger!Next
  <2>1. phaseOf[e] = "none" /\ phaseOf' = [phaseOf EXCEPT ![e] = "open"]
    BY <1>1, <1>2, OneRowMoves DEF CanInsert, InsertRow, phaseOf, Phase
  <2> QED
    BY <2>1 DEF Ledger!Next, Ledger!Open, Ledger!Move, phaseOf
<1>3. ASSUME NEW k \in calls, SaveSuccess(k)
      PROVE  Ledger!Next
  <2>1. k.entry \in Entries /\ row[k.entry].status = "REQUESTED"
    BY <1>3 DEF SaveSuccess, IInv, TypeOK, Call, StageFitsRow
  <2>2. phaseOf[k.entry] = "open"
        /\ phaseOf' = [phaseOf EXCEPT ![k.entry] = "success"]
    BY <1>1, <1>3, <2>1, OneRowMoves DEF SaveSuccess, SetStatus, phaseOf, Phase
  <2> QED
    BY <2>1, <2>2 DEF Ledger!Next, Ledger!Succeed, Ledger!Move, phaseOf
<1>4. ASSUME NEW k \in calls, RecordFailure(k)
      PROVE  Ledger!Next \/ UNCHANGED phaseOf
  <2>1. k.entry \in Entries /\ row[k.entry].status = "REQUESTED"
    BY <1>4 DEF RecordFailure, IInv, TypeOK, Call, StageFitsRow
  <2>2. CASE QueueRetry(k)
    BY <1>1, <2>1, <2>2 DEF QueueRetry, phaseOf, Phase
  <2>3. CASE SetStatus(k.entry, "FAILED")
    <3>1. phaseOf[k.entry] = "open"
          /\ phaseOf' = [phaseOf EXCEPT ![k.entry] = "failed"]
      BY <1>1, <2>1, <2>3, OneRowMoves DEF SetStatus, phaseOf, Phase
    <3> QED
      BY <2>1, <3>1 DEF Ledger!Next, Ledger!GiveUp, Ledger!Move, phaseOf
  <2> QED
    BY <1>4, <2>2, <2>3 DEF RecordFailure
<1>5. ASSUME NEW k \in calls, Claim(k)
      PROVE  UNCHANGED phaseOf
  <2>1. k.entry \in Entries /\ row[k.entry].status = "RETRY_PENDING"
    BY <1>5 DEF Claim, IInv, TypeOK, Call, StageFitsRow
  <2> QED
    BY <1>1, <1>5, <2>1 DEF Claim, SetStatus, phaseOf, Phase
<1>6. ASSUME UNCHANGED row
      PROVE  UNCHANGED phaseOf
  BY <1>6 DEF phaseOf
<1>7. CASE \E c \in Callers, o \in Recharges : FindExisting(c, o) \/ CreateRow(c, o)
  BY <1>2, <1>6, <1>7 DEF FindExisting, CreateRow, Entries
<1>8. CASE \E e \in Disables : StartDisable(e)
  BY <1>2, <1>8 DEF StartDisable, Entries
<1>9. CASE \E k \in calls : CallStep(k)
  BY <1>3, <1>4, <1>5, <1>6, <1>9 DEF CallStep, Exchange, ArmTimer
<1>10. CASE \/ \E t \in timers : FireTimer(t[1], t[2])
            \/ Restart
            \/ UNCHANGED vars
  BY <1>6, <1>10 DEF FireTimer, Restart, vars
<1> QED
  BY <1>7, <1>8, <1>9, <1>10 DEF Next

THEOREM KeepsLedger == Spec => LedgerSpec
<1>1. Init => Ledger!Init
  BY DEF Init, Ledger!Init, Phase
<1>2. IInv /\ IInv' /\ [Next]_vars => [Ledger!Next]_phaseOf
  BY LedgerStep
<1> QED
  BY <1>1, <1>2, SpecIInv, PTL DEF Spec, LedgerSpec, Ledger!Spec, phaseOf

(* So the outcome of a recharge is final in the table: whatever retry,     *)
(* late answer or repeated request still arrives, a row that is SUCCESS or *)
(* FAILED keeps its status. *)
OutcomeIsFinal ==
  [][\A e \in Entries :
       row[e].status \in {"SUCCESS", "FAILED"} => row'[e].status = row[e].status]_row

THEOREM SettledRowsStay == Spec => OutcomeIsFinal
<1>1. ASSUME IInv, IInv', [Ledger!Next]_phaseOf, NEW e \in Entries,
             row[e].status \in {"SUCCESS", "FAILED"}
      PROVE  row'[e].status = row[e].status
  <2>1. phaseOf[e] \in {"success", "failed"}
    BY <1>1 DEF phaseOf, Phase
  <2>2. phaseOf'[e] = phaseOf[e]
    <3>1. phaseOf = [d \in Entries |-> phaseOf[d]]
      BY DEF phaseOf
    <3>2. ASSUME NEW d \in Entries, NEW p \in {"none", "open"}, NEW q,
                 phaseOf[d] = p, phaseOf' = [phaseOf EXCEPT ![d] = q]
          PROVE  phaseOf'[e] = phaseOf[e]
      BY <2>1, <3>1, <3>2
    <3> QED
      BY <1>1, <3>2 DEF Ledger!Next, Ledger!Open, Ledger!Succeed, Ledger!GiveUp, Ledger!Move, phaseOf
  <2>3. phaseOf'[e] = Phase(row'[e].status) /\ phaseOf[e] = Phase(row[e].status)
    BY DEF phaseOf
  <2>4. Phase(row'[e].status) = Phase(row[e].status)
    BY <2>2, <2>3
  <2> QED
    BY <1>1, <2>4 DEF Phase
<1>2. IInv /\ IInv' /\ [Next]_vars =>
        [\A e \in Entries :
           row[e].status \in {"SUCCESS", "FAILED"} => row'[e].status = row[e].status]_row
  BY <1>1, LedgerStep
<1> QED
  BY <1>2, SpecIInv, PTL DEF Spec, OutcomeIsFinal
=============================================================================
