----------------------------- MODULE BigoRecharge -----------------------------
(***************************************************************************)
(* The Bigo side of the platform: BigoService (diamondRecharge and         *)
(* disableRecharge) and BigoRetryService (the retry queue kept in memory). *)
(*                                                                         *)
(* An entry is one row of the BigoRecharge table.  The row of a recharge   *)
(* is keyed by its bu_orderid, the row of a disable by its seqid; both     *)
(* columns are unique, so there is one row per entry.                      *)
(*                                                                         *)
(* A call is one activation of a service method that holds a row: the      *)
(* first request (attempt 0) or a retry started by a timer (attempt n).    *)
(* A step is what happens between two awaits.  Time is abstract: a timer   *)
(* may fire at any moment after it has been set.                           *)
(***************************************************************************)
EXTENDS Naturals, FiniteSets

CONSTANTS
  Recharges,    \* order numbers that diamondRecharge is called with
  Disables,     \* seqids that disableRecharge is called with
  Callers,      \* activations of diamondRecharge that may overlap
  MaxRetries,   \* BigoRetryService.maxRetries
  HasBackup,    \* whether BIGO_HOST_BACKUP_DOMAIN is configured
  MaxRestarts   \* bound: restarts of the process in one behaviour

Entries == Recharges \cup Disables

ASSUME BigoAssumption ==
  /\ MaxRetries \in Nat
  /\ MaxRestarts \in Nat
  /\ HasBackup \in BOOLEAN
  /\ Recharges \cap Disables = {}

VARIABLES
  row,        \* the BigoRecharge table: status and attempts of every entry
  ready,      \* <<c, o>>: caller c has found no row for o, is about to create
  calls,      \* the live activations that hold a row
  timers,     \* <<e, n>>: an armed setTimeout for attempt n of entry e
  restarts,   \* how often the process has restarted
  requests,   \* requests[e]: attempts on e that reached the Bigo API
  accepted,   \* (Bigo) the ids Bigo has executed
  granted     \* (Bigo) granted[e]: how often Bigo executed a request for e

vars == <<row, ready, calls, timers, restarts, requests, accepted, granted>>

RowStatus == {"NONE", "REQUESTED", "RETRY_PENDING", "SUCCESS", "FAILED"}
Stages    == {"claim", "primary", "backup", "ok", "errRetry", "errFinal", "arm"}
Call      == [entry : Entries, attempt : 0..MaxRetries, at : Stages]

TypeOK ==
  /\ row \in [Entries -> [status : RowStatus, attempts : 0..MaxRetries]]
  /\ ready \subseteq Callers \X Recharges
  /\ calls \subseteq Call
  /\ timers \subseteq Entries \X (1..MaxRetries)
  /\ restarts \in 0..MaxRestarts
  /\ requests \in [Entries -> Nat]
  /\ accepted \subseteq Entries
  /\ granted \in [Entries -> Nat]

Init ==
  /\ row = [e \in Entries |-> [status |-> "NONE", attempts |-> 0]]
  /\ ready = {}
  /\ calls = {}
  /\ timers = {}
  /\ restarts = 0
  /\ requests = [e \in Entries |-> 0]
  /\ accepted = {}
  /\ granted = [e \in Entries |-> 0]

(* Call k goes on to stage s. *)
Proceed(k, s) == calls' = (calls \ {k}) \cup {[k EXCEPT !.at = s]}

SetStatus(e, s) == row' = [row EXCEPT ![e].status = s]

-----------------------------------------------------------------------------
(* First requests                                                          *)

(* The INSERT of a row: the unique columns refuse a second row, which they *)
(* would not do without the index (CanInsertUnchecked).                    *)
CanInsertUnchecked(e) == row[e].status \in RowStatus
CanInsert(e) == row[e].status = "NONE"

InsertRow(e) ==
  /\ row' = [row EXCEPT ![e] = [status |-> "REQUESTED", attempts |-> 0]]
  /\ calls' = calls \cup {[entry |-> e, attempt |-> 0, at |-> "primary"]}

(* diamondRecharge without a seqid looks for a row with the bu_orderid and *)
(* throws when there is one.                                               *)
FindExisting(c, o) ==
  /\ \A p \in ready : p[1] # c
  /\ row[o].status = "NONE"
  /\ ready' = ready \cup {<<c, o>>}
  /\ UNCHANGED <<row, calls, timers, restarts, requests, accepted, granted>>

(* ... and then inserts its own row, or throws on the unique index when    *)
(* another caller has been faster.                                         *)
CreateRow(c, o) ==
  /\ <<c, o>> \in ready
  /\ ready' = ready \ {<<c, o>>}
  /\ \/ CanInsert(o) /\ InsertRow(o)
     \/ ~CanInsert(o) /\ UNCHANGED <<row, calls>>
  /\ UNCHANGED <<timers, restarts, requests, accepted, granted>>

(* disableRecharge inserts its row at once. *)
StartDisable(e) ==
  /\ CanInsert(e)
  /\ InsertRow(e)
  /\ UNCHANGED <<ready, timers, restarts, requests, accepted, granted>>

-----------------------------------------------------------------------------
(* One HTTP exchange                                                       *)

(* The id under which call k asks Bigo to execute its request: a retry     *)
(* rebuilds the request from the stored body and keeps the bu_orderid.     *)
(* (RequestIdPerAttempt: the same with a new id for every attempt.)        *)
RequestIdPerAttempt(k) == <<k.entry, k.attempt>>
RequestId(k) == k.entry

(* What Bigo may do with a request: execute it or not, and the answer the  *)
(* caller sees.  An id that has been executed is refused as a duplicate    *)
(* (7212010).  "retryable" stands for the rate limit (7212012), an internal*)
(* error (500001) and a broken connection, after which the request may     *)
(* have been executed all the same.                                        *)
BigoAnswer(id) ==
  IF id \in accepted
  THEN [executes : {FALSE}, reply : {"retryable", "final"}]
  ELSE [executes : {TRUE},  reply : {"ok", "retryable"}]
         \cup [executes : {FALSE}, reply : {"retryable", "final"}]

(* makeSignedRequest tries the backup domain, if there is one, after any   *)
(* error of the primary one; the outcome is then that of the backup.       *)
(* (AfterReplyUnchecked: the same without the test of rescode.)            *)
AfterReplyUnchecked(at, reply) ==
  IF reply # "retryable" THEN "ok"
  ELSE IF at = "primary" /\ HasBackup THEN "backup" ELSE "errRetry"

AfterReply(at, reply) ==
  IF reply = "ok" THEN "ok"
  ELSE IF at = "primary" /\ HasBackup THEN "backup"
  ELSE IF reply = "retryable" THEN "errRetry" ELSE "errFinal"

Exchange(k) ==
  /\ k.at \in {"primary", "backup"}
  /\ \E a \in BigoAnswer(RequestId(k)) :
       /\ Proceed(k, AfterReply(k.at, a.reply))
       /\ IF a.executes
          THEN /\ accepted' = accepted \cup {RequestId(k)}
               /\ granted' = [granted EXCEPT ![k.entry] = @ + 1]
          ELSE UNCHANGED <<accepted, granted>>
  /\ requests' = IF k.at = "primary"
                 THEN [requests EXCEPT ![k.entry] = @ + 1]
                 ELSE requests
  /\ UNCHANGED <<row, ready, timers, restarts>>

(* The answer was rescode 0: the row becomes SUCCESS. *)
SaveSuccess(k) ==
  /\ k.at = "ok"
  /\ SetStatus(k.entry, "SUCCESS")
  /\ calls' = calls \ {k}
  /\ UNCHANGED <<ready, timers, restarts, requests, accepted, granted>>

-----------------------------------------------------------------------------
(* The retry queue                                                         *)

(* addToRetryQueue gives up once the attempt number exceeds maxRetries.    *)
RetryAllowed(n) == n <= MaxRetries

(* A retry queue that writes the row and forgets to set the timer. *)
QueueWithoutTimer(k) ==
  /\ row' = [row EXCEPT ![k.entry] =
               [status |-> "RETRY_PENDING", attempts |-> k.attempt + 1]]
  /\ calls' = calls \ {k}

(* A retry is due: the row says so first, the timer is set afterwards. *)
QueueRetry(k) ==
  /\ row' = [row EXCEPT ![k.entry] =
               [status |-> "RETRY_PENDING", attempts |-> k.attempt + 1]]
  /\ Proceed(k, "arm")

(* The catch blocks of diamondRecharge, disableRecharge and                *)
(* processSpecificRetry: a retryable error is queued as the next attempt   *)
(* while one is left; anything else marks the row FAILED.                  *)
RecordFailure(k) ==
  /\ k.at \in {"errRetry", "errFinal"}
  /\ LET retry == k.at = "errRetry" /\ RetryAllowed(k.attempt + 1)
     IN  \/ retry /\ QueueRetry(k)
         \/ /\ ~retry
            /\ SetStatus(k.entry, "FAILED")
            /\ calls' = calls \ {k}
  /\ UNCHANGED <<ready, timers, restarts, requests, accepted, granted>>

ArmTimer(k) ==
  /\ k.at = "arm"
  /\ timers' = timers \cup {<<k.entry, k.attempt + 1>>}
  /\ calls' = calls \ {k}
  /\ UNCHANGED <<row, ready, restarts, requests, accepted, granted>>

(* processSpecificRetry up to its read of the row: it goes on only if the  *)
(* row is still RETRY_PENDING.                                             *)
FireTimer(e, n) ==
  /\ <<e, n>> \in timers
  /\ timers' = timers \ {<<e, n>>}
  /\ calls' = IF row[e].status = "RETRY_PENDING"
              THEN calls \cup {[entry |-> e, attempt |-> n, at |-> "claim"]}
              ELSE calls
  /\ UNCHANGED <<row, ready, restarts, requests, accepted, granted>>

(* Where a retry goes once its row is REQUESTED again.  diamondRecharge is *)
(* given the old seqid and sends the request.  disableRecharge has no such *)
(* parameter: it inserts a row with the seqid that the first row holds,    *)
(* the unique index throws, and Bigo is never asked.                       *)
RetryStage(e) == IF e \in Disables THEN "errRetry" ELSE "primary"

Claim(k) ==
  /\ k.at = "claim"
  /\ SetStatus(k.entry, "REQUESTED")
  /\ Proceed(k, RetryStage(k.entry))
  /\ UNCHANGED <<ready, timers, restarts, requests, accepted, granted>>

-----------------------------------------------------------------------------
(* The process stops, in an orderly way (onModuleDestroy clears the        *)
(* timers) or not: activations and timers are lost, the table stays.       *)
Restart ==
  /\ restarts < MaxRestarts
  /\ restarts' = restarts + 1
  /\ ready' = {}
  /\ calls' = {}
  /\ timers' = {}
  /\ UNCHANGED <<row, requests, accepted, granted>>

CallStep(k) ==
  \/ Exchange(k)
  \/ SaveSuccess(k)
  \/ RecordFailure(k)
  \/ ArmTimer(k)
  \/ Claim(k)

Next ==
  \/ \E c \in Callers, o \in Recharges : FindExisting(c, o) \/ CreateRow(c, o)
  \/ \E e \in Disables : StartDisable(e)
  \/ \E k \in calls : CallStep(k)
  \/ \E t \in timers : FireTimer(t[1], t[2])
  \/ Restart

Spec == Init /\ [][Next]_vars

(* The event loop runs every activation on to its next await, every        *)
(* setTimeout callback runs, and every HTTP exchange ends with an answer   *)
(* or an error.  Nothing makes a caller ask, or the process restart.       *)
Progress(e) ==
  \/ \E k \in calls : k.entry = e /\ CallStep(k)
  \/ \E t \in timers : t[1] = e /\ FireTimer(e, t[2])

FairSpec == Spec /\ \A e \in Entries : WF_vars(Progress(e))

-----------------------------------------------------------------------------
(* Properties                                                              *)

(* At any time a row is worked on by one activation or one timer, however  *)
(* many callers ask for the same order number at once and however often    *)
(* the recharge is retried.  Nothing in the code locks a row: this rests   *)
(* on the unique index and on timers being set only by the activation that *)
(* ends.  (diamondRecharge, addToRetryQueue, processSpecificRetry.)        *)
SingleAttempt ==
  /\ \A j, k \in calls : j.entry = k.entry => j = k
  /\ \A s, t \in timers : s[1] = t[1] => s = t
  /\ \A k \in calls, t \in timers : k.entry # t[1]

(* Bigo executes the request of an entry at most once, although a request  *)
(* is sent again after a lost answer, to the backup domain or by a timer:  *)
(* reconstructDto keeps the bu_orderid.                                    *)
GrantedOnce == \A e \in Entries : granted[e] <= 1

(* A row is SUCCESS only if Bigo has executed the request: an answer       *)
(* without rescode 0 never counts (makeSignedRequest).                     *)
SuccessMeansGranted ==
  \A e \in Entries : row[e].status = "SUCCESS" => granted[e] > 0

(* Bigo is asked at most once plus once per retry (maxRetries).            *)
BoundedRequests == \A e \in Entries : requests[e] <= MaxRetries + 1

(* Until the process restarts, a row that is not settled is worked on or   *)
(* has its timer: no failure path of the retry service forgets a row.      *)
(* After a restart this fails, for the timers live in memory only.         *)
NoRetryForgotten ==
  restarts = 0 =>
    \A e \in Entries :
      row[e].status \in {"REQUESTED", "RETRY_PENDING"} =>
        \/ \E k \in calls : k.entry = e
        \/ \E t \in timers : t[1] = e

(* Every opened row ends in SUCCESS or FAILED, unless the process restarts *)
(* first: a retry is queued, its timer fires and leads to another retry or *)
(* to an outcome.                                                          *)
EveryRowSettles ==
  \A e \in Entries :
    row[e].status # "NONE" ~> row[e].status \in {"SUCCESS", "FAILED"} \/ restarts > 0

(* The promise made to the rest of the platform. *)
Phase(s) ==
  IF s = "NONE" THEN "none"
  ELSE IF s = "SUCCESS" THEN "success"
  ELSE IF s = "FAILED" THEN "failed" ELSE "open"

Ledger == INSTANCE RechargeLedger
            WITH Orders <- Entries,
                 phase  <- [e \in Entries |-> Phase(row[e].status)]

LedgerSpec == Ledger!Spec
=============================================================================
