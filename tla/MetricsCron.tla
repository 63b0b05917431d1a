------------------------------ MODULE MetricsCron ------------------------------
(***************************************************************************)
(* MetricsCronService and the manual recalculation of MetricsController:   *)
(* once a day the cron recalculates the metrics of every store for the     *)
(* days that need it and keeps one MetricsCronExecution row per day.       *)
(*                                                                         *)
(* The metrics of a store for a day are abstracted to whether they have    *)
(* been recalculated (DashboardMetrics has what a recalculation reads and  *)
(* writes).  Hours are not modelled.  The run of a day and the             *)
(* recalculations of the administrators interleave, store by store.        *)
(***************************************************************************)
EXTENDS Integers, FiniteSets

CONSTANTS
  Stores,
  LastDay,     \* bound: days are 0..LastDay
  Window,      \* how many days back the cron looks for missing days
  MaxRetries,  \* MAX_RETRIES
  MaxFaults,   \* bound: recalculations that fail
  MaxCrashes,  \* bound: crashes of the process
  MaxManual    \* bound: manual recalculations

ASSUME CronAssumption ==
  /\ IsFiniteSet(Stores) /\ Stores # {}
  /\ LastDay \in Nat /\ Window \in Nat /\ MaxRetries \in Nat
  /\ MaxFaults \in Nat /\ MaxCrashes \in Nat /\ MaxManual \in Nat

Days == 0..LastDay

VARIABLES
  today,     \* the current day
  fired,     \* whether the cron has fired today
  exec,      \* exec[d]: MetricsCronExecution.status of day d
  counted,   \* counted[s]: the days whose metrics store s has
  job,       \* the run of the cron: days to do (and the one to do last),
             \*   stores left and failed, whether nothing has failed so far
  manual,    \* manual[s]: days the administrator of s still recalculates, and stage
  faults, crashes, manuals

vars == <<today, fired, exec, counted, job, manual, faults, crashes, manuals>>

Status == {"NONE", "PROCESSING", "SUCCESS", "FAILED", "PARTIAL", "FAILED_PERMANENT"}
JobStage == {"idle", "day", "permanent", "start", "stores"}
Job    == [at : JobStage, todo : SUBSET Days, last : SUBSET Days,
           left : SUBSET Stores, failed : SUBSET Stores, clean : BOOLEAN]
Manual == [todo : SUBSET Days, done : BOOLEAN]

TypeOK ==
  /\ today \in Days
  /\ fired \in BOOLEAN
  /\ exec \in [Days -> Status]
  /\ counted \in [Stores -> SUBSET Days]
  /\ job \in Job
  /\ manual \in [Stores -> Manual]
  /\ faults \in 0..MaxFaults /\ crashes \in 0..MaxCrashes /\ manuals \in 0..MaxManual

NoJob    == [at |-> "idle", todo |-> {}, last |-> {}, left |-> {}, failed |-> {},
             clean |-> TRUE]
NoManual == [todo |-> {}, done |-> FALSE]

Init ==
  /\ today = 0
  /\ fired = FALSE
  /\ exec = [d \in Days |-> "NONE"]
  /\ counted = [s \in Stores |-> {}]
  /\ job = NoJob
  /\ manual = [s \in Stores |-> NoManual]
  /\ faults = 0 /\ crashes = 0 /\ manuals = 0

(* recalculateStoreMetrics of store s for day d. *)
Compute(s, d) == counted' = [counted EXCEPT ![s] = @ \cup {d}]

-----------------------------------------------------------------------------
(* The cron                                                                *)

(* checkAndRecoverMissingDays takes the days from Window days ago on that  *)
(* are not SUCCESS.  Its loop ends at the present moment, so that today,   *)
(* which began before it, is one of them.  (MissingButStarted: a day whose *)
(* row is PROCESSING is not missing.)                                      *)
InWindow(d) == today - Window <= d /\ d <= today
MissingButStarted(d) == InWindow(d) /\ exec[d] \notin {"SUCCESS", "PROCESSING"}
Missing(d) == InWindow(d) /\ exec[d] # "SUCCESS"

(* processDailyMetrics: the missing days in chronological order, unless    *)
(* their query throws, and then yesterday.                                 *)
Fire ==
  /\ ~fired /\ job.at = "idle"
  /\ fired' = TRUE
  /\ \/ /\ job' = [NoJob EXCEPT !.at = "day",
                                !.todo = {d \in Days : Missing(d)},
                                !.last = {today - 1} \cap Days]
        /\ UNCHANGED faults
     \/ /\ faults < MaxFaults
        /\ faults' = faults + 1
        /\ job' = [NoJob EXCEPT !.at = "day", !.last = {today - 1} \cap Days,
                                !.clean = FALSE]
  /\ UNCHANGED <<today, exec, counted, manual, crashes, manuals>>

Earliest(d, S) == d \in S /\ \A e \in S : d <= e

(* Day d is the one the run works on. *)
Current(d) == Earliest(d, job.todo) \/ (job.todo = {} /\ d \in job.last)

(* The run with day d done. *)
Without(d) ==
  IF d \in job.todo THEN [job EXCEPT !.at = "day", !.todo = @ \ {d}]
                    ELSE [job EXCEPT !.at = "day", !.last = {}]

(* getRetryCount counts the rows of a day that are FAILED or PARTIAL; the  *)
(* column executionDate is unique. *)
RetryCount(d) == IF exec[d] \in {"FAILED", "PARTIAL"} THEN 1 ELSE 0

(* A day that is SUCCESS is not processed again.                           *)
AlreadyDone(d) == exec[d] = "SUCCESS"

(* processMetricsForDate reads the row of the day ...                      *)
ReadDay(d) ==
  /\ job.at = "day" /\ Current(d)
  /\ job' = IF AlreadyDone(d) THEN Without(d)
            ELSE IF exec[d] # "NONE" /\ RetryCount(d) >= MaxRetries
            THEN [job EXCEPT !.at = "permanent"]
            ELSE [job EXCEPT !.at = "start"]
  /\ UNCHANGED <<today, fired, exec, counted, manual, faults, crashes, manuals>>

(* ... and then writes it, whatever it says by now: either it gives the    *)
(* day up or it starts on the stores.                                      *)
GiveDayUp(d) ==
  /\ job.at = "permanent" /\ Current(d)
  /\ exec' = [exec EXCEPT ![d] = "FAILED_PERMANENT"]
  /\ job' = [Without(d) EXCEPT !.clean = FALSE]
  /\ UNCHANGED <<today, fired, counted, manual, faults, crashes, manuals>>

StartDay(d) ==
  /\ job.at = "start" /\ Current(d)
  /\ exec' = [exec EXCEPT ![d] = "PROCESSING"]
  /\ job' = [job EXCEPT !.at = "stores", !.left = Stores, !.failed = {}]
  /\ UNCHANGED <<today, fired, counted, manual, faults, crashes, manuals>>

(* recalculateStoreMetrics of one store, which works or throws. *)
DoStore(d, s) ==
  /\ job.at = "stores" /\ Current(d) /\ s \in job.left
  /\ \/ /\ Compute(s, d)
        /\ job' = [job EXCEPT !.left = @ \ {s}]
        /\ UNCHANGED faults
     \/ /\ faults < MaxFaults
        /\ faults' = faults + 1
        /\ job' = [job EXCEPT !.left = @ \ {s}, !.failed = @ \cup {s}, !.clean = FALSE]
        /\ UNCHANGED counted
  /\ UNCHANGED <<today, fired, exec, manual, crashes, manuals>>

(* The status at the end of a day.  (FinalStatusAny: SUCCESS if any store  *)
(* has succeeded.)                                                         *)
FinalStatusAny(failed) == IF failed = Stores THEN "FAILED" ELSE "SUCCESS"
FinalStatus(failed) ==
  IF failed = {} THEN "SUCCESS" ELSE IF failed = Stores THEN "FAILED" ELSE "PARTIAL"

EndDay(d) ==
  /\ job.at = "stores" /\ Current(d) /\ job.left = {}
  /\ exec' = [exec EXCEPT ![d] = FinalStatus(job.failed)]
  /\ job' = Without(d)
  /\ UNCHANGED <<today, fired, counted, manual, faults, crashes, manuals>>

(* A query of processMetricsForDate throws.  The catch block marks the day *)
(* FAILED; when that throws as well, the missing days that are left are    *)
(* dropped and the run goes on with yesterday.                             *)
DayThrows(d) ==
  /\ job.at # "idle" /\ Current(d)
  /\ job.at = "stores" => job.left \in {{}, Stores}
  /\ faults < MaxFaults
  /\ faults' = faults + 1
  /\ \/ /\ exec' = [exec EXCEPT ![d] = "FAILED"]
        /\ job' = [Without(d) EXCEPT !.clean = FALSE]
     \/ /\ job' = [Without(d) EXCEPT !.todo = {}, !.clean = FALSE]
        /\ UNCHANGED exec
  /\ UNCHANGED <<today, fired, counted, manual, crashes, manuals>>

EndRun ==
  /\ job.at = "day" /\ job.todo = {} /\ job.last = {}
  /\ job' = NoJob
  /\ UNCHANGED <<today, fired, exec, counted, manual, faults, crashes, manuals>>

JobStep(d) ==
  \/ ReadDay(d)
  \/ GiveDayUp(d)
  \/ StartDay(d)
  \/ \E s \in Stores : DoStore(d, s)
  \/ EndDay(d)
  \/ DayThrows(d)

-----------------------------------------------------------------------------
(* Everything else                                                         *)

(* Recalculations in real time: an order of day d is completed             *)
(* (updateMetricsForOrder), or the administrator refreshes today. *)
Recalculate(s, d) ==
  /\ d <= today
  /\ Compute(s, d)
  /\ UNCHANGED <<today, fired, exec, job, manual, faults, crashes, manuals>>

(* POST metrics/recalculate by the administrator of s: the failed days are *)
(* read once ...                                                           *)
Failures == {d \in Days : exec[d] \in {"FAILED", "PARTIAL", "FAILED_PERMANENT"}}

ManualStart(s) ==
  /\ manual[s] = NoManual /\ manuals < MaxManual
  /\ Failures # {}
  /\ manuals' = manuals + 1
  /\ manual' = [manual EXCEPT ![s] = [todo |-> Failures, done |-> FALSE]]
  /\ UNCHANGED <<today, fired, exec, counted, job, faults, crashes>>

(* ... and then each is recalculated, for this store, ...                  *)
ManualStore(s, d) ==
  /\ Earliest(d, manual[s].todo) /\ ~manual[s].done
  /\ \/ /\ Compute(s, d)
        /\ manual' = [manual EXCEPT ![s].done = TRUE]
        /\ UNCHANGED faults
     \/ /\ faults < MaxFaults
        /\ faults' = faults + 1
        /\ manual' = [manual EXCEPT ![s].todo = @ \ {d}]
        /\ UNCHANGED counted
  /\ UNCHANGED <<today, fired, exec, job, crashes, manuals>>

(* ... and its row set to SUCCESS if it is still a failure. *)
ManualMark(s, d) ==
  /\ Earliest(d, manual[s].todo) /\ manual[s].done
  /\ exec' = IF d \in Failures THEN [exec EXCEPT ![d] = "SUCCESS"] ELSE exec
  /\ manual' = [manual EXCEPT ![s] = [todo |-> @.todo \ {d}, done |-> FALSE]]
  /\ UNCHANGED <<today, fired, counted, job, faults, crashes, manuals>>

(* Midnight: the run of the day has ended, or never started. *)
NextDay ==
  /\ today < LastDay /\ job.at = "idle"
  /\ today' = today + 1
  /\ fired' = FALSE
  /\ UNCHANGED <<exec, counted, job, manual, faults, crashes, manuals>>

Crash ==
  /\ crashes < MaxCrashes
  /\ crashes' = crashes + 1
  /\ job' = NoJob
  /\ manual' = [s \in Stores |-> NoManual]
  /\ UNCHANGED <<today, fired, exec, counted, faults, manuals>>

Next ==
  \/ Fire
  \/ \E d \in Days : JobStep(d)
  \/ EndRun
  \/ \E s \in Stores, d \in Days : Recalculate(s, d) \/ ManualStore(s, d) \/ ManualMark(s, d)
  \/ \E s \in Stores : ManualStart(s)
  \/ NextDay
  \/ Crash

Spec == Init /\ [][Next]_vars

-----------------------------------------------------------------------------
(* Properties                                                              *)

(* A day is SUCCESS only if the metrics of every store have been           *)
(* recalculated for it, whatever has failed or crashed before (storesFailed*)
(* in processMetricsForDate), as long as no administrator has              *)
(* recalculated by hand.  After that it fails: the administrator of one    *)
(* store recalculates that store, and ManualMark is for all of them.       *)
AllStoresCounted(d) == \A s \in Stores : d \in counted[s]

SuccessMeansAllStores ==
  manuals = 0 => \A d \in Days : exec[d] = "SUCCESS" => AllStoresCounted(d)

(* When a run in which nothing has failed ends, no day of its window is    *)
(* left without SUCCESS: neither a day on which the cron did not run nor   *)
(* one during which the process crashed is forgotten.                      *)
CleanRunLeavesNoGap ==
  [][EndRun /\ job.clean => \A d \in Days : InWindow(d) => exec[d] = "SUCCESS"]_vars
=============================================================================
