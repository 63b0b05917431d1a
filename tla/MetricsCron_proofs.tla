-------------------------- MODULE MetricsCron_proofs --------------------------
(***************************************************************************)
(* Theorems about MetricsCron, for every set of stores, every window, any  *)
(* number of days, faults and crashes.                                     *)
(*                                                                         *)
(* A run of the cron is described by two facts.  Covered: a day of the     *)
(* window that is not SUCCESS is still to be done, unless something has    *)
(* failed.  Counted: the stores a run has passed on its current day have   *)
(* been recalculated, except those noted as failed.                        *)
(***************************************************************************)
EXTENDS MetricsCron, TLAPS

(* What the run in progress, if there is one, still has to do. *)
Covered ==
  job.at # "idle" /\ job.clean =>
    \A d \in Days : InWindow(d) => exec[d] = "SUCCESS" \/ d \in job.todo \cup job.last

FailureNoted == job.at = "stores" /\ job.failed # {} => ~job.clean
LastIsYesterday == job.at # "idle" => job.last \subseteq {today - 1}

RunInv == TypeOK /\ Covered /\ FailureNoted /\ LastIsYesterday

LEMMA FinalStatusIs ==
  ASSUME NEW failed
  PROVE  /\ FinalStatus(failed) \in Status
         /\ FinalStatus(failed) = "SUCCESS" <=> failed = {}
  BY DEF FinalStatus, Status

(* The fields of the record of a run. *)
LEMMA JobFields ==
  ASSUME job \in Job
  PROVE  /\ job.at \in JobStage /\ job.todo \subseteq Days /\ job.last \subseteq Days
         /\ job.left \subseteq Stores /\ job.failed \subseteq Stores
         /\ job.clean \in BOOLEAN
  BY DEF Job

LEMMA Idle ==
  /\ NoJob \in Job /\ NoJob.at = "idle" /\ NoJob.failed = {}
  /\ NoManual \in Manual
  BY DEF NoJob, NoManual, Job, Manual, JobStage

LEMMA InitRunInv == Init => RunInv
<1> SUFFICES ASSUME Init
             PROVE  RunInv
  OBVIOUS
<1>1. TypeOK
  <2>1. /\ today \in Days /\ exec \in [Days -> Status]
        /\ counted \in [Stores -> SUBSET Days]
    BY CronAssumption DEF Init, Days, Status
  <2>2. job \in Job /\ manual \in [Stores -> Manual]
    BY Idle DEF Init
  <2>3. faults \in 0..MaxFaults /\ crashes \in 0..MaxCrashes /\ manuals \in 0..MaxManual
    BY CronAssumption DEF Init
  <2>4. fired \in BOOLEAN
    BY Zenon DEF Init
  <2> QED
    BY <2>1, <2>2, <2>3, <2>4 DEF TypeOK
<1> QED
  BY <1>1, Idle DEF Init, RunInv, Covered, FailureNoted, LastIsYesterday

LEMMA FireRun ==
  ASSUME RunInv, Fire
  PROVE  RunInv'
<1>1. /\ job' \in Job
      /\ job'.at = "day" /\ job'.last = {today - 1} \cap Days /\ job'.failed = {}
      /\ job'.todo = {d \in Days : Missing(d)} \/ job'.clean = FALSE
  <2>1. PICK ds, y : ds = {d \in Days : Missing(d)} /\ y = {today - 1} \cap Days
    OBVIOUS
  <2>2. CASE job' = [NoJob EXCEPT !.at = "day", !.todo = ds, !.last = y]
    BY <2>1, <2>2 DEF NoJob, Job, JobStage
  <2>3. CASE job' = [NoJob EXCEPT !.at = "day", !.last = y, !.clean = FALSE]
    BY <2>1, <2>3 DEF NoJob, Job, JobStage
  <2> QED
    BY <2>1, <2>2, <2>3 DEF Fire
<1>2. TypeOK'
  <2>1. faults' \in 0..MaxFaults
    BY CronAssumption DEF Fire, RunInv, TypeOK
  <2> QED
    BY <1>1, <2>1 DEF RunInv, Fire, TypeOK
<1>3. Covered'
  BY <1>1 DEF Fire, Covered, Missing, InWindow
<1>4. FailureNoted' /\ LastIsYesterday'
  BY <1>1 DEF Fire, FailureNoted, LastIsYesterday
<1> QED
  BY <1>2, <1>3, <1>4 DEF RunInv

(* When day d is current, the run without it has only lost d. *)
LEMMA WithoutDay ==
  ASSUME RunInv, job.at # "idle", NEW d \in Days, Current(d)
  PROVE  /\ Without(d).at = "day"
         /\ Without(d).todo \cup Without(d).last \subseteq job.todo \cup job.last
         /\ job.todo \cup job.last \subseteq (Without(d).todo \cup Without(d).last) \cup {d}
         /\ Without(d).last \subseteq job.last
         /\ Without(d).clean = job.clean
         /\ Without(d) \in Job
<1>1. job \in Job /\ job.last \subseteq {today - 1}
  BY DEF RunInv, TypeOK, LastIsYesterday
<1>2. CASE d \in job.todo
  <2>1. Without(d) = [job EXCEPT !.at = "day", !.todo = @ \ {d}]
    BY <1>2 DEF Without
  <2>2. PICK w : w = Without(d)
    OBVIOUS
  <2>3. /\ w.at = "day" /\ w.todo = job.todo \ {d} /\ w.last = job.last
        /\ w.clean = job.clean /\ w \in Job
    <3>1. job \in Job /\ w = [job EXCEPT !.at = "day", !.todo = job.todo \ {d}]
      BY <1>1, <2>1, <2>2
    <3>2. "day" \in JobStage /\ job.todo \ {d} \in SUBSET Days
      BY <1>1 DEF Job, JobStage
    <3> QED
      BY <3>1, <3>2 DEF Job
  <2> QED
    BY <1>1, <2>2, <2>3
<1>3. CASE d \notin job.todo
  <2>1. Without(d) = [job EXCEPT !.at = "day", !.last = {}]
    BY <1>3 DEF Without
  <2>2. job.last \subseteq {d}
    BY <1>1, <1>3 DEF Current, Earliest
  <2> QED
    BY <1>1, <2>1, <2>2 DEF Job, JobStage
<1> QED
  BY <1>2, <1>3

(* ... and so does the run that notes a failure besides. *)
LEMMA WithoutDayUnclean ==
  ASSUME RunInv, job.at # "idle", NEW d \in Days, Current(d),
         NEW j, \/ j = [Without(d) EXCEPT !.clean = FALSE]
                \/ j = [Without(d) EXCEPT !.todo = {}, !.clean = FALSE]
  PROVE  j \in Job /\ j.at = "day" /\ j.clean = FALSE /\ j.last \subseteq job.last
<1> DEFINE w == Without(d)
<1>1. w \in Job /\ w.at = "day" /\ w.last \subseteq job.last
  BY WithoutDay
<1> HIDE DEF w
<1>2. \/ j = [w EXCEPT !.clean = FALSE]
      \/ j = [w EXCEPT !.todo = {}, !.clean = FALSE]
  BY DEF w
<1>3. CASE j = [w EXCEPT !.clean = FALSE]
  BY <1>1, <1>3 DEF Job
<1>4. CASE j = [w EXCEPT !.todo = {}, !.clean = FALSE]
  BY <1>1, <1>4 DEF Job
<1> QED
  BY <1>2, <1>3, <1>4

LEMMA ReadDayRun ==
  ASSUME RunInv, NEW d \in Days, ReadDay(d)
  PROVE  RunInv'
<1>1. /\ job.at = "day" /\ Current(d) /\ job \in Job
      /\ Covered /\ LastIsYesterday
      /\ UNCHANGED <<today, fired, exec, counted, manual, faults, crashes, manuals>>
  BY DEF ReadDay, RunInv, TypeOK
<1>2. CASE AlreadyDone(d) /\ job' = Without(d)
  <2>1. TypeOK'
    BY <1>1, <1>2, WithoutDay DEF RunInv, TypeOK
  <2>2. Covered'
    BY <1>1, <1>2, WithoutDay DEF Covered, AlreadyDone, InWindow
  <2>3. FailureNoted' /\ LastIsYesterday'
    BY <1>1, <1>2, WithoutDay DEF FailureNoted, LastIsYesterday
  <2> QED
    BY <2>1, <2>2, <2>3 DEF RunInv
<1>3. CASE \E at \in {"permanent", "start"} : job' = [job EXCEPT !.at = at]
  <2>1. /\ job' \in Job /\ job'.at \in {"permanent", "start"}
        /\ job'.todo = job.todo /\ job'.last = job.last /\ job'.clean = job.clean
    BY <1>1, <1>3 DEF Job, JobStage
  <2>2. TypeOK'
    BY <1>1, <2>1 DEF RunInv, TypeOK
  <2> QED
    BY <1>1, <2>1, <2>2 DEF RunInv, Covered, FailureNoted, LastIsYesterday, InWindow
<1> QED
  BY <1>2, <1>3 DEF ReadDay

LEMMA GiveDayUpRun ==
  ASSUME RunInv, NEW d \in Days, GiveDayUp(d)
  PROVE  RunInv'
<1>1. /\ job.at = "permanent" /\ Current(d) /\ LastIsYesterday
      /\ exec \in [Days -> Status] /\ exec' = [exec EXCEPT ![d] = "FAILED_PERMANENT"]
      /\ job' = [Without(d) EXCEPT !.clean = FALSE]
      /\ UNCHANGED <<today, fired, counted, manual, faults, crashes, manuals>>
  BY DEF GiveDayUp, RunInv, TypeOK
<1>2. job' \in Job /\ job'.at = "day" /\ job'.clean = FALSE /\ job'.last \subseteq job.last
  BY <1>1, WithoutDayUnclean
<1>3. exec' \in [Days -> Status]
  BY <1>1 DEF Status
<1>4. TypeOK'
  BY <1>1, <1>2, <1>3 DEF RunInv, TypeOK
<1> QED
  BY <1>1, <1>2, <1>4 DEF RunInv, Covered, FailureNoted, LastIsYesterday

LEMMA StartDayRun ==
  ASSUME RunInv, NEW d \in Days, StartDay(d)
  PROVE  RunInv'
<1>1. /\ job.at = "start" /\ Current(d) /\ job \in Job
      /\ Covered /\ LastIsYesterday /\ exec \in [Days -> Status]
      /\ exec' = [exec EXCEPT ![d] = "PROCESSING"]
      /\ job' = [job EXCEPT !.at = "stores", !.left = Stores, !.failed = {}]
      /\ UNCHANGED <<today, fired, counted, manual, faults, crashes, manuals>>
  BY DEF StartDay, RunInv, TypeOK
<1>2. /\ job' \in Job
      /\ job'.at = "stores" /\ job'.todo = job.todo /\ job'.last = job.last
      /\ job'.failed = {} /\ job'.clean = job.clean
  BY <1>1 DEF Job, JobStage
<1>3. /\ exec' \in [Days -> Status]
      /\ \A e \in Days : exec[e] = "SUCCESS" => exec'[e] = "SUCCESS" \/ e = d
  BY <1>1 DEF Status
<1>5. d \in job.todo \cup job.last
  BY <1>1 DEF Current, Earliest
<1>6. TypeOK'
  BY <1>1, <1>2, <1>3 DEF RunInv, TypeOK
<1>7. Covered'
  BY <1>1, <1>2, <1>3, <1>5 DEF Covered, InWindow
<1> QED
  BY <1>1, <1>2, <1>6, <1>7 DEF RunInv, FailureNoted, LastIsYesterday

LEMMA DoStoreFields ==
  ASSUME job \in Job, NEW d \in Days, NEW s \in Stores, DoStore(d, s)
  PROVE  job'.todo = job.todo /\ job'.last = job.last
  BY DEF DoStore, Job

LEMMA DoStoreRun ==
  ASSUME RunInv, NEW d \in Days, NEW s \in Stores, DoStore(d, s)
  PROVE  RunInv'
<1>1. job \in Job /\ job.at = "stores"
  BY DEF DoStore, RunInv, TypeOK
<1>2. /\ job' \in Job
      /\ job'.at = "stores" /\ job'.todo = job.todo /\ job'.last = job.last
      /\ \/ job'.clean = job.clean /\ job'.failed = job.failed
         \/ job'.clean = FALSE
  <2>1. CASE job' = [job EXCEPT !.left = @ \ {s}]
    BY <1>1, <2>1 DEF Job
  <2>2. CASE job' = [job EXCEPT !.left = @ \ {s}, !.failed = @ \cup {s}, !.clean = FALSE]
    BY <1>1, <2>2 DEF Job
  <2> QED
    BY <2>1, <2>2 DEF DoStore
<1>3. counted' \in [Stores -> SUBSET Days] /\ faults' \in 0..MaxFaults
  BY CronAssumption DEF DoStore, Compute, RunInv, TypeOK
<1>4. TypeOK'
  BY <1>2, <1>3 DEF DoStore, RunInv, TypeOK
<1> QED
  BY <1>1, <1>2, <1>4 DEF RunInv, DoStore, Covered, FailureNoted, LastIsYesterday, InWindow

LEMMA EndDayRun ==
  ASSUME RunInv, NEW d \in Days, EndDay(d)
  PROVE  RunInv'
<1>1. /\ job.at = "stores" /\ Current(d) /\ job' = Without(d) /\ exec \in [Days -> Status]
      /\ exec' = [exec EXCEPT ![d] = FinalStatus(job.failed)]
      /\ UNCHANGED <<today, fired, counted, manual, faults, crashes, manuals>>
      /\ Covered /\ FailureNoted /\ LastIsYesterday
  BY DEF EndDay, RunInv, TypeOK
<1>2. TypeOK'
  BY <1>1, WithoutDay, FinalStatusIs DEF RunInv, TypeOK
<1>3. job.clean => FinalStatus(job.failed) = "SUCCESS"
  BY <1>1, FinalStatusIs DEF FailureNoted
<1>4. job.clean => \A e \in Days : e = d \/ exec[e] = "SUCCESS" => exec'[e] = "SUCCESS"
  BY <1>1, <1>3
<1>5. Covered'
  BY <1>1, <1>4, WithoutDay DEF Covered, InWindow
<1> QED
  BY <1>1, <1>2, <1>5, WithoutDay DEF RunInv, FailureNoted, LastIsYesterday

LEMMA DayThrowsRun ==
  ASSUME RunInv, NEW d \in Days, DayThrows(d)
  PROVE  RunInv'
<1>1. /\ job' \in Job /\ job'.at = "day" /\ job'.clean = FALSE /\ job'.last \subseteq job.last
      /\ job.at # "idle"
  BY WithoutDayUnclean DEF DayThrows
<1>2. exec' \in [Days -> Status] /\ faults' \in 0..MaxFaults
  BY CronAssumption DEF DayThrows, RunInv, TypeOK, Status
<1>3. TypeOK'
  BY <1>1, <1>2 DEF DayThrows, RunInv, TypeOK
<1> QED
  BY <1>1, <1>3 DEF RunInv, DayThrows, Covered, FailureNoted, LastIsYesterday

(* Administrators and recalculations leave the run alone; they only turn   *)
(* days into SUCCESS. *)
LEMMA OthersRun ==
  ASSUME RunInv, NEW s \in Stores, NEW d \in Days,
         Recalculate(s, d) \/ ManualStore(s, d) \/ ManualMark(s, d) \/ ManualStart(s)
  PROVE  RunInv'
<1>1. /\ job' = job /\ today' = today
      /\ (exec' = exec \/ exec' = [exec EXCEPT ![d] = "SUCCESS"])
      /\ UNCHANGED <<fired, crashes>>
  BY DEF Recalculate, ManualStore, ManualMark, ManualStart
<1>2. /\ exec' \in [Days -> Status]
      /\ \A e \in Days : exec[e] = "SUCCESS" => exec'[e] = "SUCCESS"
  BY <1>1 DEF RunInv, TypeOK, Status
<1>3. Covered' /\ FailureNoted' /\ LastIsYesterday'
  BY <1>1, <1>2 DEF RunInv, Covered, FailureNoted, LastIsYesterday, InWindow
<1>4. counted' \in [Stores -> SUBSET Days]
  <2>1. Compute(s, d) \/ counted' = counted
    BY DEF Recalculate, ManualStore, ManualMark, ManualStart
  <2> QED
    BY <2>1 DEF Compute, RunInv, TypeOK
<1>5. manual' \in [Stores -> Manual]
  <2>1. manual \in [Stores -> Manual] /\ manual[s] \in Manual
    BY DEF RunInv, TypeOK
  <2>2. CASE manual' = manual
    BY <2>1, <2>2
  <2>3. CASE \E m \in Manual : manual' = [manual EXCEPT ![s] = m]
    BY <2>1, <2>3
  <2>4. /\ [manual[s] EXCEPT !.done = TRUE] \in Manual
        /\ [manual[s] EXCEPT !.todo = @ \ {d}] \in Manual
        /\ [todo |-> manual[s].todo \ {d}, done |-> FALSE] \in Manual
        /\ [todo |-> Failures, done |-> FALSE] \in Manual
    BY <2>1 DEF Manual, Failures
  <2> QED
    BY <2>1, <2>2, <2>3, <2>4 DEF Recalculate, ManualStore, ManualMark, ManualStart
<1>6. faults' \in 0..MaxFaults /\ manuals' \in 0..MaxManual
  BY CronAssumption DEF Recalculate, ManualStore, ManualMark, ManualStart, RunInv, TypeOK
<1>7. TypeOK'
  BY <1>1, <1>2, <1>4, <1>5, <1>6 DEF RunInv, TypeOK
<1> QED
  BY <1>3, <1>7 DEF RunInv

LEMMA NextRunInv == RunInv /\ [Next]_vars => RunInv'
<1> SUFFICES ASSUME RunInv, [Next]_vars
             PROVE  RunInv'
  OBVIOUS
<1>1. CASE Fire
  BY <1>1, FireRun
<1>2. ASSUME NEW d \in Days, JobStep(d)
      PROVE  RunInv'
  BY <1>2, ReadDayRun, GiveDayUpRun, StartDayRun, DoStoreRun, EndDayRun, DayThrowsRun
     DEF JobStep
<1>3. CASE EndRun
  BY <1>3, Idle DEF EndRun, RunInv, TypeOK, Covered, FailureNoted, LastIsYesterday
<1>4. ASSUME NEW s \in Stores, NEW d \in Days,
             Recalculate(s, d) \/ ManualStore(s, d) \/ ManualMark(s, d)
      PROVE  RunInv'
  BY <1>4, OthersRun
<1>5. ASSUME NEW s \in Stores, ManualStart(s)
      PROVE  RunInv'
  <2>1. 0 \in Days
    BY CronAssumption DEF Days
  <2> QED
    BY <1>5, <2>1, OthersRun
<1>6. CASE NextDay
  <2>1. today' \in Days
    BY <1>6, CronAssumption DEF NextDay, RunInv, TypeOK, Days
  <2>2. TypeOK'
    BY <1>6, <2>1 DEF NextDay, RunInv, TypeOK
  <2> QED
    BY <1>6, <2>2 DEF NextDay, RunInv, Covered, FailureNoted, LastIsYesterday
<1>7. CASE Crash
  BY <1>7, Idle, CronAssumption DEF Crash, RunInv, TypeOK, Covered, FailureNoted,
     LastIsYesterday
<1>8. CASE UNCHANGED vars
  BY <1>8 DEF vars, RunInv, TypeOK, Covered, FailureNoted, LastIsYesterday, InWindow
<1> QED
  BY <1>1, <1>2, <1>3, <1>4, <1>5, <1>6, <1>7, <1>8 DEF Next

THEOREM SpecRunInv == Spec => []RunInv
  BY InitRunInv, NextRunInv, PTL DEF Spec

(* Every variable of the cron keeps its type. *)
THEOREM TypeCorrect == Spec => []TypeOK
<1>1. RunInv => TypeOK
  BY DEF RunInv
<1> QED
  BY <1>1, SpecRunInv, PTL

(* A run in which nothing has failed leaves no day of its window without   *)
(* SUCCESS (checkAndRecoverMissingDays), however the earlier runs ended.   *)
THEOREM CleanRunRecovers == Spec => CleanRunLeavesNoGap
<1>1. RunInv /\ [Next]_vars
        => [EndRun /\ job.clean
              => \A d \in Days : InWindow(d) => exec[d] = "SUCCESS"]_vars
  BY DEF RunInv, Covered, EndRun
<1> QED
  BY <1>1, SpecRunInv, PTL DEF Spec, CleanRunLeavesNoGap

-----------------------------------------------------------------------------
(* Until an administrator recalculates                                     *)

(* The stores the run has passed on its current day. *)
Counted ==
  job.at = "stores" =>
    \A d \in Days : Current(d) =>
      \A s \in Stores \ (job.left \cup job.failed) : d \in counted[s]

NobodyElse == manual = [s \in Stores |-> NoManual]
SuccessIsCounted == \A d \in Days : exec[d] = "SUCCESS" => AllStoresCounted(d)

DayFacts == Counted /\ SuccessIsCounted /\ NobodyElse
DayInv   == RunInv /\ manuals \in Nat /\ (manuals = 0 => DayFacts)

(* What has been recalculated stays recalculated. *)
LEMMA ComputeKeeps ==
  ASSUME TypeOK, NEW s \in Stores, NEW d \in Days, Compute(s, d)
  PROVE  /\ d \in counted'[s]
         /\ \A t \in Stores, e \in Days : e \in counted[t] => e \in counted'[t]
  BY DEF Compute, TypeOK

LEMMA InitDayInv == Init => DayInv
  BY InitRunInv DEF Init, DayInv, DayFacts, Counted, SuccessIsCounted, NobodyElse, NoJob

LEMMA JobStepDay ==
  ASSUME RunInv, DayFacts, NEW d \in Days, JobStep(d)
  PROVE  DayFacts'
<1> USE DEF DayFacts, RunInv, AllStoresCounted
<1>1. NobodyElse'
  BY DEF JobStep, ReadDay, GiveDayUp, StartDay, DoStore, EndDay, DayThrows, NobodyElse
<1>2. CASE ReadDay(d) \/ GiveDayUp(d) \/ StartDay(d)
  <2>1. counted' = counted /\ \A e \in Days : exec'[e] = "SUCCESS" => exec[e] = "SUCCESS"
    BY <1>2 DEF ReadDay, GiveDayUp, StartDay, TypeOK
  <2>2. job'.at = "stores" => job'.left = Stores
    <3>1. /\ job \in Job /\ job.at \in {"day", "permanent", "start"} /\ Current(d)
          /\ \/ job' = Without(d)
             \/ job' = [Without(d) EXCEPT !.clean = FALSE]
             \/ job' = [job EXCEPT !.at = "permanent"]
             \/ job' = [job EXCEPT !.at = "start"]
             \/ job' = [job EXCEPT !.at = "stores", !.left = Stores, !.failed = {}]
      BY <1>2 DEF ReadDay, GiveDayUp, StartDay, TypeOK
    <3>2. CASE job' = Without(d)
      BY <3>1, <3>2, WithoutDay
    <3>3. CASE job' = [Without(d) EXCEPT !.clean = FALSE]
      BY <3>1, <3>3, WithoutDayUnclean
    <3>4. CASE \/ job' = [job EXCEPT !.at = "permanent"]
               \/ job' = [job EXCEPT !.at = "start"]
               \/ job' = [job EXCEPT !.at = "stores", !.left = Stores, !.failed = {}]
      BY <3>1, <3>4 DEF Job
    <3> QED
      BY <3>1, <3>2, <3>3, <3>4
  <2> QED
    BY <1>1, <2>1, <2>2 DEF Counted, SuccessIsCounted
<1>3. ASSUME NEW s \in Stores, DoStore(d, s)
      PROVE  Counted' /\ SuccessIsCounted'
  <2>1. job.at = "stores" /\ Current(d) /\ exec' = exec
    BY <1>3 DEF DoStore
  <2>2. job'.todo = job.todo /\ job'.last = job.last
    BY <1>3, DoStoreFields DEF TypeOK
  <2>3. \A e \in Days : Current(e) => e = d
    BY <2>1 DEF Current, Earliest, LastIsYesterday, TypeOK, Days
  <2>4. \A e \in Days : Current(e)' => Current(e)
    BY <2>2 DEF Current, Earliest
  <2>5. CASE Compute(s, d) /\ job' = [job EXCEPT !.left = @ \ {s}]
    <3>1. job'.left = job.left \ {s} /\ job'.failed = job.failed
      BY <2>5 DEF TypeOK
    <3> QED
      BY <2>1, <2>3, <2>4, <2>5, <3>1, ComputeKeeps DEF Counted, SuccessIsCounted
  <2>6. CASE /\ job' = [job EXCEPT !.left = @ \ {s}, !.failed = @ \cup {s}, !.clean = FALSE]
             /\ UNCHANGED counted
    <3>1. job'.left = job.left \ {s} /\ job'.failed = job.failed \cup {s}
      BY <2>6 DEF TypeOK
    <3> QED
      BY <2>1, <2>4, <2>6, <3>1 DEF Counted, SuccessIsCounted
  <2> QED
    BY <1>3, <2>5, <2>6 DEF DoStore
<1>4. CASE EndDay(d)
  <2>1. /\ job.at = "stores" /\ Current(d) /\ job.left = {} /\ counted' = counted
        /\ job'.at = "day"
    BY <1>4, WithoutDay DEF EndDay
  <2>2. \A e \in Days : exec'[e] = "SUCCESS"
          => exec[e] = "SUCCESS" \/ (e = d /\ job.failed = {})
    BY <1>4, FinalStatusIs DEF EndDay, TypeOK
  <2> QED
    BY <1>1, <2>1, <2>2 DEF Counted, SuccessIsCounted
<1>5. CASE DayThrows(d)
  <2>1. counted' = counted /\ \A e \in Days : exec'[e] = "SUCCESS" => exec[e] = "SUCCESS"
    BY <1>5 DEF DayThrows, TypeOK
  <2>2. job'.at = "day"
    BY <1>5, WithoutDayUnclean DEF DayThrows
  <2> QED
    BY <1>1, <2>1, <2>2 DEF Counted, SuccessIsCounted
<1> QED
  BY <1>1, <1>2, <1>3, <1>4, <1>5 DEF JobStep

LEMMA NextDayInv == DayInv /\ [Next]_vars => DayInv'
<1> SUFFICES ASSUME DayInv, [Next]_vars
             PROVE  manuals' \in Nat /\ (manuals' = 0 => manuals = 0 /\ DayFacts')
  BY NextRunInv DEF DayInv
<1> USE DEF DayFacts, RunInv, AllStoresCounted
<1>1. CASE Fire
  BY <1>1 DEF Fire, NoJob, Counted, SuccessIsCounted, NobodyElse, DayInv
<1>2. ASSUME NEW d \in Days, JobStep(d)
      PROVE  manuals' = manuals /\ (manuals = 0 => DayFacts')
  BY <1>2, JobStepDay
     DEF DayInv, JobStep, ReadDay, GiveDayUp, StartDay, DoStore, EndDay, DayThrows
<1>3. CASE EndRun
  BY <1>3 DEF EndRun, NoJob, Counted, SuccessIsCounted, NobodyElse, DayInv
<1>4. ASSUME NEW s \in Stores, NEW d \in Days, Recalculate(s, d)
      PROVE  manuals' = manuals /\ (manuals = 0 => DayFacts')
  BY <1>4, ComputeKeeps DEF Recalculate, Counted, Current, SuccessIsCounted, NobodyElse, DayInv
<1>5. ASSUME NEW s \in Stores, NEW d \in Days, ManualStore(s, d) \/ ManualMark(s, d)
      PROVE  manuals # 0 /\ manuals' = manuals
  BY <1>5 DEF NobodyElse, NoManual, ManualStore, ManualMark, Earliest, DayInv
<1>6. ASSUME NEW s \in Stores, ManualStart(s)
      PROVE  manuals' \in Nat /\ manuals' # 0
  BY <1>6 DEF ManualStart, DayInv
<1>7. CASE NextDay
  BY <1>7 DEF NextDay, Counted, Current, SuccessIsCounted, NobodyElse, DayInv
<1>8. CASE Crash
  BY <1>8 DEF Crash, NoJob, Counted, SuccessIsCounted, NobodyElse, DayInv
<1>9. CASE UNCHANGED vars
  BY <1>9 DEF vars, Counted, Current, SuccessIsCounted, NobodyElse, DayInv
<1> QED
  BY <1>1, <1>2, <1>3, <1>4, <1>5, <1>6, <1>7, <1>8, <1>9 DEF Next, DayInv

(* As long as no administrator recalculates by hand, SUCCESS means that    *)
(* every store has been counted (processMetricsForDate).                   *)
THEOREM SuccessIsComplete == Spec => []SuccessMeansAllStores
<1>1. DayInv => SuccessMeansAllStores
  BY DEF DayInv, DayFacts, SuccessIsCounted, SuccessMeansAllStores
<1> QED
  BY <1>1, InitDayInv, NextDayInv, PTL DEF Spec
=============================================================================
