--------------------------- MODULE JobStoreProofs ---------------------------
(***************************************************************************)
(* What the store's own guards guarantee, for every plan, every number of  *)
(* commits, runs, attempts and CI failures.  TypeOK is inductive alone.    *)
(* SInv, about each task by itself, holds of every use of the store; OInv, *)
(* about the tasks together and the job, of every orderly one, and rests   *)
(* on SInv.                                                                *)
(***************************************************************************)
EXTENDS JobStore, TLAPS

LEMMA PlanTask ==
  ASSUME TypeOK, NEW k \in PlanKeys
  PROVE  /\ k \in Keys
         /\ task[k] \in Task
BY StoreAssumption DEF TypeOK, StoreTypeOK, PlanKeys, Keys

LEMMA InitTypeOK == Init => TypeOK
BY StoreAssumption DEF TypeOK, StoreTypeOK, Init, Create, Job, CI, Task, NoTask, NoCI, JobStatuses,
   Verdicts, MergeStates, Keys

LEMMA PlanningTypeOK == TypeOK /\ Planning => TypeOK'
<1> SUFFICES ASSUME TypeOK, Planning PROVE TypeOK'
  OBVIOUS
<1> USE DEF TypeOK, StoreTypeOK
<1>1. CASE MarkFoundationPending
  BY <1>1 DEF MarkFoundationPending, Job
<1>2. CASE StartPlanning
  BY <1>2 DEF StartPlanning, Job, JobStatuses
<1>3. ASSUME NEW n \in Keys, NEW deps \in [1..n -> SUBSET (1..n)],
             SubmitPlan(n, deps)
      PROVE  TypeOK'
  <2>1. job' \in Job
    BY <1>3 DEF SubmitPlan, Job, JobStatuses
  <2>2. NoTask \in Task
    BY DEF NoTask, Task, TaskStatuses, Verdicts
  <2>3. \A k \in 1..n : NewTask(deps[k]) \in Task
    <3> TAKE k \in 1..n
    <3>1. deps[k] \in SUBSET Keys
      BY StoreAssumption DEF Keys
    <3> QED BY <2>2, <3>1 DEF NewTask, Task, TaskStatuses
  <2>4. task' \in [Keys -> Task]
    BY <1>3, <2>2, <2>3 DEF SubmitPlan, Keys
  <2> QED BY <1>3, <2>1, <2>4, StoreAssumption DEF SubmitPlan, Keys
<1> QED BY <1>1, <1>2, <1>3 DEF Planning

LEMMA StartedTask ==
  ASSUME NEW t \in Task, NEW run \in Runs
  PROVE  Started(t, run) \in Task
<1>1. t.writerAttempts + 1 \in Nat
  BY DEF Task
<1> QED BY <1>1 DEF Started, Task, TaskStatuses, Verdicts

LEMMA WritingTypeOK ==
  ASSUME TypeOK, NEW k \in PlanKeys, Writing(k)
  PROVE  TypeOK'
<1> USE DEF TypeOK, StoreTypeOK
<1>k. k \in Keys /\ task[k] \in Task
  BY PlanTask
<1>1. ASSUME NEW sha \in SHAs, RecordTaskBase(k, sha) PROVE TypeOK'
  BY <1>1, <1>k DEF RecordTaskBase, Task
<1>2. ASSUME NEW run \in Runs, StartTaskWork(k, run) PROVE TypeOK'
  <2>1. CASE UNCHANGED storeVars
    BY <2>1 DEF storeVars
  <2>2. CASE ~UNCHANGED storeVars
    <3>3. task' \in [Keys -> Task]
      BY <1>2, <2>2, <1>k, StartedTask DEF StartTaskWork
    <3>4. job' \in Job
      BY <1>2, <2>2 DEF StartTaskWork, Job, JobStatuses
    <3> QED BY <1>2, <2>2, <3>3, <3>4 DEF StartTaskWork
  <2> QED BY <2>1, <2>2
<1>3. ASSUME NEW run \in Runs, NEW sha \in SHAs, RecordWriterCompletion(k, run, sha)
      PROVE TypeOK'
  <2>1. CASE UNCHANGED storeVars
    BY <2>1 DEF storeVars
  <2>2. CASE ~UNCHANGED storeVars
    <3>1. [task[k] EXCEPT !.status = "reviewing", !.commit = sha,
             !.verdict = "pending"] \in Task
      BY <1>k DEF Task, TaskStatuses, Verdicts
    <3>2. task' \in [Keys -> Task]
      BY <1>3, <2>2, <1>k, <3>1 DEF RecordWriterCompletion
    <3>3. job' \in Job
      BY <1>3, <2>2 DEF RecordWriterCompletion, Job, JobStatuses
    <3> QED BY <1>3, <2>2, <3>2, <3>3 DEF RecordWriterCompletion
  <2> QED BY <2>1, <2>2
<1>4. ASSUME NEW run \in Runs, RecordNoChanges(k, run) PROVE TypeOK'
  <2>1. CASE UNCHANGED storeVars
    BY <2>1 DEF storeVars
  <2>2. CASE ~UNCHANGED storeVars
    <3>1. [task[k] EXCEPT !.status = "no_changes"] \in Task
      BY <1>k DEF Task, TaskStatuses
    <3>2. task' \in [Keys -> Task]
      BY <1>4, <2>2, <1>k, <3>1 DEF RecordNoChanges
    <3>3. job' \in Job
      BY <1>4, <2>2 DEF RecordNoChanges, Job, JobStatuses
    <3> QED BY <1>4, <2>2, <3>2, <3>3 DEF RecordNoChanges
  <2> QED BY <2>1, <2>2
<1>5. ASSUME NEW run \in Runs, RetryWriter(k, run) PROVE TypeOK'
  <2>1. [task[k] EXCEPT !.writerRun = NoRun, !.status = "planned"] \in Task
    BY <1>k DEF Task, TaskStatuses
  <2> QED BY <1>5, <1>k, <2>1 DEF RetryWriter, Job, JobStatuses
<1> QED BY <1>1, <1>2, <1>3, <1>4, <1>5 DEF Writing

LEMMA BlockTypeOK ==
  ASSUME TypeOK, NEW k \in PlanKeys, BlockTask(k)
  PROVE  TypeOK'
<1>1. k \in Keys /\ task[k] \in Task
  BY PlanTask
<1>2. [task[k] EXCEPT !.status = "blocked", !.print = NoPrint] \in Task
  BY <1>1 DEF Task, TaskStatuses
<1> QED BY <1>1, <1>2 DEF BlockTask, TypeOK, StoreTypeOK

LEMMA OwnTask ==
  ASSUME NEW t \in Task, NEW run \in Runs
  PROVE  Own(t, run) \in Task
<1>1. t.reviewerAttempts + 1 \in Nat
  BY DEF Task
<1> QED BY <1>1 DEF Own, Task

LEMMA AdoptTask ==
  ASSUME NEW t \in Task, NEW run \in Runs
  PROVE  Adopt(t, run) \in Task
BY OwnTask DEF Adopt

LEMMA FileTask ==
  ASSUME NEW t \in Task, NEW report \in Report
  PROVE  File(t, report) \in Task
<1>1. Append(t.history, report) \in Seq(Report)
  BY DEF Task
<1> QED BY <1>1 DEF File, Task

LEMMA ReviewingTypeOK ==
  ASSUME TypeOK, NEW k \in PlanKeys, Reviewing(k)
  PROVE  TypeOK'
<1> USE DEF TypeOK, StoreTypeOK
<1>k. k \in Keys /\ task[k] \in Task
  BY PlanTask
<1>1. ASSUME NEW run \in Runs, StartReviewer(k, run) PROVE TypeOK'
  BY <1>1, <1>k, OwnTask DEF StartReviewer, storeVars
<1>2. ASSUME NEW run \in Runs, NEW verdict \in Verdicts, NEW feedback \in Feedbacks,
             RecordReviewReport(k, run, verdict, feedback)
      PROVE  TypeOK'
  <2> DEFINE report == [run |-> run, verdict |-> verdict, feedback |-> feedback,
                        commit |-> task[k].commit]
  <2>1. report \in Report
    BY <1>k DEF Report, Task
  <2>2. File(Adopt(task[k], run), report) \in Task
    BY <1>k, <2>1, AdoptTask, FileTask
  <2> HIDE DEF report
  <2>3. task' = [task EXCEPT ![k] = File(Adopt(task[k], run), report)]
    BY <1>2 DEF RecordReviewReport, report
  <2> QED BY <1>2, <1>k, <2>2, <2>3 DEF RecordReviewReport
<1>3. ASSUME NEW run \in Runs, NEW verdict \in Verdicts, RecordReview(k, run, verdict)
      PROVE  TypeOK'
  <2>1. CASE UNCHANGED storeVars
    BY <2>1 DEF storeVars
  <2>2. CASE ~UNCHANGED storeVars
    <3> DEFINE t == Adopt(task[k], run)
               owned == IF t.reviewerRun = NoRun THEN Own(t, run) ELSE t
    <3>1. owned \in Task
      BY <1>k, AdoptTask, OwnTask
    <3>2. task' = [task EXCEPT ![k] = [owned EXCEPT !.verdict = verdict,
                                          !.status = ReviewedStatus(k, verdict)]]
      BY <1>3, <2>2 DEF RecordReview
    <3>3. ReviewedStatus(k, verdict) \in TaskStatuses
      BY DEF ReviewedStatus, Verdicts, TaskStatuses
    <3> HIDE DEF owned
    <3>4. [owned EXCEPT !.verdict = verdict,
                        !.status = ReviewedStatus(k, verdict)] \in Task
      BY <3>1, <3>3 DEF Task
    <3> QED BY <1>3, <2>2, <1>k, <3>2, <3>4 DEF RecordReview
  <2> QED BY <2>1, <2>2
<1> QED BY <1>1, <1>2, <1>3 DEF Reviewing

LEMMA IntegratingTypeOK ==
  ASSUME TypeOK, NEW k \in PlanKeys, Integrating(k)
  PROVE  TypeOK'
<1> USE DEF TypeOK, StoreTypeOK
<1>k. k \in Keys /\ task[k] \in Task
  BY PlanTask
<1>s. \A t \in Task, s \in TaskStatuses : [t EXCEPT !.status = s] \in Task
  BY DEF Task
<1>1. CASE StartIntegration(k)
  BY <1>1, <1>k, <1>s DEF StartIntegration, Job, JobStatuses, TaskStatuses
<1>2. ASSUME NEW sha \in SHAs, RecordIntegration(k, sha) PROVE TypeOK'
  <2> DEFINE merged == [task EXCEPT ![k].status = "integrated"]
  <2>1. merged \in [Keys -> Task]
    BY <1>k, <1>s DEF TaskStatuses
  <2>2. task' = [j \in Keys |->
                   IF /\ j \in PlanKeys
                      /\ merged[j].status = "approved"
                      /\ IntegrationPrerequisitesMet(merged, j)
                   THEN [merged[j] EXCEPT !.status = "integration_eligible"]
                   ELSE merged[j]]
    BY <1>2 DEF RecordIntegration
  <2> HIDE DEF merged
  <2>3. task' \in [Keys -> Task]
    BY <2>1, <2>2, <1>s DEF TaskStatuses
  <2>4. job' \in Job
    BY <1>2 DEF RecordIntegration, Job, JobStatuses
  <2> QED BY <1>2, <2>3, <2>4 DEF RecordIntegration
<1> QED BY <1>1, <1>2 DEF Integrating

LEMMA PublishingTypeOK == TypeOK /\ Publishing => TypeOK'
<1> SUFFICES ASSUME TypeOK, Publishing PROVE TypeOK'
  OBVIOUS
<1> USE DEF TypeOK, StoreTypeOK, Job
<1>1. ASSUME NEW run \in Runs, NEW sha \in SHAs, StartHolisticReviewer(run, sha)
      PROVE  TypeOK'
  BY <1>1 DEF StartHolisticReviewer
<1>2. ASSUME NEW run \in Runs, NEW sha \in SHAs, NEW verdict \in Verdicts,
             NEW content \in BOOLEAN, RecordHolisticReview(run, sha, verdict, content)
      PROVE  TypeOK'
  BY <1>2 DEF RecordHolisticReview, JobStatuses, storeVars
<1>3. ASSUME NEW sha \in SHAs, StartHolisticRereview(sha) PROVE TypeOK'
  BY <1>3 DEF StartHolisticRereview, JobStatuses, storeVars
<1>4. CASE RecordPullRequest
  BY <1>4 DEF RecordPullRequest, MergeStates, storeVars
<1>5. CASE RecordMerge
  BY <1>5 DEF RecordMerge, MergeStates, JobStatuses, storeVars
<1>6. CASE FailJob
  BY <1>6 DEF FailJob, JobStatuses
<1> QED BY <1>1, <1>2, <1>3, <1>4, <1>5, <1>6 DEF Publishing

LEMMA RemediationTask ==
  ASSUME NEW sha \in SHAs \union {NoSHA}, NEW print \in Prints
  PROVE  Remediation(sha, print) \in Task
<1>1. NoTask \in Task
  BY DEF NoTask, Task, TaskStatuses, Verdicts
<1>2. NewTask({}) \in Task
  BY <1>1 DEF NewTask, Task, TaskStatuses
<1> QED BY <1>2 DEF Remediation, Task

LEMMA CIPollingTypeOK == TypeOK /\ CIPolling => TypeOK'
<1> SUFFICES ASSUME TypeOK, CIPolling PROVE TypeOK'
  OBVIOUS
<1> USE DEF TypeOK, StoreTypeOK
<1>1. ASSUME NEW sha \in SHAs, StartCI(sha) PROVE TypeOK'
  BY <1>1 DEF StartCI, Job, JobStatuses, CI, CIStates, storeVars
<1>2. ASSUME NEW print \in Prints, StartCIRemediation(print) PROVE TypeOK'
  <2>1. CASE FailJob
    BY <2>1 DEF FailJob, Job, JobStatuses
  <2>2. CASE UNCHANGED storeVars
    BY <2>2 DEF storeVars
  <2>3. CASE ~FailJob /\ ~UNCHANGED storeVars
    <3>1. ci.head \in SHAs \union {NoSHA}
      BY DEF CI
    <3>2. planned + 1 \in 1..MaxTasks
      BY <1>2, <2>3, StoreAssumption DEF SameFailures, StartCIRemediation
    <3>3. task' \in [Keys -> Task]
      BY <1>2, <2>3, <3>1, <3>2, RemediationTask DEF SameFailures, StartCIRemediation, Keys
    <3>4. job' \in Job
      BY <1>2, <2>3 DEF SameFailures, StartCIRemediation, Remediating, Job, JobStatuses
    <3> QED BY <1>2, <2>3, <3>2, <3>3, <3>4 DEF SameFailures, StartCIRemediation
  <2> QED BY <1>2, <2>1, <2>2, <2>3
<1> QED BY <1>1, <1>2 DEF CIPolling

LEMMA RecordCITypeOK ==
  ASSUME TypeOK, NEW sha, NEW state \in CIStates,
         NEW print \in Prints \union {NoPrint}, RecordCI(sha, state, print)
  PROVE  TypeOK'
<1> USE DEF TypeOK, StoreTypeOK
<1>1. CASE UNCHANGED storeVars
  BY <1>1 DEF storeVars
<1>2. CASE ~UNCHANGED storeVars
  <2>1. CIStatus(state) \in JobStatuses
    BY DEF CIStatus, CIStates, JobStatuses, Job
  <2>2. job' \in Job
    BY <1>2, <2>1 DEF RecordCI, Job
  <2>3. ci' \in CI
    BY <1>2 DEF RecordCI, CI
  <2>4. failures' \in [Prints -> Nat]
    BY <1>2 DEF RecordCI
  <2> QED BY <1>2, <2>2, <2>3, <2>4 DEF RecordCI
<1> QED BY <1>1, <1>2

\* What a poll records.
LEMMA CIResult ==
  ASSUME CIResults
  PROVE  \E sha \in SHAs, state \in CIStates, print \in Prints \union {NoPrint} :
            RecordCI(sha, state, print)
BY DEF CIResults, CIStates

LEMMA NextTypeOK == TypeOK /\ [Next]_storeVars => TypeOK'
<1> SUFFICES ASSUME TypeOK, [Next]_storeVars PROVE TypeOK'
  OBVIOUS
<1>1. CASE UNCHANGED storeVars
  BY <1>1 DEF TypeOK, StoreTypeOK, storeVars
<1>2. CASE CIResults
  BY <1>2, CIResult, RecordCITypeOK
<1> QED BY <1>1, <1>2, PlanningTypeOK, WritingTypeOK, BlockTypeOK, ReviewingTypeOK,
           IntegratingTypeOK, PublishingTypeOK, CIPollingTypeOK DEF Next, Guarded

\* The job record keeps its type: every field of the job, of its CI record and
\* of every task stays in the range the Go types and constants give it.
THEOREM TypeCorrect == Spec => []TypeOK
BY InitTypeOK, NextTypeOK, PTL DEF Spec

----------------------------------------------------------------------------
(* The inductive invariants.  TasksSound holds of each task alone and adds *)
(* to the three per-task invariants that a task under review has a commit; *)
(* OInv relates the tasks to each other and to the job.                    *)

TaskSound(t) ==
    /\ Ledger(t)
    /\ ApprovedWork(t)
    /\ DistinctReports(t)
    /\ t.status = "reviewing" => t.commit # NoSHA

TasksSound == \A k \in PlanKeys : TaskSound(task[k])

SInv == TypeOK /\ TasksSound
OInv == IntegrationInOrder /\ WholePlanFinished

\* Every step keeps the first invariant, and every orderly step the second.
Keeps == SInv' /\ (OInv => OInv')

LEMMA NewTaskSound == ASSUME NEW deps PROVE TaskSound(NewTask(deps))
BY DEF TaskSound, Ledger, ApprovedWork, Approved, DistinctReports, NewTask, NoTask

LEMMA RemediationSound ==
  ASSUME NEW head, NEW print PROVE TaskSound(Remediation(head, print))
BY DEF TaskSound, Ledger, ApprovedWork, Approved, DistinctReports, NewTask, NoTask,
       Remediation

LEMMA StartedSound ==
  ASSUME NEW t \in Task, TaskSound(t), NEW run \in Runs
  PROVE  TaskSound(Started(t, run))
<1>1. /\ t.reviewerAttempts \in Nat /\ t.writerAttempts \in Nat
      /\ t.reviewerAttempts <= t.writerAttempts
  BY DEF TaskSound, Ledger, Task
<1> DEFINE s == Started(t, run)
<1>2. /\ s.status = "working" /\ s.history = t.history
      /\ s.reviewerAttempts = t.reviewerAttempts
      /\ s.writerAttempts = t.writerAttempts + 1
  BY DEF Started, Task
<1> HIDE DEF s
<1>3. Ledger(s) /\ ApprovedWork(s) /\ DistinctReports(s)
  BY <1>1, <1>2 DEF Ledger, ApprovedWork, Approved, DistinctReports, TaskSound
<1> QED BY <1>2, <1>3 DEF TaskSound, s

\* A task that leaves work for a status outside review and approval.
LEMMA SetAsideSound ==
  ASSUME NEW t \in Task, TaskSound(t), NEW u \in Task,
         u.status \notin Approved \union {"working", "reviewing"},
         u.reviewerAttempts = t.reviewerAttempts,
         u.writerAttempts = t.writerAttempts,
         u.history = t.history
  PROVE  TaskSound(u)
BY DEF TaskSound, Ledger, ApprovedWork, DistinctReports

LEMMA CompletedSound ==
  ASSUME NEW t \in Task, TaskSound(t), t.status = "working", NEW sha \in SHAs
  PROVE  TaskSound([t EXCEPT !.status = "reviewing", !.commit = sha,
                             !.verdict = "pending"])
<1> DEFINE u == [t EXCEPT !.status = "reviewing", !.commit = sha,
                          !.verdict = "pending"]
<1>1. /\ u.status = "reviewing" /\ u.commit = sha /\ u.history = t.history
      /\ u.reviewerAttempts = t.reviewerAttempts
      /\ u.writerAttempts = t.writerAttempts /\ u.reviewerRun = t.reviewerRun
  BY DEF Task
<1> HIDE DEF u
<1>2. sha # NoSHA
  BY StoreAssumption DEF SHAs, NoSHA
<1>3. TaskSound(u)
  BY <1>1, <1>2 DEF TaskSound, Ledger, ApprovedWork, Approved, DistinctReports
<1> QED BY <1>3 DEF u

LEMMA OwnSound ==
  ASSUME NEW t \in Task, TaskSound(t), t.status = "reviewing", NEW run \in Runs,
         t.reviewerAttempts < t.writerAttempts
  PROVE  TaskSound(Own(t, run))
<1> DEFINE u == Own(t, run)
<1>1. /\ u.status = t.status /\ u.commit = t.commit /\ u.history = t.history
      /\ u.verdict = t.verdict /\ u.reviewerRun = run
      /\ u.reviewerAttempts = t.reviewerAttempts + 1
      /\ u.writerAttempts = t.writerAttempts
      /\ t.reviewerAttempts \in Nat /\ t.writerAttempts \in Nat
  BY DEF Task, Own
<1> HIDE DEF u
<1>2. run # NoRun
  BY StoreAssumption
<1>3. TaskSound(u)
  BY <1>1, <1>2 DEF TaskSound, Ledger, ApprovedWork, Approved, DistinctReports
<1> QED BY <1>3 DEF u

LEMMA AdoptSound ==
  ASSUME NEW t \in Task, TaskSound(t), NEW run \in Runs
  PROVE  TaskSound(Adopt(t, run))
BY OwnSound DEF Adopt

LEMMA FileSound ==
  ASSUME NEW t \in Task, TaskSound(t), NEW report \in Report
  PROVE  TaskSound(File(t, report))
<1>1. CASE File(t, report) = t
  BY <1>1
<1>2. CASE /\ File(t, report) = [t EXCEPT !.history = Append(@, report)]
           /\ \A i \in DOMAIN t.history : t.history[i].run # report.run
  <2> DEFINE u == [t EXCEPT !.history = Append(@, report)]
  <2>1. /\ u.status = t.status /\ u.commit = t.commit /\ u.verdict = t.verdict
        /\ u.reviewerRun = t.reviewerRun
        /\ u.reviewerAttempts = t.reviewerAttempts
        /\ u.writerAttempts = t.writerAttempts
        /\ u.history = Append(t.history, report)
    BY DEF Task
  <2> HIDE DEF u
  <2>2. t.history \in Seq(Report)
    BY DEF Task
  <2>3. /\ DOMAIN u.history = 1..(Len(t.history) + 1)
        /\ Len(t.history) \in Nat
        /\ DOMAIN t.history = 1..Len(t.history)
        /\ u.history[Len(t.history) + 1] = report
        /\ \A i \in 1..Len(t.history) : u.history[i] = t.history[i]
    BY <2>1, <2>2
  <2>4. DistinctReports(u)
    BY <1>2, <2>3 DEF DistinctReports, TaskSound
  <2>5. TaskSound(u)
    BY <2>1, <2>4 DEF TaskSound, Ledger, ApprovedWork
  <2> QED BY <1>2, <2>5 DEF u
<1> QED BY <1>1, <1>2 DEF File

\* The owner's verdict, given on a task under review.
LEMMA ReviewedSound ==
  ASSUME NEW t \in Task, TaskSound(t), t.status = "reviewing",
         t.reviewerRun \in Runs, NEW verdict \in Verdicts, NEW status \in TaskStatuses,
         status \in Approved => verdict = "approved",
         status \notin {"working", "reviewing"}
  PROVE  TaskSound([t EXCEPT !.verdict = verdict, !.status = status])
<1> DEFINE u == [t EXCEPT !.verdict = verdict, !.status = status]
<1>1. /\ u.status = status /\ u.commit = t.commit /\ u.verdict = verdict
      /\ u.reviewerRun = t.reviewerRun /\ u.history = t.history
      /\ u.reviewerAttempts = t.reviewerAttempts
      /\ u.writerAttempts = t.writerAttempts
  BY DEF Task
<1> HIDE DEF u
<1>2. t.reviewerRun # NoRun
  BY StoreAssumption
<1>3. TaskSound(u)
  BY <1>1, <1>2 DEF TaskSound, Ledger, ApprovedWork, DistinctReports
<1> QED BY <1>3 DEF u

\* A step along the integration, within the approved statuses.
LEMMA AdvanceSound ==
  ASSUME NEW t \in Task, TaskSound(t), t.status \in Approved, NEW status \in Approved
  PROVE  TaskSound([t EXCEPT !.status = status])
<1> DEFINE u == [t EXCEPT !.status = status]
<1>1. /\ u.status = status /\ u.commit = t.commit /\ u.verdict = t.verdict
      /\ u.reviewerRun = t.reviewerRun /\ u.history = t.history
      /\ u.reviewerAttempts = t.reviewerAttempts
      /\ u.writerAttempts = t.writerAttempts
  BY DEF Task
<1> HIDE DEF u
<1>2. TaskSound(u)
  BY <1>1 DEF TaskSound, Ledger, ApprovedWork, Approved, DistinctReports
<1> QED BY <1>2 DEF u

----------------------------------------------------------------------------
(* Steps of one task, seen from the plan. *)

Late == {"integration_eligible", "integrating", "integrated"}

\* Replacing one task by a sound one keeps the tasks sound.
LEMMA SoundStep ==
  ASSUME SInv, NEW k \in PlanKeys, NEW t \in Task, TaskSound(t),
         task' = [task EXCEPT ![k] = t], planned' = planned
  PROVE  TasksSound'
<1>1. task \in [Keys -> Task] /\ PlanKeys' = PlanKeys
  BY DEF SInv, TypeOK, StoreTypeOK, PlanKeys
<1>2. \A j \in PlanKeys : j \in Keys /\ task'[j] = IF j = k THEN t ELSE task[j]
  BY <1>1, PlanTask DEF SInv
<1> QED BY <1>1, <1>2 DEF TasksSound, SInv

\* Replacing it by one that is no less finished, and no further into the
\* integration than its prerequisites allow, keeps the plan in order.
LEMMA OrderStep ==
  ASSUME SInv, NEW k \in PlanKeys, NEW t \in Task,
         task' = [task EXCEPT ![k] = t], planned' = planned,
         Finished(task[k]) => Finished(t),
         t.status \in Late => \/ task[k].status \in Late
                              \/ IntegrationPrerequisitesMet(task, k)
  PROVE  /\ IntegrationInOrder => IntegrationInOrder'
         /\ AllTasksIntegrated(task) => AllTasksIntegrated(task)'
<1>1. task \in [Keys -> Task] /\ PlanKeys' = PlanKeys
  BY DEF SInv, TypeOK, StoreTypeOK, PlanKeys
<1>2. \A j \in PlanKeys : j \in Keys /\ task'[j] = IF j = k THEN t ELSE task[j]
  BY <1>1, PlanTask DEF SInv
<1>3. \A j \in PlanKeys : Finished(task[j]) => Finished(task'[j])
  BY <1>2
<1>4. ASSUME IntegrationInOrder PROVE IntegrationInOrder'
  <2> SUFFICES ASSUME NEW j \in PlanKeys, task'[j].status \in Late
               PROVE  IntegrationPrerequisitesMet(task', j)
    BY <1>1 DEF IntegrationInOrder, Late
  <2>1. IntegrationPrerequisitesMet(task, j)
    BY <1>2, <1>4 DEF IntegrationInOrder, Late
  <2>2. \A i \in 1..(j - 1) : i \in PlanKeys
    BY StoreAssumption DEF PlanKeys, SInv, TypeOK, StoreTypeOK
  <2> QED BY <1>3, <2>1, <2>2 DEF IntegrationPrerequisitesMet
<1>5. AllTasksIntegrated(task) => AllTasksIntegrated(task)'
  BY <1>1, <1>3 DEF AllTasksIntegrated
<1> QED BY <1>4, <1>5

Whole == {"holistic_reviewing", "awaiting_ci", "ready_to_publish", "no_changes"}

LEMMA UnchangedKeeps == SInv /\ UNCHANGED storeVars => Keeps
BY DEF Keeps, SInv, OInv, TypeOK, StoreTypeOK, TasksSound, IntegrationInOrder,
       WholePlanFinished, IntegrationPrerequisitesMet, AllTasksIntegrated, PlanKeys,
       storeVars

\* A step that leaves the plan alone keeps the invariants if it calls the plan
\* whole only when it was, or when it is.
LEMMA JobStep ==
  ASSUME SInv, TypeOK', UNCHANGED <<planned, task>>,
         OInv /\ job'.status \in Whole => AllTasksIntegrated(task)
  PROVE  Keeps
BY DEF Keeps, SInv, OInv, TasksSound, IntegrationInOrder, WholePlanFinished, Whole,
       IntegrationPrerequisitesMet, AllTasksIntegrated, PlanKeys

LEMMA WholeTasks ==
  ASSUME OInv, job.status \in Whole, NEW k \in PlanKeys
  PROVE  Finished(task[k])
BY DEF OInv, WholePlanFinished, Whole, AllTasksIntegrated

LEMMA InitInv == Init => SInv /\ OInv
<1> SUFFICES ASSUME Init PROVE SInv /\ OInv
  OBVIOUS
<1>1. PlanKeys = {} /\ job.status = "created"
  BY DEF Init, Create, PlanKeys
<1> QED BY <1>1, InitTypeOK
        DEF SInv, OInv, TasksSound, IntegrationInOrder, WholePlanFinished

LEMMA PlanningKeeps == SInv /\ Planning => Keeps
<1> SUFFICES ASSUME SInv, Planning PROVE Keeps
  OBVIOUS
<1>t. TypeOK'
  BY PlanningTypeOK DEF SInv
<1>j. job \in Job
  BY DEF SInv, TypeOK, StoreTypeOK
<1>1. CASE MarkFoundationPending
  <2>1. job'.status = "created"
    BY <1>1, <1>j DEF MarkFoundationPending, Job
  <2> QED BY <1>1, <1>t, <2>1, JobStep DEF MarkFoundationPending, Whole
<1>2. CASE StartPlanning
  <2>1. job'.status = "planning"
    BY <1>2, <1>j DEF StartPlanning, Job
  <2> QED BY <1>2, <1>t, <2>1, JobStep DEF StartPlanning, Whole
<1>3. ASSUME NEW n \in Keys, NEW deps \in [1..n -> SUBSET (1..n)],
             SubmitPlan(n, deps)
      PROVE  Keeps
  <2>1. job'.status = "planned"
    BY <1>3, <1>j DEF SubmitPlan, Job
  <2>2. \A k \in PlanKeys' : task'[k] = NewTask(deps[k])
    BY <1>3, StoreAssumption DEF SubmitPlan, PlanKeys, Keys
  <2>3. TasksSound'
    BY <2>2, NewTaskSound DEF TasksSound
  <2>4. IntegrationInOrder'
    BY <2>2 DEF IntegrationInOrder, NewTask, NoTask
  <2> QED BY <1>t, <2>1, <2>3, <2>4 DEF Keeps, SInv, OInv, WholePlanFinished
<1> QED BY <1>1, <1>2, <1>3 DEF Planning

LEMMA WritingKeeps ==
  ASSUME SInv, NEW k \in PlanKeys, Writing(k)
  PROVE  Keeps
<1>t. TypeOK'
  BY WritingTypeOK DEF SInv
<1>k. k \in Keys /\ task[k] \in Task /\ TaskSound(task[k]) /\ job \in Job
  BY PlanTask DEF SInv, TasksSound, TypeOK, StoreTypeOK
<1>1. ASSUME NEW sha \in SHAs, RecordTaskBase(k, sha) PROVE Keeps
  <2> DEFINE t == [task[k] EXCEPT !.base = sha]
  <2>1. /\ t \in Task /\ t.status = task[k].status /\ t.verdict = task[k].verdict
        /\ t.commit = task[k].commit /\ t.reviewerRun = task[k].reviewerRun
        /\ t.history = task[k].history
        /\ t.reviewerAttempts = task[k].reviewerAttempts
        /\ t.writerAttempts = task[k].writerAttempts
    BY <1>k DEF Task
  <2>2. task' = [task EXCEPT ![k] = t] /\ planned' = planned /\ job' = job
    BY <1>1 DEF RecordTaskBase
  <2> HIDE DEF t
  <2>3. TaskSound(t)
    BY <1>k, <2>1 DEF TaskSound, Ledger, ApprovedWork, DistinctReports
  <2>4. Finished(task[k]) => Finished(t)
    BY <2>1 DEF Finished
  <2>5. /\ TasksSound'
        /\ IntegrationInOrder => IntegrationInOrder'
        /\ AllTasksIntegrated(task) => AllTasksIntegrated(task)'
    BY <2>1, <2>2, <2>3, <2>4, SoundStep, OrderStep
  <2> QED BY <1>t, <2>2, <2>5 DEF Keeps, SInv, OInv, WholePlanFinished
<1>2. ASSUME NEW run \in Runs, StartTaskWork(k, run), ~UNCHANGED storeVars PROVE Keeps
  <2> DEFINE t == Started(task[k], run)
  <2>1. t \in Task /\ TaskSound(t)
    BY <1>k, StartedTask, StartedSound
  <2>2. t.status = "working"
    BY <1>k DEF Started, Task
  <2>3. /\ task' = [task EXCEPT ![k] = t] /\ planned' = planned
        /\ ~Finished(task[k]) /\ job'.status = "working"
    BY <1>2, <1>k DEF StartTaskWork, Finished, Job
  <2> HIDE DEF t
  <2>4. TasksSound' /\ (IntegrationInOrder => IntegrationInOrder')
    BY <2>1, <2>2, <2>3, SoundStep, OrderStep DEF Late
  <2> QED BY <1>t, <2>3, <2>4 DEF Keeps, SInv, OInv, WholePlanFinished
<1>3. ASSUME NEW run \in Runs, NEW sha \in SHAs,
             RecordWriterCompletion(k, run, sha), ~UNCHANGED storeVars
      PROVE  Keeps
  <2> DEFINE t == [task[k] EXCEPT !.status = "reviewing", !.commit = sha,
                                  !.verdict = "pending"]
  <2>1. /\ task' = [task EXCEPT ![k] = t] /\ planned' = planned
        /\ task[k].status = "working" /\ job'.status = "reviewing"
    BY <1>3, <1>k DEF RecordWriterCompletion, Job
  <2>2. t \in Task /\ t.status = "reviewing"
    BY <1>k DEF Task, TaskStatuses, Verdicts
  <2>3. TaskSound(t)
    BY <1>k, <2>1, CompletedSound
  <2> HIDE DEF t
  <2>4. TasksSound' /\ (IntegrationInOrder => IntegrationInOrder')
    BY <2>1, <2>2, <2>3, SoundStep, OrderStep DEF Late, Finished
  <2> QED BY <1>t, <2>1, <2>4 DEF Keeps, SInv, OInv, WholePlanFinished
<1>4. ASSUME NEW run \in Runs, RecordNoChanges(k, run), ~UNCHANGED storeVars
      PROVE  Keeps
  <2> DEFINE t == [task[k] EXCEPT !.status = "no_changes"]
  <2>1. /\ task' = [task EXCEPT ![k] = t] /\ planned' = planned
        /\ task[k].status = "working"
    BY <1>4, <1>k DEF RecordNoChanges
  <2>2. /\ t \in Task /\ t.status = "no_changes" /\ t.history = task[k].history
        /\ t.reviewerAttempts = task[k].reviewerAttempts
        /\ t.writerAttempts = task[k].writerAttempts
    BY <1>k DEF Task, TaskStatuses
  <2> HIDE DEF t
  <2>3. TaskSound(t)
    BY <1>k, <2>2, SetAsideSound DEF Approved
  <2>4. TasksSound' /\ (IntegrationInOrder => IntegrationInOrder')
    BY <2>1, <2>2, <2>3, SoundStep, OrderStep DEF Late, Finished
  <2>5. job'.status \in Whole => job.status \in Whole \/ AllTasksIntegrated(task')
    BY <1>4, <2>1, <1>k DEF RecordNoChanges, Whole
  <2>6. OInv => job.status \notin Whole
    BY <2>1, WholeTasks DEF Finished
  <2>7. AllTasksIntegrated(task)' = AllTasksIntegrated(task')
    BY <2>1 DEF AllTasksIntegrated, PlanKeys
  <2> QED BY <1>t, <2>4, <2>5, <2>6, <2>7 DEF Keeps, SInv, OInv, WholePlanFinished, Whole
<1>5. ASSUME NEW run \in Runs, RetryWriter(k, run) PROVE Keeps
  <2> DEFINE t == [task[k] EXCEPT !.writerRun = NoRun, !.status = "planned"]
  <2>1. /\ task' = [task EXCEPT ![k] = t] /\ planned' = planned
        /\ task[k].status = "working" /\ job'.status = "planned"
    BY <1>5, <1>k DEF RetryWriter, Job
  <2>2. /\ t \in Task /\ t.status = "planned" /\ t.history = task[k].history
        /\ t.reviewerAttempts = task[k].reviewerAttempts
        /\ t.writerAttempts = task[k].writerAttempts
    BY <1>k DEF Task, TaskStatuses
  <2> HIDE DEF t
  <2>3. TaskSound(t)
    BY <1>k, <2>2, SetAsideSound DEF Approved
  <2>4. TasksSound' /\ (IntegrationInOrder => IntegrationInOrder')
    BY <2>1, <2>2, <2>3, SoundStep, OrderStep DEF Late, Finished
  <2> QED BY <1>t, <2>1, <2>4 DEF Keeps, SInv, OInv, WholePlanFinished
<1> QED BY <1>1, <1>2, <1>3, <1>4, <1>5, UnchangedKeeps DEF Writing

LEMMA BlockKeeps ==
  ASSUME SInv, NEW k \in PlanKeys, BlockTask(k)
  PROVE  SInv' /\ (OInv /\ ~Finished(task[k]) => OInv')
<1>t. TypeOK'
  BY BlockTypeOK DEF SInv
<1>k. k \in Keys /\ task[k] \in Task /\ TaskSound(task[k])
  BY PlanTask DEF SInv, TasksSound
<1>1. CASE task[k].status = "blocked"
  <2>1. UNCHANGED storeVars
    BY <1>1, <1>k DEF BlockTask, storeVars, SInv, TypeOK, StoreTypeOK
  <2> QED BY <2>1, UnchangedKeeps DEF Keeps
<1>2. CASE task[k].status # "blocked"
  <2> DEFINE t == [task[k] EXCEPT !.status = "blocked", !.print = NoPrint]
  <2>1. task' = [task EXCEPT ![k] = t] /\ planned' = planned /\ job' = job
    BY <1>2, <1>k DEF BlockTask
  <2>2. /\ t \in Task /\ t.status = "blocked" /\ t.history = task[k].history
        /\ t.reviewerAttempts = task[k].reviewerAttempts
        /\ t.writerAttempts = task[k].writerAttempts
    BY <1>k DEF Task, TaskStatuses
  <2> HIDE DEF t
  <2>3. TaskSound(t)
    BY <1>k, <2>2, SetAsideSound DEF Approved
  <2>4. TasksSound'
    BY <2>1, <2>2, <2>3, SoundStep
  <2>5. ASSUME OInv, ~Finished(task[k]) PROVE OInv'
    <3>1. job.status \notin Whole
      BY <2>5, WholeTasks
    <3>2. IntegrationInOrder'
      BY <2>1, <2>2, <2>5, OrderStep DEF Late, OInv
    <3> QED BY <2>1, <3>1, <3>2 DEF OInv, WholePlanFinished, Whole
  <2> QED BY <1>t, <2>4, <2>5 DEF SInv
<1> QED BY <1>1, <1>2

LEMMA ReviewingKeeps ==
  ASSUME SInv, NEW k \in PlanKeys, Reviewing(k)
  PROVE  Keeps
<1>t. TypeOK'
  BY ReviewingTypeOK DEF SInv
<1>k. k \in Keys /\ task[k] \in Task /\ TaskSound(task[k])
  BY PlanTask DEF SInv, TasksSound
\* Every review step replaces task k alone.
<1>s. ASSUME NEW t \in Task, TaskSound(t), task' = [task EXCEPT ![k] = t],
             planned' = planned, job' = job, Finished(task[k]) => Finished(t),
             t.status \in Late => \/ task[k].status \in Late
                                  \/ IntegrationPrerequisitesMet(task, k)
      PROVE  Keeps
  <2>1. /\ TasksSound'
        /\ IntegrationInOrder => IntegrationInOrder'
        /\ AllTasksIntegrated(task) => AllTasksIntegrated(task)'
    BY <1>s, SoundStep, OrderStep
  <2> QED BY <1>t, <1>s, <2>1 DEF Keeps, SInv, OInv, WholePlanFinished
<1>1. ASSUME NEW run \in Runs, StartReviewer(k, run), ~UNCHANGED storeVars PROVE Keeps
  <2>1. /\ task' = [task EXCEPT ![k] = Own(task[k], run)]
        /\ planned' = planned /\ job' = job
        /\ task[k].status = "reviewing" /\ task[k].reviewerRun = NoRun
    BY <1>1 DEF StartReviewer
  <2>2. task[k].reviewerAttempts < task[k].writerAttempts
    BY <1>k, <2>1 DEF TaskSound, Ledger
  <2>3. Own(task[k], run) \in Task /\ TaskSound(Own(task[k], run))
    BY <1>k, <2>1, <2>2, OwnTask, OwnSound
  <2>4. Own(task[k], run).status = task[k].status
    BY <1>k DEF Own, Task
  <2> QED BY <1>s, <2>1, <2>3, <2>4 DEF Late, Finished
<1>2. ASSUME NEW run \in Runs, NEW verdict \in Verdicts, NEW feedback \in Feedbacks,
             RecordReviewReport(k, run, verdict, feedback)
      PROVE  Keeps
  <2> DEFINE report == [run |-> run, verdict |-> verdict, feedback |-> feedback,
                        commit |-> task[k].commit]
             a == Adopt(task[k], run)
  <2>1. report \in Report
    BY <1>k DEF Report, Task
  <2>2. task' = [task EXCEPT ![k] = File(a, report)] /\ planned' = planned /\ job' = job
    BY <1>2 DEF RecordReviewReport
  <2>3. a \in Task /\ TaskSound(a)
    BY <1>k, AdoptTask, AdoptSound
  <2>4. a.status = task[k].status
    BY <1>k DEF Adopt, Own, Task
  <2> HIDE DEF report, a
  <2>5. File(a, report) \in Task /\ TaskSound(File(a, report))
    BY <2>1, <2>3, FileTask, FileSound
  <2>6. File(a, report).status = task[k].status
    BY <2>3, <2>4 DEF File, Task
  <2> QED BY <1>s, <2>2, <2>5, <2>6 DEF Finished
<1>3. ASSUME NEW run \in Runs, NEW verdict \in Verdicts, RecordReview(k, run, verdict),
             ~UNCHANGED storeVars
      PROVE  Keeps
  <2> DEFINE a == Adopt(task[k], run)
             owned == IF a.reviewerRun = NoRun THEN Own(a, run) ELSE a
             t == [owned EXCEPT !.verdict = verdict, !.status = ReviewedStatus(k, verdict)]
  <2>1. /\ task[k].status = "reviewing" /\ owned.reviewerRun = run
        /\ task' = [task EXCEPT ![k] = t] /\ planned' = planned /\ job' = job
    BY <1>3 DEF RecordReview
  <2>2. a \in Task /\ TaskSound(a) /\ a.status = "reviewing"
    <3>1. a.status = task[k].status
      BY <1>k DEF Adopt, Own, Task
    <3> QED BY <1>k, <2>1, <3>1, AdoptTask, AdoptSound
  <2> HIDE DEF a
  <2>3. a.reviewerRun = NoRun => a.reviewerAttempts < a.writerAttempts
    BY <2>2 DEF TaskSound, Ledger
  <2>4. owned \in Task /\ TaskSound(owned) /\ owned.status = "reviewing"
    <3>1. Own(a, run) \in Task /\ Own(a, run).status = a.status
      BY <2>2, OwnTask DEF Own, Task
    <3>2. a.reviewerRun = NoRun => TaskSound(Own(a, run))
      BY <2>2, <2>3, OwnSound
    <3> QED BY <2>2, <3>1, <3>2
  <2> HIDE DEF owned
  <2>5. /\ ReviewedStatus(k, verdict) \in TaskStatuses
        /\ ReviewedStatus(k, verdict) \in Approved => verdict = "approved"
        /\ ReviewedStatus(k, verdict) \notin {"working", "reviewing"}
        /\ ReviewedStatus(k, verdict) \in Late => IntegrationPrerequisitesMet(task, k)
    BY DEF ReviewedStatus, Verdicts, TaskStatuses, Approved, Late
  <2>6. TaskSound(t)
    BY <2>1, <2>4, <2>5, ReviewedSound
  <2>7. t \in Task /\ t.status = ReviewedStatus(k, verdict)
    BY <2>4, <2>5 DEF Task
  <2> HIDE DEF t
  <2> QED BY <1>s, <2>1, <2>5, <2>6, <2>7 DEF Finished
<1> QED BY <1>1, <1>2, <1>3, UnchangedKeeps DEF Reviewing

LEMMA IntegratingKeeps ==
  ASSUME SInv, NEW k \in PlanKeys, Integrating(k)
  PROVE  Keeps
<1>t. TypeOK'
  BY IntegratingTypeOK DEF SInv
<1>k. /\ k \in Keys /\ task[k] \in Task /\ TaskSound(task[k])
      /\ job \in Job /\ task \in [Keys -> Task]
  BY PlanTask DEF SInv, TasksSound, TypeOK, StoreTypeOK
<1>1. CASE StartIntegration(k)
  <2> DEFINE t == [task[k] EXCEPT !.status = "integrating"]
  <2>1. /\ task' = [task EXCEPT ![k] = t] /\ planned' = planned
        /\ task[k].status = "integration_eligible"
        /\ IntegrationPrerequisitesMet(task, k)
        /\ job'.status = "integrating"
    BY <1>1, <1>k DEF StartIntegration, Job
  <2>2. t \in Task /\ t.status = "integrating"
    BY <1>k DEF Task, TaskStatuses
  <2>3. TaskSound(t)
    BY <1>k, <2>1, AdvanceSound DEF Approved
  <2> HIDE DEF t
  <2>4. TasksSound' /\ (IntegrationInOrder => IntegrationInOrder')
    BY <2>1, <2>2, <2>3, SoundStep, OrderStep DEF Late, Finished
  <2> QED BY <1>t, <2>1, <2>4 DEF Keeps, SInv, OInv, WholePlanFinished
<1>2. ASSUME NEW sha \in SHAs, RecordIntegration(k, sha) PROVE Keeps
  <2> DEFINE merged == [task EXCEPT ![k].status = "integrated"]
             promoted(j) == /\ j \in PlanKeys
                            /\ merged[j].status = "approved"
                            /\ IntegrationPrerequisitesMet(merged, j)
  <2>1. /\ task[k].status = "integrating" /\ planned' = planned
        /\ PlanKeys' = PlanKeys
        /\ task' = [j \in Keys |->
                      IF promoted(j)
                      THEN [merged[j] EXCEPT !.status = "integration_eligible"]
                      ELSE merged[j]]
    BY <1>2 DEF RecordIntegration, PlanKeys
  <2>2. \A j \in PlanKeys : /\ j \in Keys /\ merged[j] \in Task
                            /\ TaskSound(merged[j])
                            /\ merged[j].status =
                                  IF j = k THEN "integrated" ELSE task[j].status
    <3> TAKE j \in PlanKeys
    <3>1. j \in Keys /\ task[j] \in Task /\ TaskSound(task[j])
      BY PlanTask DEF SInv, TasksSound
    <3>2. /\ TaskSound([task[k] EXCEPT !.status = "integrated"])
          /\ [task[k] EXCEPT !.status = "integrated"] \in Task
          /\ [task[k] EXCEPT !.status = "integrated"].status = "integrated"
      <4>1. TaskSound([task[k] EXCEPT !.status = "integrated"])
        BY <1>k, <2>1, AdvanceSound DEF Approved
      <4> QED BY <1>k, <4>1 DEF Task, TaskStatuses
    <3> QED BY <1>k, <3>1, <3>2
  <2> HIDE DEF merged
  <2>3. \A j \in PlanKeys : promoted(j) =>
          LET u == [merged[j] EXCEPT !.status = "integration_eligible"]
          IN  TaskSound(u) /\ u.status = "integration_eligible"
    <3> SUFFICES ASSUME NEW j \in PlanKeys, promoted(j)
                 PROVE  LET u == [merged[j] EXCEPT !.status = "integration_eligible"]
                        IN  TaskSound(u) /\ u.status = "integration_eligible"
      OBVIOUS
    <3>1. TaskSound([merged[j] EXCEPT !.status = "integration_eligible"])
      BY <2>2, AdvanceSound DEF Approved
    <3> QED BY <2>2, <3>1 DEF Task
  <2>4. \A j \in PlanKeys :
          task'[j] = IF promoted(j) THEN [merged[j] EXCEPT !.status = "integration_eligible"]
                     ELSE merged[j]
    BY <2>1, <2>2
  <2>5. TasksSound'
    BY <2>1, <2>2, <2>3, <2>4 DEF TasksSound
  <2>6. /\ \A j \in PlanKeys : Finished(merged[j]) => Finished(task'[j])
        /\ \A j \in PlanKeys : Finished(task[j]) => Finished(merged[j])
    BY <2>1, <2>2, <2>4 DEF Finished
  <2>7. \A j \in PlanKeys : \A i \in 1..(j - 1) : i \in PlanKeys
    BY StoreAssumption DEF PlanKeys, SInv, TypeOK, StoreTypeOK
  <2>8. ASSUME IntegrationInOrder PROVE IntegrationInOrder'
    <3> SUFFICES ASSUME NEW j \in PlanKeys, task'[j].status \in Late
                 PROVE  IntegrationPrerequisitesMet(task', j)
      BY <2>1 DEF IntegrationInOrder, Late
    <3>1. CASE promoted(j)
      BY <2>6, <2>7, <3>1 DEF IntegrationPrerequisitesMet
    <3>2. CASE ~promoted(j)
      <4>1. task[j].status \in Late
        BY <2>1, <2>2, <2>4, <3>2 DEF Late
      <4>2. IntegrationPrerequisitesMet(task, j)
        BY <2>8, <4>1 DEF IntegrationInOrder, Late
      <4> QED BY <2>6, <2>7, <4>2 DEF IntegrationPrerequisitesMet
    <3> QED BY <3>1, <3>2
  <2>9. OInv => job.status \notin Whole
    BY <2>1, WholeTasks DEF Finished
  <2>10. OInv /\ job'.status \in Whole => AllTasksIntegrated(task')
    BY <1>2, <1>k, <2>9 DEF RecordIntegration, Job
  <2>11. AllTasksIntegrated(task)' = AllTasksIntegrated(task')
    BY <2>1 DEF AllTasksIntegrated, PlanKeys
  <2> QED BY <1>t, <2>5, <2>8, <2>10, <2>11 DEF Keeps, SInv, OInv, WholePlanFinished, Whole
<1> QED BY <1>1, <1>2 DEF Integrating

LEMMA PublishingKeeps == SInv /\ Publishing => Keeps
<1> SUFFICES ASSUME SInv, Publishing PROVE Keeps
  OBVIOUS
<1>t. TypeOK'
  BY PublishingTypeOK DEF SInv
<1>j. job \in Job /\ (OInv /\ job.status \in Whole => AllTasksIntegrated(task))
  BY DEF SInv, OInv, TypeOK, StoreTypeOK, WholePlanFinished, Whole
<1>1. ASSUME NEW run \in Runs, NEW sha \in SHAs, StartHolisticReviewer(run, sha)
      PROVE  Keeps
  BY <1>1, <1>t, <1>j, JobStep DEF StartHolisticReviewer
<1>2. ASSUME NEW run \in Runs, NEW sha \in SHAs, NEW verdict \in Verdicts,
             NEW content \in BOOLEAN, RecordHolisticReview(run, sha, verdict, content)
      PROVE  Keeps
  BY <1>2, <1>t, <1>j, JobStep, UnchangedKeeps DEF RecordHolisticReview
<1>3. ASSUME NEW sha \in SHAs, StartHolisticRereview(sha) PROVE Keeps
  BY <1>3, <1>t, <1>j, JobStep, UnchangedKeeps DEF StartHolisticRereview, Whole
<1>4. CASE RecordPullRequest
  <2>1. CASE UNCHANGED storeVars
    BY <2>1, UnchangedKeeps
  <2>2. CASE ~UNCHANGED storeVars
    <3>1. job'.status = job.status /\ UNCHANGED <<planned, task>>
      BY <1>4, <2>2, <1>j DEF RecordPullRequest, Job
    <3> QED BY <1>t, <1>j, <3>1, JobStep
  <2> QED BY <2>1, <2>2
<1>5. CASE RecordMerge
  <2>1. CASE UNCHANGED storeVars
    BY <2>1, UnchangedKeeps
  <2>2. CASE ~UNCHANGED storeVars
    <3>1. job'.status = "published" /\ UNCHANGED <<planned, task>>
      BY <1>5, <2>2, <1>j DEF RecordMerge, Job
    <3> QED BY <1>t, <3>1, JobStep DEF Whole
  <2> QED BY <2>1, <2>2
<1>6. CASE FailJob
  <2>1. job'.status = "failed" /\ UNCHANGED <<planned, task>>
    BY <1>6, <1>j DEF FailJob, Job
  <2> QED BY <1>t, <2>1, JobStep DEF Whole
<1> QED BY <1>1, <1>2, <1>3, <1>4, <1>5, <1>6 DEF Publishing

LEMMA CIPollingKeeps == SInv /\ CIPolling => Keeps
<1> SUFFICES ASSUME SInv, CIPolling PROVE Keeps
  OBVIOUS
<1>t. TypeOK'
  BY CIPollingTypeOK DEF SInv
<1>j. /\ job \in Job /\ task \in [Keys -> Task] /\ planned \in 0..MaxTasks
      /\ OInv /\ job.status \in Whole => AllTasksIntegrated(task)
  BY DEF SInv, OInv, TypeOK, StoreTypeOK, WholePlanFinished, Whole
<1>1. ASSUME NEW sha \in SHAs, StartCI(sha) PROVE Keeps
  BY <1>1, <1>t, <1>j, JobStep, UnchangedKeeps DEF StartCI, Whole
<1>2. ASSUME NEW print \in Prints, StartCIRemediation(print) PROVE Keeps
  <2>1. CASE FailJob
    <3>1. job'.status = "failed" /\ UNCHANGED <<planned, task>>
      BY <2>1, <1>j DEF FailJob, Job
    <3> QED BY <1>t, <3>1, JobStep DEF Whole
  <2>2. CASE UNCHANGED storeVars
    BY <2>2, UnchangedKeeps
  <2>3. CASE ~FailJob /\ ~UNCHANGED storeVars
    <3> DEFINE r == Remediation(ci.head, print)
    <3>1. /\ planned < MaxTasks /\ planned' = planned + 1
          /\ task' = [task EXCEPT ![planned + 1] = r]
          /\ job'.status = "ci_remediating"
      BY <1>2, <2>3, <1>j DEF SameFailures, StartCIRemediation, Remediating, Job
    <3>2. TaskSound(r) /\ r.status = "planned"
      BY RemediationSound DEF Remediation, NewTask, NoTask
    <3> HIDE DEF r
    <3>3. /\ planned + 1 \in Keys /\ PlanKeys' = PlanKeys \union {planned + 1}
          /\ \A j \in PlanKeys : j \in Keys /\ j # planned + 1
          /\ \A j \in PlanKeys : \A i \in 1..(j - 1) : i \in PlanKeys
      BY <1>j, <3>1, StoreAssumption DEF Keys, PlanKeys
    <3>4. /\ \A j \in PlanKeys : task'[j] = task[j]
          /\ task'[planned + 1] = r
      BY <1>j, <3>1, <3>3
    <3>5. TasksSound'
      BY <3>2, <3>3, <3>4 DEF SInv, TasksSound
    <3>6. ASSUME IntegrationInOrder PROVE IntegrationInOrder'
      <4> SUFFICES ASSUME NEW j \in PlanKeys', task'[j].status \in Late
                   PROVE  IntegrationPrerequisitesMet(task', j)
        BY DEF IntegrationInOrder, Late
      <4>1. j \in PlanKeys
        BY <3>2, <3>3, <3>4 DEF Late
      <4>2. IntegrationPrerequisitesMet(task, j)
        BY <3>6, <4>1, <3>4 DEF IntegrationInOrder, Late
      <4> QED BY <4>1, <4>2, <3>3, <3>4 DEF IntegrationPrerequisitesMet
    <3> QED BY <1>t, <3>1, <3>5, <3>6 DEF Keeps, SInv, OInv, WholePlanFinished
  <2> QED BY <1>2, <2>1, <2>2, <2>3
<1> QED BY <1>1, <1>2 DEF CIPolling

LEMMA RecordCIKeeps ==
  ASSUME SInv, CIResults
  PROVE  SInv' /\ (OInv /\ job.status = "awaiting_ci" => OInv')
<1>1. PICK sha \in SHAs, state \in CIStates, print \in Prints \union {NoPrint} :
         RecordCI(sha, state, print)
  BY CIResult
<1>2. TypeOK'
  BY <1>1, RecordCITypeOK DEF SInv
<1>3. UNCHANGED <<planned, task>>
  BY <1>1 DEF RecordCI, storeVars
<1>4. OInv /\ job.status = "awaiting_ci" => AllTasksIntegrated(task)
  BY DEF OInv, WholePlanFinished
<1>5. TasksSound' /\ (IntegrationInOrder => IntegrationInOrder')
  BY <1>3 DEF SInv, TasksSound, IntegrationInOrder, IntegrationPrerequisitesMet, PlanKeys
<1>6. AllTasksIntegrated(task) => AllTasksIntegrated(task)'
  BY <1>3 DEF AllTasksIntegrated, PlanKeys
<1> QED BY <1>2, <1>4, <1>5, <1>6 DEF SInv, OInv, WholePlanFinished

LEMMA GuardedKeeps == SInv /\ Guarded => Keeps
BY PlanningKeeps, WritingKeeps, ReviewingKeeps, IntegratingKeeps, PublishingKeeps,
   CIPollingKeeps DEF Guarded

LEMMA NextSInv == SInv /\ [Next]_storeVars => SInv'
BY GuardedKeeps, BlockKeeps, RecordCIKeeps, UnchangedKeeps DEF Next, Keeps

LEMMA NextOInv == SInv /\ OInv /\ [OrderlyNext]_storeVars => OInv'
BY GuardedKeeps, BlockKeeps, RecordCIKeeps, UnchangedKeeps DEF OrderlyNext, Keeps

\* Every task of every reachable record is sound, whoever calls the store.
THEOREM StoreInvariant == Spec => []SInv
BY InitInv, NextSInv, PTL DEF Spec

\* An orderly store is a store, and its plan stays in order too.
THEOREM OrderlyInvariant == OrderlySpec => [](SInv /\ OInv)
<1>1. [OrderlyNext]_storeVars => [Next]_storeVars
  BY DEF OrderlyNext, Next
<1> QED BY <1>1, InitInv, NextSInv, NextOInv, PTL DEF OrderlySpec

\* A review is never counted twice, whichever run claims it in whatever order.
THEOREM AttemptsNeverSkipped == Spec => []AttemptsLedger
<1>1. SInv => AttemptsLedger
  BY DEF SInv, TasksSound, TaskSound, AttemptsLedger
<1> QED BY <1>1, StoreInvariant, PTL

\* No task gets past its review without a commit its own reviewer approved.
THEOREM NothingUnapprovedAdvances == Spec => []OnlyApprovedWorkAdvances
<1>1. SInv => OnlyApprovedWorkAdvances
  BY DEF SInv, TasksSound, TaskSound, OnlyApprovedWorkAdvances
<1> QED BY <1>1, StoreInvariant, PTL

\* The integration branch receives the tasks of the plan in their order.
THEOREM OrderedIntegration == OrderlySpec => []IntegrationInOrder
<1>1. SInv /\ OInv => IntegrationInOrder
  BY DEF OInv
<1> QED BY <1>1, OrderlyInvariant, PTL

\* Final review, CI and publication wait for every task of the plan.
THEOREM NothingLeftBehind == OrderlySpec => []WholePlanFinished
<1>1. SInv /\ OInv => WholePlanFinished
  BY DEF OInv
<1> QED BY <1>1, OrderlyInvariant, PTL

\* A review delivered again is not filed again.
THEOREM ReportsFiledOnce == Spec => []OneReportPerRun
<1>1. SInv => OneReportPerRun
  BY DEF SInv, TasksSound, TaskSound, OneReportPerRun
<1> QED BY <1>1, StoreInvariant, PTL

----------------------------------------------------------------------------
(* The action property. *)

Submitted == Approved \union {"reviewing"}

\* An approval stays with its commit; and a commit that is reviewed or approved
\* has been since its review began.
Pins(t, u) ==
    /\ t.status \in Approved /\ u.status \in Approved =>
          u.commit = t.commit /\ u.reviewerRun = t.reviewerRun
    /\ u.status \in Submitted =>
          \/ t.status \in Submitted /\ u.commit = t.commit
          \/ t.status # "reviewing" /\ u.status = "reviewing"

AllPinned == \A k \in PlanKeys : Pins(task[k], task'[k])

LEMMA OneTaskPinned ==
  ASSUME TypeOK, NEW k \in PlanKeys, NEW t, task' = [task EXCEPT ![k] = t],
         Pins(task[k], t)
  PROVE  AllPinned
BY PlanTask DEF AllPinned, Pins, TypeOK, StoreTypeOK

LEMMA WritingPins ==
  ASSUME TypeOK, NEW k \in PlanKeys, Writing(k)
  PROVE  AllPinned
<1>k. k \in Keys /\ task[k] \in Task /\ task \in [Keys -> Task]
  BY PlanTask DEF TypeOK, StoreTypeOK
<1>u. UNCHANGED task => AllPinned
  BY DEF AllPinned, Pins
<1>1. ASSUME NEW sha \in SHAs, RecordTaskBase(k, sha) PROVE AllPinned
  <2>1. Pins(task[k], [task[k] EXCEPT !.base = sha])
    BY <1>k DEF Pins, Task
  <2> QED BY <1>1, <2>1, OneTaskPinned DEF RecordTaskBase
<1>2. ASSUME NEW run \in Runs, StartTaskWork(k, run) PROVE AllPinned
  <2>1. Pins(task[k], Started(task[k], run))
    BY <1>k DEF Pins, Started, Task, Approved, Submitted
  <2> QED BY <1>2, <1>u, <2>1, OneTaskPinned DEF StartTaskWork, storeVars
<1>3. ASSUME NEW run \in Runs, NEW sha \in SHAs, RecordWriterCompletion(k, run, sha)
      PROVE  AllPinned
  <2>1. task[k].status = "working" =>
           Pins(task[k], [task[k] EXCEPT !.status = "reviewing", !.commit = sha,
                                         !.verdict = "pending"])
    BY <1>k DEF Pins, Task, Approved
  <2> QED BY <1>3, <1>u, <2>1, OneTaskPinned DEF RecordWriterCompletion, storeVars
<1>4. ASSUME NEW run \in Runs, RecordNoChanges(k, run) PROVE AllPinned
  <2>1. Pins(task[k], [task[k] EXCEPT !.status = "no_changes"])
    BY <1>k DEF Pins, Task, Approved, Submitted
  <2> QED BY <1>4, <1>u, <2>1, OneTaskPinned DEF RecordNoChanges, storeVars
<1>5. ASSUME NEW run \in Runs, RetryWriter(k, run) PROVE AllPinned
  <2>1. Pins(task[k], [task[k] EXCEPT !.writerRun = NoRun, !.status = "planned"])
    BY <1>k DEF Pins, Task, Approved, Submitted
  <2> QED BY <1>5, <2>1, OneTaskPinned DEF RetryWriter
<1> QED BY <1>1, <1>2, <1>3, <1>4, <1>5 DEF Writing

LEMMA BlockPins ==
  ASSUME TypeOK, NEW k \in PlanKeys, BlockTask(k)
  PROVE  AllPinned
<1>1. k \in Keys /\ task[k] \in Task
  BY PlanTask
<1>2. /\ Pins(task[k], task[k])
      /\ Pins(task[k], [task[k] EXCEPT !.status = "blocked", !.print = NoPrint])
  BY <1>1 DEF Pins, Task, Approved, Submitted
<1> QED BY <1>2, OneTaskPinned DEF BlockTask

LEMMA ReviewingPins ==
  ASSUME TypeOK, NEW k \in PlanKeys, Reviewing(k)
  PROVE  AllPinned
<1>k. k \in Keys /\ task[k] \in Task /\ task \in [Keys -> Task]
  BY PlanTask DEF TypeOK, StoreTypeOK
<1>u. UNCHANGED task => AllPinned
  BY DEF AllPinned, Pins
<1>r. ASSUME task[k].status = "reviewing", NEW t, task' = [task EXCEPT ![k] = t],
             t.commit = task[k].commit
      PROVE  AllPinned
  BY <1>r, OneTaskPinned DEF Pins, Approved, Submitted
<1>o. \A run : Own(task[k], run).commit = task[k].commit
  BY <1>k DEF Own, Task
<1>a. \A run : /\ Adopt(task[k], run) = task[k] \/ Adopt(task[k], run) = Own(task[k], run)
               /\ Own(Adopt(task[k], run), run).commit = task[k].commit
  BY <1>k DEF Adopt, Own, Task
<1>1. ASSUME NEW run \in Runs, StartReviewer(k, run) PROVE AllPinned
  BY <1>1, <1>u, <1>r, <1>o DEF StartReviewer, storeVars
<1>2. ASSUME NEW run \in Runs, NEW verdict \in Verdicts, NEW feedback \in Feedbacks,
             RecordReviewReport(k, run, verdict, feedback)
      PROVE  AllPinned
  <2> DEFINE report == [run |-> run, verdict |-> verdict, feedback |-> feedback,
                        commit |-> task[k].commit]
  <2>1. task' = [task EXCEPT ![k] = File(Adopt(task[k], run), report)]
    BY <1>2 DEF RecordReviewReport
  <2> HIDE DEF report
  <2>2. CASE task[k].status = "reviewing"
    <3>1. File(Adopt(task[k], run), report).commit = task[k].commit
      BY <1>k DEF File, Adopt, Own, Task
    <3> QED BY <1>r, <2>1, <2>2, <3>1
  <2>3. CASE task[k].status # "reviewing"
    <3>1. Adopt(task[k], run) = task[k]
      BY <2>3 DEF Adopt
    <3>2. Pins(task[k], File(task[k], report))
      BY <1>k DEF Pins, File, Task
    <3> QED BY <2>1, <3>1, <3>2, OneTaskPinned
  <2> QED BY <2>2, <2>3
<1>3. ASSUME NEW run \in Runs, NEW verdict \in Verdicts, RecordReview(k, run, verdict)
      PROVE  AllPinned
  <2>1. CASE UNCHANGED storeVars
    BY <1>u, <2>1 DEF storeVars
  <2>2. CASE task[k].status = "reviewing" /\ ~UNCHANGED storeVars
    <3>1. PICK t : t = Adopt(task[k], run)
      OBVIOUS
    <3>2. PICK owned : owned = IF t.reviewerRun = NoRun THEN Own(t, run) ELSE t
      OBVIOUS
    <3>3. owned.commit = task[k].commit /\ DOMAIN owned = DOMAIN task[k]
      BY <1>k, <3>1, <3>2 DEF Adopt, Own, Task
    <3>4. task' = [task EXCEPT ![k] = [owned EXCEPT !.verdict = verdict,
                                                  !.status = ReviewedStatus(k, verdict)]]
      BY <1>3, <2>2, <3>1, <3>2 DEF RecordReview
    <3>5. [owned EXCEPT !.verdict = verdict,
                        !.status = ReviewedStatus(k, verdict)].commit = task[k].commit
      BY <1>k, <3>3 DEF Task
    <3> QED BY <1>r, <2>2, <3>4, <3>5
  <2> QED BY <1>3, <2>1, <2>2 DEF RecordReview
<1> QED BY <1>1, <1>2, <1>3 DEF Reviewing

LEMMA IntegratingPins ==
  ASSUME TypeOK, NEW k \in PlanKeys, Integrating(k)
  PROVE  AllPinned
<1>k. /\ k \in Keys /\ task \in [Keys -> Task]
      /\ \A j \in PlanKeys : j \in Keys /\ task[j] \in Task
  BY PlanTask DEF TypeOK, StoreTypeOK
<1>s. \A t \in Task, s \in TaskStatuses :
         /\ [t EXCEPT !.status = s] \in Task
         /\ [t EXCEPT !.status = s].commit = t.commit
         /\ [t EXCEPT !.status = s].reviewerRun = t.reviewerRun
  BY DEF Task
<1>1. CASE StartIntegration(k)
  <2>1. Pins(task[k], [task[k] EXCEPT !.status = "integrating"])
    BY <1>k, <1>s, <1>1 DEF Pins, TaskStatuses, Submitted, Approved, StartIntegration
  <2> QED BY <1>1, <2>1, OneTaskPinned DEF StartIntegration
<1>2. ASSUME NEW sha \in SHAs, RecordIntegration(k, sha) PROVE AllPinned
  <2> DEFINE merged == [task EXCEPT ![k].status = "integrated"]
  <2>1. task' = [j \in Keys |->
                   IF /\ j \in PlanKeys
                      /\ merged[j].status = "approved"
                      /\ IntegrationPrerequisitesMet(merged, j)
                   THEN [merged[j] EXCEPT !.status = "integration_eligible"]
                   ELSE merged[j]]
    BY <1>2 DEF RecordIntegration
  <2>2. \A j \in PlanKeys : /\ merged[j] \in Task
                            /\ merged[j].commit = task[j].commit
                            /\ merged[j].reviewerRun = task[j].reviewerRun
    <3> TAKE j \in PlanKeys
    <3>1. /\ j \in Keys /\ task[j] \in Task
          /\ merged[j] = IF j = k THEN [task[j] EXCEPT !.status = "integrated"] ELSE task[j]
      BY <1>k
    <3>2. "integrated" \in TaskStatuses
      BY DEF TaskStatuses
    <3> QED BY <1>s, <3>1, <3>2
  <2> HIDE DEF merged
  <2>3. \A j \in PlanKeys : /\ task'[j].commit = merged[j].commit
                            /\ task'[j].reviewerRun = merged[j].reviewerRun
    BY <1>k, <1>s, <2>1, <2>2 DEF TaskStatuses
  <2>4. \A j \in PlanKeys : task'[j].status \in Submitted => task[j].status \in Submitted
    <3> TAKE j \in PlanKeys
    <3>1. task'[j].status = merged[j].status \/ merged[j].status = "approved"
      BY <1>k, <2>1
    <3>2. \/ task[j].status = "integrating" \/ merged[j].status = task[j].status
      <4>1. merged[j] = IF j = k THEN [task[j] EXCEPT !.status = "integrated"] ELSE task[j]
        BY <1>k DEF merged
      <4> QED BY <1>2, <4>1 DEF RecordIntegration
    <3> QED BY <3>1, <3>2 DEF Submitted, Approved
  <2> QED BY <2>2, <2>3, <2>4 DEF AllPinned, Pins
<1> QED BY <1>1, <1>2 DEF Integrating

LEMMA NextPins == TypeOK /\ [Next]_storeVars => AllPinned
<1> SUFFICES ASSUME TypeOK, [Next]_storeVars PROVE AllPinned
  OBVIOUS
<1>u. UNCHANGED task => AllPinned
  BY DEF AllPinned, Pins
<1>1. CASE Planning
  <2>1. CASE UNCHANGED task
    BY <1>u, <2>1
  <2>2. CASE planned = 0
    BY <2>2 DEF AllPinned, PlanKeys
  <2> QED BY <1>1, <2>1, <2>2
          DEF Planning, MarkFoundationPending, StartPlanning, SubmitPlan
<1>2. CASE Publishing
  <2>1. UNCHANGED task
    BY <1>2 DEF Publishing, StartHolisticReviewer, RecordHolisticReview,
       StartHolisticRereview, RecordPullRequest, RecordMerge, FailJob, storeVars
  <2> QED BY <1>u, <2>1
<1>3. CASE CIPolling
  <2>1. CASE UNCHANGED task
    BY <1>u, <2>1
  <2>2. CASE \E r : task' = [task EXCEPT ![planned + 1] = r]
    <3>1. \A k \in PlanKeys : k # planned + 1 /\ k \in Keys
      BY StoreAssumption DEF TypeOK, StoreTypeOK, PlanKeys, Keys
    <3>2. \A k \in PlanKeys : task'[k] = task[k]
      BY <2>2, <3>1 DEF TypeOK, StoreTypeOK
    <3> QED BY <3>2 DEF AllPinned, Pins
  <2>3. (\E r : task' = [task EXCEPT ![planned + 1] = r]) \/ UNCHANGED task
    BY <1>3 DEF CIPolling, StartCI, SameFailures, StartCIRemediation, FailJob, storeVars
  <2> QED BY <2>1, <2>2, <2>3
<1>4. CASE UNCHANGED storeVars
  BY <1>4, <1>u DEF storeVars
<1>5. CASE CIResults
  <2>1. PICK sha \in SHAs, state \in CIStates, print \in Prints \union {NoPrint} :
           RecordCI(sha, state, print)
    BY <1>5, CIResult
  <2>2. UNCHANGED task
    BY <2>1 DEF RecordCI, storeVars
  <2> QED BY <1>u, <2>2
<1> QED BY <1>1, <1>2, <1>3, <1>4, <1>5, WritingPins, BlockPins, ReviewingPins,
           IntegratingPins DEF Next, Guarded

\* A task is new when it enters the plan.
LEMMA PlanGrows ==
  TypeOK /\ [Next]_storeVars => \A k \in PlanKeys' \ PlanKeys : task'[k].status = "planned"
<1> SUFFICES ASSUME TypeOK, [Next]_storeVars, NEW k \in PlanKeys' \ PlanKeys
             PROVE  task'[k].status = "planned"
  OBVIOUS
<1>u. planned' # planned
  BY DEF PlanKeys
<1>1. ASSUME NEW n \in Keys, NEW deps \in [1..n -> SUBSET (1..n)], SubmitPlan(n, deps)
      PROVE  task'[k].status = "planned"
  <2>1. k \in Keys /\ k <= n /\ k \in 1..n
    BY <1>1, StoreAssumption DEF SubmitPlan, PlanKeys, Keys
  <2>2. task'[k] = NewTask(deps[k])
    BY <1>1, <2>1 DEF SubmitPlan
  <2> QED BY <2>2 DEF NewTask, NoTask
<1>2. ASSUME NEW print \in Prints, StartCIRemediation(print)
      PROVE  task'[k].status = "planned"
  <2>1. /\ planned < MaxTasks /\ planned' = planned + 1
        /\ task' = [task EXCEPT ![planned + 1] = Remediation(ci.head, print)]
    BY <1>2, <1>u DEF StartCIRemediation, FailJob, storeVars
  <2>2. k = planned + 1 /\ k \in Keys
    BY <2>1, StoreAssumption DEF TypeOK, StoreTypeOK, PlanKeys, Keys
  <2>3. task'[k] = Remediation(ci.head, print)
    BY <2>1, <2>2 DEF TypeOK, StoreTypeOK
  <2> QED BY <2>3 DEF Remediation, NewTask, NoTask
<1>3. CASE Planning
  BY <1>u, <1>1, <1>3 DEF Planning, MarkFoundationPending, StartPlanning
<1>4. CASE Publishing \/ UNCHANGED storeVars \/ CIResults
  BY <1>u, <1>4 DEF Publishing, StartHolisticReviewer, RecordHolisticReview,
     StartHolisticRereview, RecordPullRequest, RecordMerge, FailJob, CIResults, RecordCI,
     storeVars
<1>5. CASE CIPolling
  BY <1>u, <1>2, <1>5 DEF CIPolling, StartCI, storeVars
<1>6. ASSUME NEW j \in PlanKeys, Writing(j) \/ Reviewing(j) \/ Integrating(j) \/ BlockTask(j)
      PROVE  task'[k].status = "planned"
  BY <1>u, <1>6 DEF Writing, RecordTaskBase, StartTaskWork, RecordWriterCompletion,
     RecordNoChanges, RetryWriter, Reviewing, StartReviewer, RecordReviewReport, RecordReview,
     Integrating, StartIntegration, RecordIntegration, BlockTask, storeVars
<1> QED BY <1>3, <1>4, <1>5, <1>6 DEF Next, Guarded

\* The commit a reviewer approved is the commit that is integrated, whichever
\* late calls of other runs arrive while the task waits for its turn.
THEOREM CommitPinned == Spec => ApprovalPinsCommit
<1>1. TypeOK /\ [Next]_storeVars =>
        [\A k \in PlanKeys :
            task[k].status \in Approved /\ task'[k].status \in Approved =>
                /\ task'[k].commit = task[k].commit
                /\ task'[k].reviewerRun = task[k].reviewerRun]_storeVars
  BY NextPins DEF AllPinned, Pins
<1> QED BY <1>1, TypeCorrect, PTL DEF Spec, ApprovalPinsCommit
============================================================================
