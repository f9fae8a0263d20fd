------------------------------ MODULE JobStore ------------------------------
(***************************************************************************)
(* The job store as a component of its own: its operations called in any   *)
(* order, at any time and with any arguments.  What is proved of Spec      *)
(* rests on the store's own guards alone, and holds however handlers,      *)
(* retries and crashes interleave around it.                               *)
(*                                                                         *)
(* BlockTask and RecordCI have no guard on the status they change.         *)
(* OrderlySpec adds the care the handlers take with them: no task is       *)
(* blocked that is finished already, and CI results are recorded for a job *)
(* that awaits them.  README.md says where the program fails to take it.   *)
(***************************************************************************)
EXTENDS PipelineStore

Init == Create

Planning ==
    \/ MarkFoundationPending
    \/ StartPlanning
    \/ \E n \in Keys : \E deps \in [1..n -> SUBSET (1..n)] : SubmitPlan(n, deps)

Writing(k) ==
    \/ \E sha \in SHAs : RecordTaskBase(k, sha)
    \/ /\ task[k].writerAttempts < MaxAttempts
       /\ \E run \in Runs : StartTaskWork(k, run)
    \/ \E run \in Runs, sha \in SHAs : RecordWriterCompletion(k, run, sha)
    \/ \E run \in Runs : RecordNoChanges(k, run)
    \/ \E run \in Runs : RetryWriter(k, run)

Reviewing(k) ==
    \/ \E run \in Runs : StartReviewer(k, run)
    \/ \E run \in Runs, verdict \in Verdicts, feedback \in Feedbacks :
          RecordReviewReport(k, run, verdict, feedback)
    \/ \E run \in Runs, verdict \in Verdicts : RecordReview(k, run, verdict)

Integrating(k) ==
    \/ StartIntegration(k)
    \/ \E sha \in SHAs : RecordIntegration(k, sha)

Publishing ==
    \/ \E run \in Runs, sha \in SHAs : StartHolisticReviewer(run, sha)
    \/ \E run \in Runs, sha \in SHAs, verdict \in Verdicts, content \in BOOLEAN :
          RecordHolisticReview(run, sha, verdict, content)
    \/ \E sha \in SHAs : StartHolisticRereview(sha)
    \/ RecordPullRequest
    \/ RecordMerge
    \/ FailJob

CIPolling ==
    \/ \E sha \in SHAs : StartCI(sha)
    \/ \E print \in Prints : StartCIRemediation(print)

\* The results ciobserver.Evaluate returns.
CIResults ==
    \/ \E sha \in SHAs, state \in {"pending", "passed"} : RecordCI(sha, state, NoPrint)
    \/ \E sha \in SHAs, print \in Prints :
          /\ failures[print] < MaxFailures
          /\ RecordCI(sha, "failed", print)

Guarded ==
    \/ Planning
    \/ \E k \in PlanKeys : Writing(k) \/ Reviewing(k) \/ Integrating(k)
    \/ Publishing
    \/ CIPolling

Next ==
    \/ Guarded
    \/ \E k \in PlanKeys : BlockTask(k)
    \/ CIResults

Spec == Init /\ [][Next]_storeVars

OrderlyNext ==
    \/ Guarded
    \/ \E k \in PlanKeys : ~Finished(task[k]) /\ BlockTask(k)
    \/ job.status = "awaiting_ci" /\ CIResults

OrderlySpec == Init /\ [][OrderlyNext]_storeVars

----------------------------------------------------------------------------
TypeOK == StoreTypeOK

Ledger(t) ==
    /\ t.reviewerAttempts <= t.writerAttempts
    /\ t.status \in {"working", "reviewing"} /\ t.reviewerRun = NoRun
          => t.reviewerAttempts < t.writerAttempts

\* Reviewer attempts never overtake writer attempts, and a task whose review
\* has no owner yet has an attempt to spare: recordReview's adoption of a
\* reviewer (controller.go:213) can then never count one review twice, and the
\* dispatch IDs, built from these counts, neither skip nor reuse an attempt.
AttemptsLedger == \A k \in PlanKeys : Ledger(task[k])

Approved == {"approved", "integration_eligible", "integrating", "integrated"}

ApprovedWork(t) ==
    t.status \in Approved => /\ t.verdict = "approved"
                             /\ t.commit # NoSHA
                             /\ t.reviewerRun # NoRun

\* No task is approved, merged or counted as integrated without a commit and an
\* approval by the reviewer run that owns the task, through any mixture of
\* retries, revisions, blocks and adopted reviewers.
OnlyApprovedWorkAdvances == \A k \in PlanKeys : ApprovedWork(task[k])

\* Tasks enter the integration branch in the order of the plan: once a task is
\* eligible, integrating or integrated, every earlier one is finished (under
\* OrderlySpec).
IntegrationInOrder ==
    \A k \in PlanKeys :
        task[k].status \in {"integration_eligible", "integrating", "integrated"}
            => IntegrationPrerequisitesMet(task, k)

\* A job is reviewed as a whole, tested by CI, or ready to publish only when
\* every task of its plan, CI remediations added later included, is finished
\* (under OrderlySpec).
WholePlanFinished ==
    job.status \in {"holistic_reviewing", "awaiting_ci", "ready_to_publish", "no_changes"}
        => AllTasksIntegrated(task)

DistinctReports(t) ==
    \A i, j \in DOMAIN t.history : t.history[i].run = t.history[j].run => i = j

\* A task's review history holds at most one report of each run, whatever is
\* delivered twice: repeatedReviewFeedback (outcome.go:241) counts reports, and
\* three equal ones block the task.
OneReportPerRun == \A k \in PlanKeys : DistinctReports(task[k])

\* What was approved is what is merged: while a task stays approved, on its way
\* to integration and after it, no late writer, reviewer or retry call changes
\* its commit or the reviewer run that approved it.
ApprovalPinsCommit ==
    [][\A k \in PlanKeys :
          task[k].status \in Approved /\ task'[k].status \in Approved =>
              /\ task'[k].commit = task[k].commit
              /\ task'[k].reviewerRun = task[k].reviewerRun]_storeVars
============================================================================
