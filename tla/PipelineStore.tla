--------------------------- MODULE PipelineStore ---------------------------
(***************************************************************************)
(* The durable record of one coding job: internal/pipeline/store.go and    *)
(* controller.go.  Every operation of the store runs under Store.mu and is *)
(* one action here.  An operation that returns an error without touching   *)
(* the job is a disabled action; an idempotent early return is a stutter.  *)
(*                                                                         *)
(* A task is named by its position in Plan.IntegrationOrder: validatePlan  *)
(* makes that order a permutation of the tasks in which dependencies come  *)
(* first, and a remediation task is appended to both lists.  A SHA is a    *)
(* number, 0 the empty string.                                             *)
(***************************************************************************)
EXTENDS Naturals, Sequences

CONSTANTS
    MaxTasks,      \* bound: tasks of a plan, CI remediation tasks included
    MaxSHA,        \* bound: distinct commits
    MaxAttempts,   \* bound: writer attempts per task
    MaxFailures,   \* bound: recorded failures per CI fingerprint
    Runs, NoRun,   \* AgentFoundry run IDs, and the empty run ID
    Prints, NoPrint,  \* CI failure fingerprints, and none
    Feedbacks      \* what a review report says (summary and findings)

ASSUME StoreAssumption ==
    /\ MaxTasks \in Nat \ {0}
    /\ MaxSHA \in Nat \ {0}
    /\ MaxAttempts \in Nat
    /\ MaxFailures \in Nat
    /\ NoRun \notin Runs
    /\ NoPrint \notin Prints

VARIABLES
    job,       \* the job-level fields of pipeline.Job
    ci,        \* Job.CI, with state "none" for nil
    failures,  \* how often each fingerprint is in Job.CIFailureFingerprints
    planned,   \* len(Plan.Tasks), 0 while Job.Plan is nil
    task       \* the tasks; positions above planned hold NoTask

storeVars == <<job, ci, failures, planned, task>>

Keys == 1..MaxTasks
SHAs == 1..MaxSHA
NoSHA == 0

JobStatuses == {"created", "planning", "planned", "working", "reviewing",
    "integrating", "awaiting_ci", "ci_remediating", "holistic_reviewing",
    "ready_to_publish", "published", "no_changes", "failed"}
TaskStatuses == {"planned", "working", "reviewing", "changes_requested",
    "approved", "integration_eligible", "integrating", "integrated",
    "no_changes", "blocked"}
Verdicts == {"approved", "changes_requested", "blocked"}
MergeStates == {"not_requested", "open", "merged"}
CIStates == {"pending", "passed", "failed", "blocked"}

Report == [run: Runs, verdict: Verdicts, feedback: Feedbacks,
           commit: SHAs \union {NoSHA}]

Job == [status: JobStatuses, foundationPending: BOOLEAN,
        integrationSHA: SHAs \union {NoSHA},
        holisticRun: Runs \union {NoRun}, holisticSHA: SHAs \union {NoSHA},
        holisticVerdict: Verdicts \union {"pending"},
        pullRequest: BOOLEAN, mergeState: MergeStates]

CI == [head: SHAs \union {NoSHA}, state: CIStates \union {"none"},
       print: Prints \union {NoPrint}]

Task == [status: TaskStatuses \union {"none"}, remediation: BOOLEAN,
         deps: SUBSET Keys, base: SHAs \union {NoSHA},
         writerRun: Runs \union {NoRun}, reviewerRun: Runs \union {NoRun},
         verdict: Verdicts \union {"pending"},
         writerAttempts: Nat, reviewerAttempts: Nat,
         commit: SHAs \union {NoSHA}, history: Seq(Report),
         print: Prints \union {NoPrint}]

NoTask == [status |-> "none", remediation |-> FALSE, deps |-> {},
           base |-> NoSHA, writerRun |-> NoRun, reviewerRun |-> NoRun,
           verdict |-> "pending", writerAttempts |-> 0, reviewerAttempts |-> 0,
           commit |-> NoSHA, history |-> <<>>, print |-> NoPrint]

NewTask(deps) == [NoTask EXCEPT !.status = "planned", !.deps = deps]

NoCI == [head |-> NoSHA, state |-> "none", print |-> NoPrint]

StoreTypeOK ==
    /\ job \in Job
    /\ ci \in CI
    /\ failures \in [Prints -> Nat]
    /\ planned \in 0..MaxTasks
    /\ task \in [Keys -> Task]

Create ==
    /\ job = [status |-> "created", foundationPending |-> FALSE,
              integrationSHA |-> NoSHA, holisticRun |-> NoRun,
              holisticSHA |-> NoSHA, holisticVerdict |-> "pending",
              pullRequest |-> FALSE, mergeState |-> "not_requested"]
    /\ ci = NoCI
    /\ failures = [p \in Prints |-> 0]
    /\ planned = 0
    /\ task = [k \in Keys |-> NoTask]

----------------------------------------------------------------------------
(* Predicates on the plan. *)

PlanKeys == 1..planned

Finished(t) == t.status \in {"integrated", "no_changes"}

\* The status every task would have if the tasks were tasks.
IntegrationPrerequisitesMet(tasks, k) == \A j \in 1..(k - 1) : Finished(tasks[j])

AllTasksIntegrated(tasks) == planned > 0 /\ \A k \in PlanKeys : Finished(tasks[k])

HasIntegratedTask(tasks) == \E k \in PlanKeys : tasks[k].status = "integrated"

----------------------------------------------------------------------------
(* Planning. *)

MarkFoundationPending ==
    /\ job.status = "created"
    /\ job' = [job EXCEPT !.foundationPending = TRUE]
    /\ UNCHANGED <<ci, failures, planned, task>>

StartPlanning ==
    /\ job.status = "created"
    /\ job' = [job EXCEPT !.status = "planning", !.foundationPending = FALSE]
    /\ UNCHANGED <<ci, failures, planned, task>>

\* validatePlan, in the naming by position: every dependency comes earlier.
ValidPlan(n, deps) == \A k \in 1..n : deps[k] \subseteq 1..(k - 1)

SubmitPlan(n, deps) ==
    /\ ValidPlan(n, deps)
    /\ planned = 0
    /\ job.status = "planning"
    /\ job' = [job EXCEPT !.status = "planned"]
    /\ planned' = n
    /\ task' = [k \in Keys |-> IF k <= n THEN NewTask(deps[k]) ELSE NoTask]
    /\ UNCHANGED <<ci, failures>>

----------------------------------------------------------------------------
(* Writer work. *)

RecordTaskBase(k, sha) ==
    /\ task[k].base \in {NoSHA, sha}
    /\ task' = [task EXCEPT ![k].base = sha]
    /\ UNCHANGED <<job, ci, failures, planned>>

\* A revision replaces the prior review decision and its run ownership.
Started(t, run) ==
    [t EXCEPT !.status = "working", !.writerRun = run,
              !.reviewerRun = NoRun, !.verdict = "pending",
              !.writerAttempts = @ + 1]

StartTaskWork(k, run) ==
    \/ /\ task[k].status = "working" /\ task[k].writerRun = run
       /\ UNCHANGED storeVars
    \/ /\ task[k].status \in {"planned", "changes_requested", "blocked"}
       /\ task' = [task EXCEPT ![k] = Started(@, run)]
       /\ job' = [job EXCEPT !.status = "working"]
       /\ UNCHANGED <<ci, failures, planned>>

RecordWriterCompletion(k, run, sha) ==
    /\ task[k].writerRun = run
    /\ \/ /\ task[k].status = "reviewing" /\ task[k].commit = sha
          /\ UNCHANGED storeVars
       \/ /\ task[k].status = "working"
          /\ task' = [task EXCEPT ![k] = [@ EXCEPT
                        !.status = "reviewing", !.commit = sha,
                        !.verdict = "pending"]]
          /\ job' = [job EXCEPT !.status = "reviewing"]
          /\ UNCHANGED <<ci, failures, planned>>

RecordNoChanges(k, run) ==
    /\ task[k].writerRun = run
    /\ \/ task[k].status = "no_changes" /\ UNCHANGED storeVars
       \/ /\ task[k].status = "working"
          /\ task' = [task EXCEPT ![k].status = "no_changes"]
          /\ job' = IF ~AllTasksIntegrated(task') THEN job
                    ELSE [job EXCEPT !.status =
                            IF HasIntegratedTask(task') THEN "holistic_reviewing"
                            ELSE "no_changes"]
          /\ UNCHANGED <<ci, failures, planned>>

\* Broken variant: a writer is retried whose work is under review or done.
RetryWriterAnytime(k, run) ==
    /\ task[k].writerRun = run
    /\ task' = [task EXCEPT ![k] = [@ EXCEPT
                  !.writerRun = NoRun, !.status = "planned"]]
    /\ job' = [job EXCEPT !.status = "planned"]
    /\ UNCHANGED <<ci, failures, planned>>

RetryWriter(k, run) ==
    /\ task[k].status = "working" /\ task[k].writerRun = run
    /\ task' = [task EXCEPT ![k] = [@ EXCEPT
                  !.writerRun = NoRun, !.status = "planned"]]
    /\ job' = [job EXCEPT !.status = "planned"]
    /\ UNCHANGED <<ci, failures, planned>>

BlockTask(k) ==
    /\ task' = [task EXCEPT ![k] =
                  IF @.status = "blocked" THEN @
                  ELSE [@ EXCEPT !.status = "blocked", !.print = NoPrint]]
    /\ UNCHANGED <<job, ci, failures, planned>>

----------------------------------------------------------------------------
(* Task review. *)

\* The reviewer run of t becomes run, as the next reviewer attempt.
Own(t, run) == [t EXCEPT !.reviewerRun = run, !.reviewerAttempts = @ + 1]

\* Broken variants, each of the definition it precedes: an adoption that counts
\* without limit, and one that forgets to ask for a review in progress.
AdoptUnbounded(t, run) ==
    IF t.status = "reviewing" /\ t.reviewerRun # run THEN Own(t, run) ELSE t

AdoptAnytime(t, run) ==
    IF t.reviewerRun # run /\ t.reviewerAttempts < t.writerAttempts
    THEN Own(t, run) ELSE t

\* A review in progress is taken over by the caller's run while there are
\* fewer reviewer attempts than writer attempts.
Adopt(t, run) ==
    IF /\ t.status = "reviewing"
       /\ t.reviewerRun # run
       /\ t.reviewerAttempts < t.writerAttempts
    THEN Own(t, run) ELSE t

\* Broken variant: the report is filed again on redelivery.
FileAgain(t, report) ==
    IF t.reviewerRun = report.run THEN [t EXCEPT !.history = Append(@, report)] ELSE t

\* Only the owner's first report is kept.
File(t, report) ==
    IF /\ t.reviewerRun = report.run
       /\ \A i \in DOMAIN t.history : t.history[i].run # report.run
    THEN [t EXCEPT !.history = Append(@, report)] ELSE t

RecordReviewReport(k, run, verdict, feedback) ==
    LET report == [run |-> run, verdict |-> verdict, feedback |-> feedback,
                   commit |-> task[k].commit]
    IN /\ task' = [task EXCEPT ![k] = File(Adopt(@, run), report)]
       /\ UNCHANGED <<job, ci, failures, planned>>

\* Broken variants: any verdict but a request for changes approves; an approval
\* does not wait for the tasks before it.
ReviewedStatusLax(k, verdict) ==
    IF verdict = "changes_requested" THEN verdict ELSE "approved"

ReviewedStatusEager(k, verdict) ==
    IF verdict # "approved" THEN verdict ELSE "integration_eligible"

ReviewedStatus(k, verdict) ==
    IF verdict # "approved" THEN verdict
    ELSE IF IntegrationPrerequisitesMet(task, k) THEN "integration_eligible"
    ELSE "approved"

RecordReview(k, run, verdict) ==
    \/ /\ task[k].reviewerRun = run /\ task[k].verdict = verdict
       /\ task[k].status # "reviewing"
       /\ UNCHANGED storeVars
    \/ /\ task[k].status = "reviewing"
       /\ LET t == Adopt(task[k], run)
              owned == IF t.reviewerRun = NoRun THEN Own(t, run) ELSE t
          IN /\ owned.reviewerRun = run
             /\ task' = [task EXCEPT ![k] = [owned EXCEPT
                           !.verdict = verdict,
                           !.status = ReviewedStatus(k, verdict)]]
       /\ UNCHANGED <<job, ci, failures, planned>>

StartReviewer(k, run) ==
    /\ task[k].status = "reviewing"
    /\ \/ task[k].reviewerRun = run /\ UNCHANGED storeVars
       \/ /\ task[k].reviewerRun = NoRun
          /\ task' = [task EXCEPT ![k] = Own(@, run)]
          /\ UNCHANGED <<job, ci, failures, planned>>

----------------------------------------------------------------------------
(* Integration. *)

StartIntegration(k) ==
    /\ task[k].status = "integration_eligible"
    /\ IntegrationPrerequisitesMet(task, k)
    /\ task' = [task EXCEPT ![k].status = "integrating"]
    /\ job' = [job EXCEPT !.status = "integrating"]
    /\ UNCHANGED <<ci, failures, planned>>

RecordIntegration(k, sha) ==
    /\ task[k].status = "integrating"
    /\ LET merged == [task EXCEPT ![k].status = "integrated"]
       IN task' = [j \in Keys |->
                     IF /\ j \in PlanKeys
                        /\ merged[j].status = "approved"
                        /\ IntegrationPrerequisitesMet(merged, j)
                     THEN [merged[j] EXCEPT !.status = "integration_eligible"]
                     ELSE merged[j]]
    /\ job' = [job EXCEPT !.integrationSHA = sha,
                          !.status = IF AllTasksIntegrated(task')
                                     THEN "holistic_reviewing" ELSE @]
    /\ UNCHANGED <<ci, failures, planned>>

----------------------------------------------------------------------------
(* Holistic review, publication and failure. *)

StartHolisticReviewer(run, sha) ==
    /\ job.status = "holistic_reviewing"
    /\ AllTasksIntegrated(task)
    /\ job.integrationSHA = sha
    /\ job.holisticRun \in {NoRun, run}
    /\ job' = [job EXCEPT !.holisticRun = run, !.holisticSHA = sha]
    /\ UNCHANGED <<ci, failures, planned, task>>

\* content: whether the review came with a pull request title and body.  An
\* approval without them is an error, returned after the verdict is assigned.
RecordHolisticReview(run, sha, verdict, content) ==
    \/ /\ job.status \in {"ready_to_publish", "published"}
       /\ job.holisticRun = run /\ job.holisticSHA = sha
       /\ job.holisticVerdict = verdict
       /\ UNCHANGED storeVars
    \/ /\ job.status = "holistic_reviewing"
       /\ AllTasksIntegrated(task)
       /\ job.holisticRun \in {NoRun, run}
       /\ job.integrationSHA = sha
       /\ job' = [job EXCEPT
                    !.holisticRun = run,
                    !.holisticSHA = IF job.holisticRun = NoRun THEN sha ELSE @,
                    !.holisticVerdict = verdict,
                    !.status = IF verdict = "approved" /\ content
                               THEN "ready_to_publish" ELSE @]
       /\ UNCHANGED <<ci, failures, planned, task>>

StartHolisticRereview(sha) ==
    \/ /\ job.status = "holistic_reviewing" /\ job.integrationSHA = sha
       /\ UNCHANGED storeVars
    \/ /\ job.status = "ready_to_publish"
       /\ job.mergeState = "open" /\ job.pullRequest
       /\ job' = [job EXCEPT !.status = "holistic_reviewing",
                             !.integrationSHA = sha,
                             !.holisticRun = NoRun, !.holisticSHA = NoSHA,
                             !.holisticVerdict = "pending"]
       /\ UNCHANGED <<ci, failures, planned, task>>

RecordPullRequest ==
    \/ /\ job.pullRequest /\ job.mergeState # "not_requested"
       /\ UNCHANGED storeVars
    \/ /\ job.status \in {"ready_to_publish", "holistic_reviewing"}
       /\ ~job.pullRequest /\ job.mergeState = "not_requested"
       /\ job' = [job EXCEPT !.pullRequest = TRUE, !.mergeState = "open"]
       /\ UNCHANGED <<ci, failures, planned, task>>

RecordMerge ==
    \/ /\ job.mergeState = "merged" /\ job.status = "published"
       /\ UNCHANGED storeVars
    \/ /\ job.mergeState = "open" /\ job.holisticVerdict = "approved"
       /\ job' = [job EXCEPT !.mergeState = "merged", !.status = "published"]
       /\ UNCHANGED <<ci, failures, planned, task>>

FailJob ==
    /\ job' = [job EXCEPT !.status = "failed"]
    /\ UNCHANGED <<ci, failures, planned, task>>

----------------------------------------------------------------------------
(* Continuous integration of the draft pull request. *)

StartCI(sha) ==
    \/ /\ ci.head = sha /\ job.status = "awaiting_ci"
       /\ UNCHANGED storeVars
    \/ /\ job.status \in {"holistic_reviewing", "awaiting_ci"}
       /\ ~(ci.head = sha /\ job.status = "awaiting_ci")
       /\ job' = [job EXCEPT !.status = "awaiting_ci"]
       /\ ci' = [head |-> sha, state |-> "pending", print |-> NoPrint]
       /\ UNCHANGED <<failures, planned, task>>

\* Broken variant: the CI state is taken for a job status.
CIStatusRaw(state) == IF state = "passed" THEN state ELSE job.status

CIStatus(state) ==
    CASE state = "passed" -> "holistic_reviewing"
      [] state = "blocked" -> "failed"
      [] OTHER -> job.status

RecordCI(sha, state, print) ==
    IF ci.head # sha THEN UNCHANGED storeVars
    ELSE /\ ci' = [ci EXCEPT !.state = state, !.print = print]
         /\ job' = [job EXCEPT !.status = CIStatus(state)]
         /\ failures' = IF state = "failed" /\ print # NoPrint
                        THEN [failures EXCEPT ![print] = @ + 1]
                        ELSE failures
         /\ UNCHANGED <<planned, task>>

\* The fingerprint travels in BlockReason.
Remediation(head, print) ==
    [NewTask({}) EXCEPT !.remediation = TRUE, !.base = head, !.print = print]

\* The task that already repairs this failure of this pull request head.
RemediationFor(print) ==
    {k \in PlanKeys : /\ task[k].remediation
                      /\ task[k].base = ci.head
                      /\ task[k].print = print}

\* Broken variant: the job keeps waiting for the CI that failed.
RemediatingInPlace == job

Remediating == [job EXCEPT !.status = "ci_remediating"]

\* Broken variant: the limit is off by one.
SameFailuresLate == 4

\* How often CI may fail in the same way before the job does.
SameFailures == 3

StartCIRemediation(print) ==
    /\ job.status = "awaiting_ci"
    /\ ci.state = "failed" /\ ci.print = print
    /\ \/ /\ failures[print] >= SameFailures
          /\ FailJob
       \/ /\ failures[print] < SameFailures /\ RemediationFor(print) # {}
          /\ UNCHANGED storeVars
       \/ /\ failures[print] < SameFailures /\ RemediationFor(print) = {}
          /\ planned < MaxTasks
          /\ planned' = planned + 1
          /\ task' = [task EXCEPT ![planned + 1] = Remediation(ci.head, print)]
          /\ job' = Remediating
          /\ UNCHANGED <<ci, failures>>
============================================================================
