---------------------------- MODULE Publication ----------------------------
(***************************************************************************)
(* From the integration branch to the merged pull request: the draft pull  *)
(* request and its CI (startDraftPRCI, ObservePendingCI), CI remediation,  *)
(* the holistic review, the gated merge (publishApprovedJob) and the       *)
(* operator's tools for both, composed with the task phase of TaskRuns,    *)
(* which also carries out every remediation.                               *)
(*                                                                         *)
(* GitHub and the people who use it are the environment: they mark the     *)
(* draft ready, complete its checks, and may push a commit of their own.   *)
(***************************************************************************)
EXTENDS TaskRuns

CONSTANTS
    MaxPushes      \* bound: commits other people push to the pull request

\* The last SHAs are left for those commits.
ASSUME PushesAssumption ==
    /\ MaxPushes \in Nat /\ MaxTasks + MaxPushes <= MaxSHA
    /\ \A s \in Scenarios : s.pushes <= MaxPushes

\* No failure is called like one of the other states of a check.
ASSUME PrintsAssumption == {"pending", "passed"} \intersect (Prints \union {NoPrint}) = {}

VARIABLES
    pushed,      \* the integration branch on GitHub, head of the pull request
    pr,          \* the pull request
    checks,      \* the required check of every commit: its state or failure
    mergedHead,  \* the head of the pull request when it was merged
    booted       \* whether startup has reached the CI poller

hubVars == <<pushed, pr, checks, mergedHead>>
pubVars == <<hubVars, booted>>
allVars == <<vars, pubVars>>

PublicationTypeOK ==
    /\ TypeOK
    /\ pushed \in SHAs \union {NoSHA}
    /\ pr \in {"none", "draft", "ready", "merged"}
    /\ checks \in [SHAs -> {"pending", "passed"} \union Prints]
    /\ mergedHead \in SHAs \union {NoSHA}
    /\ booted \in BOOLEAN
    /\ budget.pushes <= MaxPushes

\* The head of the integration worktree, after the merges so far.
Local == Cardinality({k \in Keys : merged[k] # NoSHA})

\* The commits of the integration branch are 1, 2, ..., those other people push
\* are the last SHAs.
Foreign == {s \in SHAs : s > MaxSHA - MaxPushes}

PublicationInit ==
    /\ Init
    /\ pushed = NoSHA
    /\ pr = "none"
    /\ checks = [s \in SHAs |-> "pending"]
    /\ mergedHead = NoSHA
    /\ booted = TRUE

\* Goroutine t makes the step to next, which changes nothing of TaskRuns but it.
Moves(t, next) ==
    /\ thread' = next
    /\ UNCHANGED <<storeVars, record, remote, queue, gitVars, budget>>

\* Goroutine t calls the store operation op and nothing else.
Stores(op, t, next) == Try(op, t, next) /\ UNCHANGED <<gitVars, pubVars>>

----------------------------------------------------------------------------
(* startDraftPRCI. *)

\* MergeBranch pushes what it merged; a push that fails is logged.
MergeAndPush(t) ==
    /\ Merge(t)
    /\ \/ pushed \notin Foreign /\ pushed' = Top(t).sha'
       \/ UNCHANGED pushed
    /\ UNCHANGED <<pr, checks, mergedHead, booted>>

\* PushBranch is refused when the branch on GitHub has commits of other people.
PushBranch(t) ==
    /\ At(t, "draft")
    /\ IF pushed \in Foreign
       THEN Moves(t, Return(t)) /\ UNCHANGED pushed
       ELSE /\ pushed' = Local
            /\ Moves(t, Goto(t, [Top(t) EXCEPT !.pc =
                         IF Top(t).publish = "new" THEN "create" ELSE "get"]))
    /\ UNCHANGED <<pr, checks, mergedHead, booted>>

\* CreatePR; GitHub refuses a second pull request for a branch, and one for a
\* branch without commits.
Openable == pr = "none" /\ pushed # NoSHA

Open(t, kind, pc) ==
    /\ IF Openable
       THEN pr' = kind /\ Moves(t, Goto(t, [Top(t) EXCEPT !.pc = pc]))
       ELSE UNCHANGED pr /\ Moves(t, Return(t))
    /\ UNCHANGED <<pushed, checks, mergedHead, booted>>

CreateDraft(t) == At(t, "create") /\ Open(t, "draft", "record")

RecordDraft(t) ==
    /\ At(t, "record")
    /\ Stores(RecordPullRequest, t, Goto(t, [Top(t) EXCEPT !.pc = "get",
                                                           !.sha = job'.integrationSHA]))

GetDraft(t) ==
    /\ At(t, "get")
    /\ LET f == Top(t)
       IN Moves(t, IF pr = "draft" /\ pushed = f.sha
                   THEN Goto(t, [f EXCEPT !.pc = "ci"]) ELSE Return(t))
    /\ UNCHANGED pubVars

----------------------------------------------------------------------------
(* ObservePendingCI, every 30 seconds, and before it, once, after startup,  *)
(* resumePendingHolisticReviews.                                            *)

Idle == thread[Startup] = <<>> /\ queue = {}

Polls(pc, sha) == [thread EXCEPT ![Startup] = <<[Call(pc, NoRun) EXCEPT !.sha = sha]>>]

ResumeReview ==
    /\ Idle /\ ~booted
    /\ booted' = TRUE
    /\ IF /\ job.status = "holistic_reviewing" /\ job.holisticRun = NoRun
          /\ job.integrationSHA # NoSHA
       THEN thread' = Polls("startreview", job.integrationSHA)
       ELSE UNCHANGED thread
    /\ UNCHANGED <<storeVars, record, remote, queue, gitVars, budget, hubVars>>

\* Results of another head than the recorded one are never applied.
PollCI ==
    /\ Idle /\ booted
    /\ job.status = "awaiting_ci"
    /\ pushed = ci.head
    /\ thread' = Polls("checks", pushed)
    /\ UNCHANGED <<storeVars, record, remote, queue, gitVars, budget, pubVars>>

\* Evaluate, of the one required check.
State(check) == IF check \in Prints THEN "failed" ELSE check

\* Bound: MaxFailures records of one failure.
Recordable(check) == check \in Prints => failures[check] < MaxFailures

ReadChecks(t) ==
    /\ At(t, "checks")
    /\ Recordable(checks[Top(t).sha])
    /\ LET f == Top(t)
           check == checks[f.sha]
       IN Stores(RecordCI(f.sha, State(check), IF check \in Prints THEN check ELSE NoPrint), t,
            CASE check = "pending" -> Return(t)
              [] check = "passed" -> Goto(t, [f EXCEPT !.pc = "startreview",
                                                       !.sha = job'.integrationSHA])
              [] OTHER -> Goto(t, [f EXCEPT !.pc = "remediate"]))

\* At the limit there is no task, and the poller goes on.
Remediate(t) ==
    /\ At(t, "remediate")
    /\ LET f == Top(t)
       IN Stores(StartCIRemediation(checks[f.sha]), t,
            IF job'.status = "failed" THEN Return(t)
            ELSE Goto(t, Continue([f EXCEPT !.todo = Ready(planned', task')])))

StartReview(t) ==
    /\ At(t, "startreview")
    /\ Start(t, Holistic, Goto(t, [Top(t) EXCEPT !.pc = "ownreview"]))
    /\ UNCHANGED <<storeVars, gitVars, budget, pubVars>>

OwnJobReview(t) ==
    /\ At(t, "ownreview")
    /\ Stores(StartHolisticReviewer(Holistic, Top(t).sha), t, Return(t))

----------------------------------------------------------------------------
(* applyHolistic. *)

ApplyHolistic(t) ==
    /\ At(t, "apply")
    /\ Top(t).run = Holistic
    /\ IF remote[Holistic].says = "failed"
       THEN FailJob /\ thread' = Goto(t, Done(Top(t)))
       ELSE /\ thread' = Goto(t, [Top(t) EXCEPT !.pc = "jobverdict",
                                                !.sha = job.integrationSHA])
            /\ UNCHANGED storeVars
    /\ UNCHANGED <<record, remote, queue, gitVars, budget, pubVars>>

\* The feedback of a holistic review is the presentation of the pull request.
\* An approval without one is an error; a request for changes ends here.
JobVerdict(t) ==
    /\ At(t, "jobverdict")
    /\ LET f == Top(t)
           says == remote[Holistic].says
       IN Stores(RecordHolisticReview(Holistic, f.sha, says,
                                      remote[Holistic].feedback # "none"), t,
            CASE says = "changes_requested" -> Goto(t, Done(f))
              [] says = "blocked" -> Goto(t, [f EXCEPT !.pc = "fail"])
              [] says = "approved" ->
                   IF job'.status = "holistic_reviewing" THEN Return(t)
                   ELSE Goto(t, [f EXCEPT !.pc = "publish"]))

Fail(t) ==
    /\ At(t, "fail")
    /\ Stores(FailJob, t, Goto(t, Done(Top(t))))

----------------------------------------------------------------------------
(* publishApprovedJob. *)

Published == job.mergeState = "merged" /\ job.status = "published"

\* Broken variant: the holistic verdict is not looked at.
PublishableLax == job.status = "ready_to_publish" \/ job.mergeState = "open"

Publishable ==
    /\ job.holisticVerdict = "approved"
    /\ job.status = "ready_to_publish" \/ job.mergeState = "open"

\* A pull request that exists gets the title and body of the review.
Publish(t) ==
    /\ At(t, "publish")
    /\ LET f == [Top(t) EXCEPT !.sha = job.integrationSHA]
       IN Moves(t, IF Published THEN Goto(t, Done(f))
                   ELSE IF ~Publishable THEN Return(t)
                   ELSE Goto(t, [f EXCEPT !.pc = IF job.pullRequest THEN "gate" ELSE "open"]))
    /\ UNCHANGED pubVars

CreateReady(t) == At(t, "open") /\ Open(t, "ready", "opened")

RecordReady(t) ==
    /\ At(t, "opened")
    /\ Stores(RecordPullRequest, t, Goto(t, [Top(t) EXCEPT !.pc = "gate",
                                                           !.sha = job'.integrationSHA]))

\* Broken variants: a pull request that is merged already is not let through; the
\* head is not compared.
GateClosed(f) == IF pr = "ready" /\ pushed = f.sha THEN "gatechecks" ELSE "error"

GateAnyHead(f) ==
    CASE pr = "merged" -> "recordmerge"
      [] pr = "ready" -> "gatechecks"
      [] OTHER -> "error"

\* GetPR: the head must be the reviewed one.
Gate(f) ==
    CASE pr = "merged" -> "recordmerge"
      [] pr = "ready" /\ pushed = f.sha -> "gatechecks"
      [] OTHER -> "error"

PassGate(t) ==
    /\ At(t, "gate")
    /\ LET f == Top(t)
       IN Moves(t, IF Gate(f) = "error" THEN Return(t)
                   ELSE Goto(t, [f EXCEPT !.pc = Gate(f)]))
    /\ UNCHANGED pubVars

\* Broken variant: checks that have not completed are let through.
SuccessfulIfSilent(check) == check \notin Prints

\* successfulChecks, with AllowNoChecks off.
Successful(check) == check = "passed"

GateChecks(t) ==
    /\ At(t, "gatechecks")
    /\ LET f == Top(t)
       IN Moves(t, IF Successful(checks[f.sha])
                   THEN Goto(t, [f EXCEPT !.pc = "mergepr"]) ELSE Return(t))
    /\ UNCHANGED pubVars

\* MergePR is given no SHA: GitHub merges the head of the moment.
MergePR(t) ==
    /\ At(t, "mergepr")
    /\ IF pr = "ready"
       THEN /\ pr' = "merged"
            /\ mergedHead' = pushed
            /\ Moves(t, Goto(t, [Top(t) EXCEPT !.pc = "recordmerge"]))
       ELSE UNCHANGED <<pr, mergedHead>> /\ Moves(t, Return(t))
    /\ UNCHANGED <<pushed, checks, booted>>

RecordMerged(t) ==
    /\ At(t, "recordmerge")
    /\ Stores(RecordMerge, t, Goto(t, Done(Top(t))))

----------------------------------------------------------------------------
(* The operator's tools. *)

PublishApproved ==
    /\ thread[Operator] = <<>>
    /\ Publishable
    /\ thread' = [thread EXCEPT ![Operator] = <<Call("publish", NoRun)>>]
    /\ UNCHANGED <<storeVars, record, remote, queue, gitVars, budget, pubVars>>

\* GetPR; asked for only when somebody pushed ("when a recorded PR head changed").
\* A review of that head in progress is left alone.
AskRereview ==
    /\ thread[Operator] = <<>>
    /\ job.pullRequest
    /\ pr = "ready" /\ pushed \in Foreign
    /\ ~(job.status = "holistic_reviewing" /\ job.integrationSHA = pushed)
    /\ thread' = [thread EXCEPT ![Operator] =
                    <<[Call("rereview", NoRun) EXCEPT !.sha = pushed]>>]
    /\ UNCHANGED <<storeVars, record, remote, queue, gitVars, budget, pubVars>>

Rereview(t) ==
    /\ At(t, "rereview")
    /\ Stores(StartHolisticRereview(Top(t).sha), t,
              Goto(t, [Top(t) EXCEPT !.pc = "startreview"]))

----------------------------------------------------------------------------
(* GitHub, the people who use it, and the holistic reviewer. *)

hubFree == <<vars, booted>>

Promote ==
    /\ pr = "draft"
    /\ pr' = "ready"
    /\ UNCHANGED <<hubFree, pushed, checks, mergedHead>>

CompleteCheck ==
    /\ pr # "none" /\ checks[pushed] = "pending"
    /\ \E result \in {"passed"} \union Prints : checks' = [checks EXCEPT ![pushed] = result]
    /\ UNCHANGED <<hubFree, pushed, pr, mergedHead>>

\* Pushes are bounded to pull requests that wait to be merged.
Push ==
    /\ budget.pushes > 0
    /\ pr = "ready" /\ job.status = "ready_to_publish"
    /\ pushed' = MaxSHA - budget.pushes + 1
    /\ budget' = [budget EXCEPT !.pushes = @ - 1]
    /\ UNCHANGED <<storeVars, dispatchVars, gitVars, booted, pr, checks, mergedHead>>

\* A run that is not impatient does not end while startup is going on either.
Patience(d) == budget.patient => booted /\ Recorded(d)

Agent(d) ==
    /\ AgentActs(d) \/ (Patience(d) /\ AgentEnds(d))
    /\ UNCHANGED pubVars

\* The reviewer looks at the commit the job names.
ReviewerActs ==
    /\ Acts(Holistic, job.integrationSHA)
    /\ UNCHANGED <<storeVars, record, thread, queue, gitVars, budget, pubVars>>

ReviewerEnds ==
    /\ Patience(Holistic)
    /\ remote[Holistic].status = "acted"
    /\ \E says \in Verdicts \intersect budget.says, feedback \in Feedbacks \union {"none"} :
          /\ says # "approved" => feedback = "none"
          /\ Ends(Holistic, says, feedback)
    /\ UNCHANGED <<storeVars, gitVars, budget, pubVars>>

\* A call to GitHub fails, or did what was asked and the answer is lost.
HubFault(t) ==
    /\ budget.faults > 0
    /\ \/ /\ \E pc \in {"create", "get", "checks", "open", "gate", "gatechecks", "mergepr"} :
                At(t, pc)
          /\ UNCHANGED <<hubVars, record, remote, queue>>
          /\ thread' = Return(t)
       \/ /\ At(t, "create") \/ At(t, "open")
          /\ Openable
          /\ pr' = IF At(t, "create") THEN "draft" ELSE "ready"
          /\ UNCHANGED <<pushed, checks, mergedHead, record, remote, queue>>
          /\ thread' = Return(t)
       \/ /\ At(t, "mergepr") /\ pr = "ready"
          /\ pr' = "merged" /\ mergedHead' = pushed
          /\ UNCHANGED <<pushed, checks, record, remote, queue>>
          /\ thread' = Return(t)
       \/ /\ At(t, "startreview")
          /\ LaunchFails(Holistic, Return(t))
          /\ UNCHANGED hubVars
    /\ budget' = [budget EXCEPT !.faults = @ - 1]
    /\ UNCHANGED <<storeVars, gitVars, booted>>

----------------------------------------------------------------------------
PublicationStep(t) ==
    \/ HandlerStep(t) /\ UNCHANGED pubVars
    \/ MergeAndPush(t)
    \/ PushBranch(t) \/ CreateDraft(t) \/ RecordDraft(t) \/ GetDraft(t)
    \/ ReadChecks(t) \/ Remediate(t) \/ StartReview(t) \/ OwnJobReview(t)
    \/ ApplyHolistic(t) \/ JobVerdict(t) \/ Fail(t)
    \/ Publish(t) \/ CreateReady(t) \/ RecordReady(t) \/ PassGate(t) \/ GateChecks(t)
    \/ MergePR(t) \/ RecordMerged(t)
    \/ Rereview(t)

\* What goes wrong; launches that fail at the start are in TaskRuns.
Incident ==
    \/ \E t \in Busy : HubFault(t) \/ (Fault(t) /\ UNCHANGED pubVars)
    \/ Restart /\ booted' = FALSE /\ UNCHANGED hubVars
    \/ Push

PublicationNext ==
    \/ \E t \in Busy : PublicationStep(t)
    \/ (Plan \/ Resume) /\ UNCHANGED pubVars
    \/ ResumeReview \/ PollCI
    \/ PublishApproved \/ AskRereview
    \/ Promote \/ CompleteCheck
    \/ ReviewerActs \/ ReviewerEnds \/ \E d \in Runs : Agent(d)
    \/ Incident

PublicationSpec == PublicationInit /\ [][PublicationNext]_allVars

\* Some watcher, some agent, the poller and the operator's call go on; Reconcile goes
\* through its list, the ticker ticks, checks complete, the reviewer ends.
FairPublication ==
    /\ PublicationSpec
    /\ WF_allVars((Plan \/ Resume) /\ UNCHANGED pubVars)
    /\ WF_allVars(ResumeReview \/ PollCI)
    /\ WF_allVars(CompleteCheck)
    /\ WF_allVars(thread[Startup] # <<>> /\ PublicationStep(Startup))
    /\ WF_allVars(thread[Operator] # <<>> /\ PublicationStep(Operator))
    /\ WF_allVars(\E t \in Busy \ {Startup, Operator} : PublicationStep(t))
    /\ WF_allVars(ReviewerActs \/ ReviewerEnds \/ \E d \in Runs : Live(d) /\ Agent(d))

----------------------------------------------------------------------------
\* TestControllerHolisticApprovalIsBoundToIntegrationSHA (controller_test.go:214):
\* what is merged is the commit the holistic reviewer had before it when it approved.
MergedHeadIsReviewed ==
    mergedHead # NoSHA => /\ remote[Holistic].says = "approved"
                          /\ remote[Holistic].saw = mergedHead

OwnCommits == SHAs \ Foreign

\* Nothing is merged without a holistic approval, and what is merged is the commit
\* that was approved, whatever crashes, repeated applications and remediations lead
\* there, except when the review was given a commit that never passed CI or somebody
\* pushed another.
MergedAfterReview ==
    mergedHead # NoSHA =>
        /\ remote[Holistic].says = "approved"
        /\ \/ mergedHead \in Foreign \union {remote[Holistic].saw}
           \/ checks[remote[Holistic].saw] # "passed"

\* Only what passed CI is merged, also on the way through a remediation, unless
\* somebody pushes between the gate and MergePR, which is given no SHA.
MergedHeadPassed == mergedHead \in OwnCommits => checks[mergedHead] = "passed"

\* start_holistic_rereview: "start a new holistic review of that PR's current head".
\* The approval on record is about the commit it is recorded with.
ApprovalIsOfThisHead ==
    job.holisticVerdict = "approved" => remote[Holistic].saw = job.holisticSHA

\* Once a task is settled no call moves it again.
Steady == \A k \in PlanKeys : Settled(k) => task'[k].status = task[k].status

\* A finished task stays finished and a blocked one blocked, although the store does not
\* see to it: BlockTask asks for no status, and StartTaskWork takes a blocked task.  So
\* it holds while no writer fails before its task names it, and no handler of an
\* earlier run comes late, or twice, with a failure.
SettledStays == [][Steady]_storeVars

\* CI remediation of one failure ends: never more than two repairs of a failure
\* that keeps coming back, however the polls and restarts fall.
RemediationStops ==
    \A print \in Prints :
        Cardinality({k \in PlanKeys : task[k].remediation /\ task[k].print = print}) <= 2

Calm == [](budget.crashes = 0 /\ budget.faults = 0)

\* Without crashes and failing calls every job that waits for CI gets out of it: it
\* is reviewed as a whole, it fails, or a repair of it is blocked, unless somebody
\* marks the pull request ready before (startDraftPRCI then refuses it for ever).
CISettles ==
    Calm => (job.status = "awaiting_ci" ~>
               \/ job.holisticVerdict # "pending" \/ job.status = "failed"
               \/ \E k \in PlanKeys : task[k].status = "blocked"
               \/ pr # "draft")

\* Without failing calls and pushes of others the merge of a job that is ready to
\* publish is recorded, also when the process stops between MergePR and RecordMerge:
\* the holistic outcome is unapplied, and its repeated application finds the pull
\* request merged.
MergeIsRecorded ==
    [](budget.faults = 0 /\ budget.pushes = 0) =>
        (pr = "merged" /\ job.status = "ready_to_publish" ~> job.status = "published")
=============================================================================
