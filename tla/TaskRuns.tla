------------------------------ MODULE TaskRuns ------------------------------
(***************************************************************************)
(* The task phase of one job: what the handlers of internal/jobmcp do with *)
(* the terminal responses of Planner, Writer and Reviewer runs (outcome.go *)
(* and the helpers of server.go), on the job store, the dispatcher and the *)
(* git worktrees, with crashes, failing calls and operator retries between *)
(* any two of their steps.  A handler makes one step for every call that   *)
(* reads or writes shared state; a store operation that returns an error   *)
(* ends it, and the dispatch stays unapplied.                              *)
(***************************************************************************)
EXTENDS Dispatcher

CONSTANTS
    Scenarios    \* bound: what may happen to one job

\* The crashes, failing calls and pushes of other people still to come, the
\* operator's retries so far; and, the same to the end, how many of those there
\* may be, the plan sizes, attempts per task, answers and complaints, and whether
\* runs wait with their end until what precedes it has been recorded.
Scenario == [crashes: Nat, faults: Nat, pushes: Nat, retried: Nat, retries: Nat,
             plans: SUBSET Keys, attempts: 1..MaxAttempts,
             says: SUBSET Answers, complaints: SUBSET Feedbacks, patient: BOOLEAN]

\* The integration branch has a commit of its own for every task.
ASSUME ScenariosAssumption == Scenarios \subseteq Scenario /\ MaxTasks <= MaxSHA

VARIABLES
    tree,         \* the task worktrees: branch head, uncommitted changes
    merged,       \* the head of each task branch when it was merged
    adopted,      \* tasks a review of another commit has been adopted for
    budget        \* the scenario, with what is left of it

vars == <<storeVars, dispatchVars, tree, merged, adopted, budget>>
\* Read by no action: what the properties say of the past.
historyVars == <<merged, adopted>>
gitVars == <<tree, historyVars>>

Tree == [head: SHAs \union {NoSHA}, dirty: BOOLEAN]

TypeOK ==
    /\ StoreTypeOK
    /\ DispatchTypeOK
    /\ tree \in [Keys -> Tree]
    /\ merged \in [Keys -> SHAs \union {NoSHA}]
    /\ adopted \subseteq Keys
    /\ budget \in Scenario

Init ==
    /\ Create
    /\ DispatchInit
    /\ tree = [k \in Keys |-> [head |-> NoSHA, dirty |-> FALSE]]
    /\ merged = [k \in Keys |-> NoSHA]
    /\ adopted = {}
    /\ budget \in Scenarios

\* start_planning, and the Planner's run.
Plan ==
    /\ StartPlanning
    /\ Start(Operator, Planner, thread)
    /\ UNCHANGED <<gitVars, budget>>

----------------------------------------------------------------------------
(* Store operations called by a handler. *)

\* Operation op succeeds and goroutine t goes on as in next, or it is refused
\* and t returns the error.
Try(op, t, next) ==
    /\ \/ op /\ thread' = next
       \/ ~ENABLED op /\ UNCHANGED storeVars /\ thread' = Return(t)
    /\ UNCHANGED <<record, remote, queue, budget>>

----------------------------------------------------------------------------
(* startReadyWriters and startWriter. *)

ItemFor(k, own) ==
    [key |-> k, attempt |-> own.writerAttempts + 1, based |-> own.base # NoSHA]

ItemOf(tasks, k) == ItemFor(k, tasks[k])

\* Broken variant: a dependency is taken for finished once it has a commit.
ReadyOnCommit(n, tasks) ==
    {ItemOf(tasks, k) : k \in {k \in 1..n :
        /\ tasks[k].status = "planned"
        /\ \A d \in tasks[k].deps : tasks[d].commit # NoSHA}}

\* The planned tasks whose dependencies are finished.
Ready(n, tasks) ==
    {ItemOf(tasks, k) : k \in {k \in 1..n :
        /\ tasks[k].status = "planned"
        /\ \A d \in tasks[k].deps : Finished(tasks[d])}}

Done(f) == Call("mark", f.run)

\* The next writer to start, or what follows startReadyWriters.
\* Plan order.
Nearest(todo) == CHOOSE i \in todo : \A j \in todo : i.key <= j.key

Continue(f) ==
    IF f.todo # {}
    THEN LET i == Nearest(f.todo)
         IN [f EXCEPT !.pc = IF i.based THEN "writer" ELSE "base",
                      !.item = i, !.todo = @ \ {i}]
    ELSE IF f.publish # "no" THEN [f EXCEPT !.pc = "draft"]
    ELSE Done(f)

\* CreateWorktree: a worktree that exists already is used as it is.
Worktree(k) == [tree EXCEPT ![k].head = IF @ = NoSHA THEN 1 ELSE @]

\* HeadCommit and RecordTaskBase, which refreshes the snapshot.
Base(t) ==
    /\ At(t, "base")
    /\ LET f == Top(t)
           k == f.item.key
       IN /\ tree' = Worktree(k)
          /\ Try(RecordTaskBase(k, Worktree(k)[k].head), t,
                 Goto(t, [f EXCEPT !.pc = "writer", !.item = ItemOf(task', k)]))
    /\ UNCHANGED historyVars

StartWriterRun(t) ==
    /\ At(t, "writer")
    /\ LET f == Top(t)
       IN /\ tree' = Worktree(f.item.key)
          /\ Start(t, Writer(f.item.key, f.item.attempt), Goto(t, [f EXCEPT !.pc = "work"]))
    /\ UNCHANGED <<storeVars, historyVars, budget>>

Work(t) ==
    /\ At(t, "work")
    /\ task[Top(t).item.key].writerAttempts < MaxAttempts
    /\ LET f == Top(t)
       IN Try(StartTaskWork(f.item.key, Writer(f.item.key, f.item.attempt)), t,
              Goto(t, Continue(f)))
    /\ UNCHANGED gitVars

----------------------------------------------------------------------------
(* applyPlan. *)

ApplyPlan(t) ==
    /\ At(t, "apply")
    /\ Top(t).run = Planner
    /\ \/ /\ remote[Planner].says = "failed"
          /\ FailJob
          /\ thread' = Goto(t, Done(Top(t)))
       \/ /\ remote[Planner].says = "plan"
          /\ \/ \E n \in budget.plans : \E deps \in [1..n -> SUBSET (1..n)] : SubmitPlan(n, deps)
             \/ planned > 0 /\ UNCHANGED storeVars
          /\ thread' = Goto(t, Continue([Top(t) EXCEPT !.todo = Ready(planned', task')]))
    /\ UNCHANGED <<record, remote, queue, gitVars, budget>>

----------------------------------------------------------------------------
(* applyWriter. *)

ReviewNext(f, t) ==
    [f EXCEPT !.pc = "review", !.item = [key |-> f.run.key, based |-> TRUE,
                                         attempt |-> t.reviewerAttempts + 1]]

\* Broken variant: a writer whose task has moved on is taken for a blocked one.
AdvancedBlocks(f) == [f EXCEPT !.pc = "block"]

\* A previous application already advanced this writer's task.
Advanced(f) == Done(f)

ApplyWriter(t) ==
    /\ At(t, "apply")
    /\ LET f == Top(t)
           d == f.run
           own == task[d.key]
           to(call) == thread' = Goto(t, call) /\ UNCHANGED storeVars
       IN /\ d.role = "writer"
          /\ \/ /\ remote[d].says = "failed"
                /\ BlockTask(d.key)
                /\ thread' = Goto(t, Done(f))
             \/ /\ remote[d].says \in {"changes", "no_changes"}
                /\ IF own.writerRun # d
                   THEN thread' = Return(t) /\ UNCHANGED storeVars
                   ELSE CASE own.status = "reviewing" /\ own.reviewerRun = NoRun ->
                                to(ReviewNext(f, own))
                          [] own.status = "working" -> to([f EXCEPT !.pc = "tree"])
                          [] OTHER -> to(Advanced(f))
    /\ UNCHANGED <<record, remote, queue, gitVars, budget>>

\* HasChanges and, on a dirty tree, Commit.  A response that contradicts the
\* worktree is an error.
Commit(t) ==
    /\ At(t, "tree")
    /\ LET f == Top(t)
           k == f.run.key
           sha == tree[k].head + 1
       IN \/ /\ tree[k].dirty /\ remote[f.run].says = "changes"
             /\ sha \in SHAs
             /\ tree' = [tree EXCEPT ![k] = [head |-> sha, dirty |-> FALSE]]
             /\ thread' = Goto(t, [f EXCEPT !.pc = "complete", !.sha = sha])
          \/ /\ ~tree[k].dirty /\ remote[f.run].says = "no_changes"
             /\ thread' = Goto(t, [f EXCEPT !.pc = "nochanges"])
             /\ UNCHANGED tree
          \/ /\ tree[k].dirty # (remote[f.run].says = "changes")
             /\ thread' = Return(t)
             /\ UNCHANGED tree
    /\ UNCHANGED <<storeVars, record, remote, queue, historyVars, budget>>

Complete(t) ==
    /\ At(t, "complete")
    /\ LET f == Top(t)
       IN Try(RecordWriterCompletion(f.run.key, f.run, f.sha), t,
              Goto(t, ReviewNext(f, task'[f.run.key])))
    /\ UNCHANGED gitVars

NoChanges(t) ==
    /\ At(t, "nochanges")
    /\ LET f == Top(t)
       IN Try(RecordNoChanges(f.run.key, f.run), t,
              Goto(t, [f EXCEPT !.pc = "integrate"]))
    /\ UNCHANGED gitVars

StartReviewerRun(t) ==
    /\ At(t, "review")
    /\ LET f == Top(t)
       IN Start(t, Reviewer(f.item.key, f.item.attempt), Goto(t, [f EXCEPT !.pc = "own"]))
    /\ UNCHANGED <<storeVars, gitVars, budget>>

OwnReview(t) ==
    /\ At(t, "own")
    /\ LET f == Top(t)
       IN Try(StartReviewer(f.item.key, Reviewer(f.item.key, f.item.attempt)), t,
              Goto(t, Done(f)))
    /\ UNCHANGED gitVars

----------------------------------------------------------------------------
(* applyReview. *)

ApplyReview(t) ==
    /\ At(t, "apply")
    /\ LET f == Top(t)
           d == f.run
           own == task[d.key]
       IN /\ d.role = "reviewer"
          /\ IF remote[d].says = "failed"
             THEN BlockTask(d.key) /\ thread' = Goto(t, Done(f))
             ELSE /\ thread' = Goto(t,
                       IF /\ remote[d].says = "changes_requested"
                          /\ own.reviewerRun = d /\ own.status = "working"
                       THEN Done(f) ELSE Call("report", d))
                  /\ UNCHANGED storeVars
    /\ UNCHANGED <<record, remote, queue, gitVars, budget>>

FileReport(t) ==
    /\ At(t, "report")
    /\ LET f == Top(t)
           d == f.run
       IN Try(RecordReviewReport(d.key, d, remote[d].says, remote[d].feedback), t,
              Goto(t, [f EXCEPT !.pc = "verdict"]))
    /\ UNCHANGED gitVars

\* repeatedReviewFeedback: the latest report and the equal ones just before it.
Repeated(history) ==
    LET last == history[Len(history)]
        same(i) == /\ history[i].verdict = "changes_requested"
                   /\ history[i].feedback = last.feedback
    IN IF history = <<>> THEN 0
       ELSE Cardinality({i \in DOMAIN history : \A j \in i..Len(history) : same(j)})

\* Broken variants: the loop is cut one attempt late; an approval is marked as
\* applied and never integrated.
AfterVerdictLate(f, says, own) ==
    CASE says = "approved" -> [f EXCEPT !.pc = "integrate"]
      [] says = "changes_requested" /\ Repeated(own.history) <= 3 ->
           Continue([f EXCEPT !.todo = {ItemFor(f.run.key, own)}])
      [] OTHER -> [f EXCEPT !.pc = "block"]

AfterVerdictIdle(f, says, own) ==
    CASE says = "approved" -> Done(f)
      [] says = "changes_requested" /\ Repeated(own.history) < 3 ->
           Continue([f EXCEPT !.todo = {ItemFor(f.run.key, own)}])
      [] OTHER -> [f EXCEPT !.pc = "block"]

AfterVerdict(f, says, own) ==
    CASE says = "approved" -> [f EXCEPT !.pc = "integrate"]
      [] says = "changes_requested" /\ Repeated(own.history) < 3 ->
           Continue([f EXCEPT !.todo = {ItemFor(f.run.key, own)}])
      [] OTHER -> [f EXCEPT !.pc = "block"]

\* Run d owns a review of another commit than the one its report names.
Misplaced(own, d) ==
    /\ own.reviewerRun = d
    /\ \E i \in DOMAIN own.history :
          own.history[i].run = d /\ own.history[i].commit # own.commit

Verdict(t) ==
    /\ At(t, "verdict")
    /\ LET f == Top(t)
           d == f.run
       IN /\ Try(RecordReview(d.key, d, remote[d].says), t,
                 Goto(t, AfterVerdict(f, remote[d].says, task'[d.key])))
          /\ adopted' = IF Misplaced(task'[d.key], d) THEN adopted \union {d.key} ELSE adopted
    /\ UNCHANGED <<tree, merged>>

Block(t) ==
    /\ At(t, "block")
    /\ LET f == Top(t)
       IN Try(BlockTask(f.run.key), t, Goto(t, Done(f)))
    /\ UNCHANGED gitVars

----------------------------------------------------------------------------
(* integrateEligible and startDraftPRCI. *)

\* The first eligible task of the snapshot, or startReadyWriters.
Pick(f, tasks, j) ==
    LET eligible == {k \in PlanKeys : tasks[k].status = "integration_eligible"}
    IN IF eligible # {}
       THEN [f EXCEPT !.pc = "begin", !.item = [NoItem EXCEPT !.key =
               CHOOSE k \in eligible : \A l \in eligible : k <= l]]
       ELSE Continue([f EXCEPT !.todo = Ready(planned, tasks),
                               !.sha = j.integrationSHA,
                               !.publish = IF j.status # "holistic_reviewing" THEN "no"
                                           ELSE IF j.pullRequest THEN "known" ELSE "new"])

Integrate(t) ==
    /\ At(t, "integrate")
    /\ thread' = Goto(t, Pick(Top(t), task, job))
    /\ UNCHANGED <<storeVars, record, remote, queue, gitVars, budget>>

Begin(t) ==
    /\ At(t, "begin")
    /\ LET f == Top(t)
       IN Try(StartIntegration(f.item.key), t, Goto(t, [f EXCEPT !.pc = "merge"]))
    /\ UNCHANGED gitVars

\* Broken variant: the head of the integration worktree is not read again.
MergeCommitUnread(k) == NoSHA

\* The head of the integration worktree after the merge of task k.
MergeCommit(k) == 1 + Cardinality({j \in Keys : merged[j] # NoSHA /\ j # k})

\* MergeTask merges the task's branch, whatever its head is by now.
Merge(t) ==
    /\ At(t, "merge")
    /\ LET f == Top(t)
           k == f.item.key
       IN /\ merged' = [merged EXCEPT ![k] = tree[k].head]
          /\ thread' = Goto(t, [f EXCEPT !.pc = "merged", !.sha = MergeCommit(k)])
    /\ UNCHANGED <<storeVars, record, remote, queue, tree, adopted, budget>>

Integrated(t) ==
    /\ At(t, "merged")
    /\ LET f == Top(t)
       IN Try(RecordIntegration(f.item.key, f.sha), t,
              Goto(t, Pick(f, task', job')))
    /\ UNCHANGED gitVars

\* startDraftPRCI up to StartCI; module Publication has its steps.
Draft(t) ==
    /\ At(t, "draft")
    /\ Try(RecordPullRequest, t, Goto(t, [Top(t) EXCEPT !.pc = "ci",
                                                        !.sha = job'.integrationSHA]))
    /\ UNCHANGED gitVars

AwaitCI(t) ==
    /\ At(t, "ci")
    /\ Try(StartCI(Top(t).sha), t, Goto(t, Done(Top(t))))
    /\ UNCHANGED gitVars

----------------------------------------------------------------------------
(* retry_code_task. *)

Retry(k) ==
    /\ budget.retried < budget.retries
    /\ thread[Operator] = <<>>
    /\ task[k].status = "working" /\ task[k].writerRun # NoRun
    /\ Supersede(Writer(k, task[k].writerAttempts))
    /\ thread' = [thread EXCEPT ![Operator] =
                    <<[Call("retry", task[k].writerRun) EXCEPT !.item.key = k]>>]
    /\ budget' = [budget EXCEPT !.retried = @ + 1]
    /\ UNCHANGED <<storeVars, remote, queue, gitVars>>

Reset(t) ==
    /\ At(t, "retry")
    /\ LET f == Top(t)
           k == f.item.key
       IN Try(RetryWriter(k, f.run), t,
              Goto(t, Continue([f EXCEPT !.todo = {ItemOf(task', k)}])))
    /\ UNCHANGED gitVars

----------------------------------------------------------------------------
(* Failing calls, crashes, agents. *)

FailingCalls == {"apply", "base", "tree", "merge", "draft"}

\* A call to git, GitHub or AgentFoundry returns an error, or the response of
\* the run cannot be decoded.
Fault(t) ==
    /\ budget.faults > 0
    /\ \/ /\ At(t, "writer")
          /\ LaunchFails(Writer(Top(t).item.key, Top(t).item.attempt), Return(t))
       \/ /\ At(t, "review")
          /\ LaunchFails(Reviewer(Top(t).item.key, Top(t).item.attempt), Return(t))
       \/ /\ \E pc \in FailingCalls : At(t, pc)
          /\ thread' = Return(t)
          /\ UNCHANGED <<record, remote, queue>>
    /\ budget' = [budget EXCEPT !.faults = @ - 1]
    /\ UNCHANGED <<storeVars, gitVars>>

StartupFault ==
    /\ budget.faults > 0
    /\ ReconcileFails
    /\ budget' = [budget EXCEPT !.faults = @ - 1]
    /\ UNCHANGED <<storeVars, gitVars>>

Restart ==
    /\ budget.crashes > 0
    /\ Crash
    /\ budget' = [budget EXCEPT !.crashes = @ - 1]
    /\ UNCHANGED <<storeVars, gitVars>>

Resume == Reconcile /\ UNCHANGED <<storeVars, gitVars, budget>>

AgentActs(d) ==
    /\ \/ /\ d.role = "writer"
          /\ tree' = [tree EXCEPT ![d.key].dirty = TRUE]
          /\ Acts(d, NoSHA)
       \/ /\ d.role = "reviewer"
          /\ UNCHANGED tree
          /\ Acts(d, task[d.key].commit)
    /\ UNCHANGED <<storeVars, record, thread, queue, historyVars, budget>>

Busy == {t \in Threads : thread[t] # <<>>}

Live(d) == remote[d].status \in {"running", "acted"}

\* No goroutine has still to record d as the run its task waits for, or an
\* outcome as applied.
Recorded(d) ==
    \A t \in Busy :
        /\ ~At(t, "mark")
        /\ At(t, "work") \/ At(t, "own") => Top(t).item.key # d.key

\* Agents tell the truth about what they did, may fail at any time, and ask
\* for changes only while the bound leaves another attempt.
AgentEnds(d) ==
    /\ Live(d)
    /\ budget.patient => Recorded(d)
    /\ \/ d = Planner /\ Ends(d, "plan", "none")
       \/ /\ d.role = "writer"
          /\ \/ remote[d].status = "acted" /\ Ends(d, "changes", "none")
             \/ remote[d].status = "running" /\ Ends(d, "no_changes", "none")
       \/ /\ d.role = "reviewer"
          /\ remote[d].status = "acted"
          /\ \E says \in Verdicts \intersect budget.says, feedback \in budget.complaints :
                /\ says = "changes_requested" => task[d.key].writerAttempts < budget.attempts
                /\ Ends(d, says, feedback)
       \/ "failed" \in budget.says /\ Ends(d, "failed", "none")
    /\ UNCHANGED <<storeVars, gitVars, budget>>

----------------------------------------------------------------------------
\* The steps that do not touch the remote repository.
HandlerStep(t) ==
    \/ (Observe(t) \/ Mark(t)) /\ UNCHANGED <<storeVars, gitVars, budget>>
    \/ ApplyPlan(t) \/ ApplyWriter(t) \/ ApplyReview(t)
    \/ Base(t) \/ StartWriterRun(t) \/ Work(t)
    \/ Commit(t) \/ Complete(t) \/ NoChanges(t) \/ StartReviewerRun(t) \/ OwnReview(t)
    \/ FileReport(t) \/ Verdict(t) \/ Block(t)
    \/ Integrate(t) \/ Begin(t) \/ Integrated(t) \/ AwaitCI(t)
    \/ Reset(t)

Step(t) == HandlerStep(t) \/ Merge(t) \/ Draft(t)

Next ==
    \/ Plan \/ Resume
    \/ \E t \in Busy : Step(t) \/ Fault(t)
    \/ \E k \in PlanKeys : Retry(k)
    \/ StartupFault \/ Restart
    \/ \E d \in Runs : AgentActs(d) \/ AgentEnds(d)

Spec == Init /\ [][Next]_vars

\* What the program and its agents do by themselves.
Progress ==
    \/ Plan \/ Resume
    \/ \E t \in Busy : Step(t)
    \/ \E d \in Runs : AgentActs(d) \/ AgentEnds(d)

\* Some goroutine is scheduled, Reconcile goes through its list, some agent goes on.
FairSpec == Spec /\ WF_vars(Progress)

----------------------------------------------------------------------------
JS == INSTANCE JobStore

\* A writer that nobody superseded and that its task does not name.  startReadyWriters
\* works on a snapshot, and of two handlers that start the same task the one that comes
\* second launches the next attempt, or names the attempt before it.
Stray(d) ==
    d.role = "writer" /\ task[d.key].writerRun # d /\ record[d] # "superseded"

\* No two agents ever work on one task at a time, two writers in one worktree or
\* a writer under a reviewer's eyes, although a crash, a repeated application
\* and a retry may each start the same attempt again; except for a writer that the
\* task does not know of, and after an adopted review.
OneLiveAgent ==
    \A c, d \in {d \in Runs : Live(d)} : c.key = d.key =>
        c = d \/ Stray(c) \/ Stray(d) \/ d.key \in adopted

\* The handlers implement the job store's specification: whatever crashes,
\* repeated applications and failing calls do, every step is an operation of
\* JobStore or leaves the record alone, so that its theorems hold of the program.
ImplementsJobStore == JS!Spec

\* No late outcome blocks a task that is finished already, except after a retry or
\* an adopted review, and in plans of several tasks, where it may be the outcome of
\* a stray writer.
FinishedIsNotBlocked ==
    [][budget.retries = 0 /\ adopted = {} /\ planned' <= 1 => JS!OrderlyNext]_storeVars

\* What is merged is what a reviewer approved: the head of the task branch at the
\* moment of MergeTask, which is given no SHA, is a commit that a reviewer run
\* of that task had before it when it answered "approved"; except after an adopted
\* review.
MergedIsReviewed ==
    \A k \in PlanKeys \ adopted : merged[k] # NoSHA =>
        \E d \in Runs : /\ d.role = "reviewer" /\ d.key = k
                       /\ remote[d].says = "approved"
                       /\ remote[d].saw = merged[k]

Approved(k) ==
    task[k].status \in {"approved", "integration_eligible", "integrating", "integrated"}

\* An approval stands for the commit recorded with it: no repeated or superseded
\* review approves a commit its reviewer did not read, unless a review of another
\* commit has been adopted before.
ApprovalIsOfThisCommit ==
    \A k \in PlanKeys \ adopted :
        Approved(k) => remote[task[k].reviewerRun].saw = task[k].commit

\* Every report in a review history names the commit its reviewer read
\* (ReviewedCommitSHA, store.go:129), also when the report is delivered again
\* after the next attempt was committed; unless a review has been adopted before.
ReportsNameTheirCommit ==
    \A k \in PlanKeys \ adopted : \A i \in DOMAIN task[k].history :
        task[k].history[i].commit = remote[task[k].history[i].run].saw

ReviewersOf(k) == {d \in Runs : d.role = "reviewer" /\ d.key = k}

\* A handler is about to start the reviewer run d.
ReviewCalled(d) ==
    \E t \in Threads : \E i \in DOMAIN thread[t] :
        thread[t][i].pc = "review" /\ d = Reviewer(thread[t][i].item.key, thread[t][i].item.attempt)

\* Run d has been started, or will be without anybody deciding so again.
Requested(d) ==
    \/ remote[d].status # "absent" \/ record[d] = "starting"
    \/ \E e \in queue : e.run = d /\ e.status = "starting"
    \/ ReviewCalled(d)

Filed(d) == \E i \in DOMAIN task[d.key].history : task[d.key].history[i].run = d

Failed(d) == remote[d].says = "failed"

\* Every reviewer run asked for has filed its report or failed.
ReviewsOver(k) == \A d \in ReviewersOf(k) : Requested(d) => Filed(d) \/ Failed(d)

EndBeforeWork ==
    \A k \in PlanKeys \ adopted :
        task[k].status = "blocked" /\ task'[k].status # "blocked" => ReviewsOver(k)

\* A blocked task is put to work again (StartTaskWork) only when its reviews are over:
\* no answer of a reviewer is still on its way that would then be filed with a commit
\* it has not read.  The store does not look; what keeps the answers apart is that a
\* review blocks its task by reporting or failing.
ReviewsEndFirst == [][EndBeforeWork]_storeVars

InReview(k) == task[k].status = "reviewing" \/ Approved(k)

\* A handler is about to merge the branch of task k.
MergeCalled(k) ==
    \E t \in Threads : \E i \in DOMAIN thread[t] :
        thread[t][i].pc = "merge" /\ thread[t][i].item.key = k

HeadStands(k) ==
    /\ InReview(k) \/ MergeCalled(k) => tree'[k].head = tree[k].head
    /\ task[k].status # "reviewing" /\ task'[k].status = "reviewing" =>
          task'[k].commit = tree'[k].head

\* A review begins on the head of the task branch (RecordWriterCompletion), and nobody
\* commits to the branch until the review is over and what it approved is merged.
\* MergeTask is given a branch and no commit; and applyWriter (outcome.go:151) commits
\* what it finds in the worktree on account of a status it has read before.
HeadsStand == [][\A k \in PlanKeys : HeadStands(k)]_<<task, tree>>

\* A review is left alone: no new work of its task begins under it, in the record or
\* in the branch.
ReviewsStand == ReviewsEndFirst /\ HeadsStand

\* Three equal requests for changes in a row end the revision loop (outcome.go:229): no
\* agent works for a task whose history ends in three, although a repeated application
\* of an earlier request may still name the ended writer it had started.
RevisionLoopStops ==
    \A d \in Runs :
        d.role = "writer" /\ Live(d) /\ task[d.key].writerRun = d
        => Repeated(task[d.key].history) < 3

\* The work of task k is in the integration branch, or its writer found none to do.
Delivered(k) ==
    \/ merged[k] # NoSHA
    \/ \E d \in Runs : d.role = "writer" /\ d.key = k /\ remote[d].says = "no_changes"

\* A task is worked on in a worktree cut from an integration branch that has the
\* work of every task it depends on, also when such a task does not stay finished:
\* the failure of a stray writer may still block it.
DependenciesFirst ==
    \A k \in PlanKeys : tree[k].head # NoSHA => \A d \in task[k].deps : Delivered(d)

Settled(k) == task[k].status \in {"integrated", "no_changes", "blocked"}

\* Tasks no call moves any more.  The process stopped between StartIntegration and
\* RecordIntegration; or between the commit of a writer's work and its record, so
\* that the worktree contradicts the answer when it is applied again; or between
\* StartWriter and StartTaskWork (StartReviewer), and the run ended before its
\* handler had told the task of it; or after RecordNoChanges, whose repetition
\* does not start what is ready now.
Stranded(k) ==
    \/ task[k].status = "planned" /\ \E j \in PlanKeys : task[j].status = "no_changes"
    \/ task[k].status = "integrating"
    \/ task[k].status = "working" /\ remote[task[k].writerRun].status = "ended"
    \/ /\ task[k].status = "reviewing" /\ task[k].reviewerRun # NoRun
       /\ remote[task[k].reviewerRun].status = "ended"

\* A task waits for tasks before it that are not finished, or was approved before
\* one of them turned out to need no changes.
Waits(k) ==
    \/ task[k].status = "planned" /\ \E d \in task[k].deps : ~Finished(task[d])
    \/ /\ task[k].status = "approved"
       /\ \E j \in 1..(k - 1) : ~Finished(task[j]) \/ task[j].status = "no_changes"

\* Without crashes and failing calls, and with agents that do not outrun the store,
\* the job fails in planning, or every task is in the end integrated, without
\* changes, or blocked, or waits behind one that is not finished.
EveryTaskSettles ==
    [](budget.crashes = 0) =>
        <>[](\/ job.status = "failed"
             \/ planned > 0 /\ \A k \in PlanKeys : Settled(k) \/ Waits(k))

\* A crash anywhere is recovered from, but for the windows that strand a task: no
\* task stays between two runs, approved, or eligible for integration for ever.
TasksRecover ==
    <>[](\/ job.status = "failed"
         \/ planned > 0 /\ \A k \in PlanKeys : Settled(k) \/ Waits(k) \/ Stranded(k))

\* controller.go:209: a review is adopted from "a later writer attempt" because it
\* "belongs to the next review".  A verdict is about the commit it is filed with.
VerdictIsOfThisCommit ==
    \A k \in PlanKeys :
        task[k].verdict # "pending" => remote[task[k].reviewerRun].saw = task[k].commit

\* retry_code_task: "The rejected result is retained as superseded history."
SupersededIsRetained ==
    [][\A d \in Runs : record[d] = "superseded" => record'[d] = "superseded"]_vars

\* An approved task becomes eligible when the tasks before it are finished
\* (controller_test.go: "dependent was not made eligible").
ApprovedIsPromoted ==
    \A k \in PlanKeys :
        task[k].status = "approved" => ~IntegrationPrerequisitesMet(task, k)
=============================================================================
