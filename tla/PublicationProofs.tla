------------------------- MODULE PublicationProofs -------------------------
(***************************************************************************)
(* What holds from the first worktree to the merged pull request, for any  *)
(* number of tasks, attempts, failing calls, crashes and pushes of others. *)
(*                                                                         *)
(* The invariant of TaskRunsProofs holds of the composition too; what the  *)
(* publication adds is that the verdict on record is the answer of the     *)
(* holistic reviewer, and that nothing is merged without its approval.     *)
(***************************************************************************)
EXTENDS Publication, TaskRunsProofs

HubTypeOK ==
    /\ pushed \in SHAs \union {NoSHA}
    /\ pr \in {"none", "draft", "ready", "merged"}
    /\ checks \in [SHAs -> {"pending", "passed"} \union Prints]
    /\ mergedHead \in SHAs \union {NoSHA}
    /\ booted \in BOOLEAN
    /\ budget.pushes <= MaxPushes

\* The holistic review on record, on GitHub and in the job.
JobReviewed ==
    /\ job.holisticVerdict # "pending" => remote[Holistic].says = job.holisticVerdict
    /\ mergedHead # NoSHA => remote[Holistic].says = "approved"
    /\ job.mergeState = "merged" => remote[Holistic].says = "approved"

JobInv == RunsInv /\ HubTypeOK /\ JobReviewed

----------------------------------------------------------------------------
(* The handlers of TaskRuns leave the holistic review alone. *)

SameReview ==
    /\ job'.holisticVerdict = job.holisticVerdict
    /\ job'.mergeState = job.mergeState

LEMMA UnchangedReview == UNCHANGED job => SameReview
BY DEF SameReview

LEMMA TaskOperations ==
  ASSUME StoreTypeOK
  PROVE  /\ StartPlanning => SameReview
         /\ \A n, deps : SubmitPlan(n, deps) => SameReview
         /\ \A k, sha : RecordTaskBase(k, sha) => SameReview
         /\ \A k, run : StartTaskWork(k, run) => SameReview
         /\ \A k, run, sha : RecordWriterCompletion(k, run, sha) => SameReview
         /\ \A k, run : RecordNoChanges(k, run) => SameReview
         /\ \A k, run : RetryWriter(k, run) => SameReview
         /\ \A k : BlockTask(k) => SameReview
         /\ \A k, run : StartReviewer(k, run) => SameReview
         /\ \A k, run, v, feedback : RecordReviewReport(k, run, v, feedback) => SameReview
         /\ \A k, run, v : RecordReview(k, run, v) => SameReview
         /\ \A k : StartIntegration(k) => SameReview
         /\ \A k, sha : RecordIntegration(k, sha) => SameReview
         /\ FailJob => SameReview
         /\ \A sha : StartCI(sha) => SameReview
<1>1. job \in Job
  BY DEF StoreTypeOK
<1>2. \A status : SameReview \/ job' # [job EXCEPT !.status = status]
  BY <1>1 DEF SameReview, Job
<1>3. StartPlanning => SameReview
  BY <1>1 DEF StartPlanning, SameReview, Job
<1>4. \A n, deps : SubmitPlan(n, deps) => SameReview
  BY <1>2 DEF SubmitPlan
<1>5. \A k, sha : RecordTaskBase(k, sha) => SameReview
  BY DEF RecordTaskBase, SameReview
<1>6. \A k, run : StartTaskWork(k, run) => SameReview
  BY <1>2, UnchangedReview DEF StartTaskWork, storeVars
<1>7. \A k, run, sha : RecordWriterCompletion(k, run, sha) => SameReview
  BY <1>2, UnchangedReview DEF RecordWriterCompletion, storeVars
<1>8. \A k, run : RecordNoChanges(k, run) => SameReview
  BY <1>2, UnchangedReview DEF RecordNoChanges, storeVars
<1>9. \A k, run : RetryWriter(k, run) => SameReview
  BY <1>2 DEF RetryWriter
<1>10. \A k : BlockTask(k) => SameReview
  BY UnchangedReview DEF BlockTask
<1>11. \A k, run : StartReviewer(k, run) => SameReview
  BY UnchangedReview DEF StartReviewer, storeVars
<1>12. \A k, run, v, feedback : RecordReviewReport(k, run, v, feedback) => SameReview
  BY UnchangedReview DEF RecordReviewReport
<1>13. \A k, run, v : RecordReview(k, run, v) => SameReview
  BY UnchangedReview DEF RecordReview, storeVars
<1>14. \A k : StartIntegration(k) => SameReview
  BY <1>2 DEF StartIntegration
<1>15. \A k, sha : RecordIntegration(k, sha) => SameReview
  BY <1>1 DEF RecordIntegration, SameReview, Job
<1>16. FailJob => SameReview
  BY <1>2 DEF FailJob
<1>17. \A sha : StartCI(sha) => SameReview
  BY <1>2, UnchangedReview DEF StartCI, storeVars
<1> QED BY <1>3, <1>4, <1>5, <1>6, <1>7, <1>8, <1>9, <1>10, <1>11, <1>12, <1>13, <1>14, <1>15,
           <1>16, <1>17

LEMMA HandlerReview ==
  ASSUME StoreTypeOK, NEW t, HandlerStep(t)
  PROVE  SameReview /\ UNCHANGED budget
<1> DEFINE f == Top(t)
<1> USE TaskOperations
<1>0. UNCHANGED storeVars => SameReview
  BY UnchangedReview DEF storeVars
<1>1. CASE (Observe(t) \/ Mark(t)) /\ UNCHANGED <<storeVars, gitVars, budget>>
  BY <1>0, <1>1
<1>2. CASE ApplyPlan(t)
  BY <1>0, <1>2 DEF ApplyPlan
<1>3. CASE ApplyWriter(t)
  BY <1>0, <1>3 DEF ApplyWriter
<1>4. CASE ApplyReview(t)
  BY <1>0, <1>4 DEF ApplyReview
<1>5. CASE Base(t)
  BY <1>0, <1>5, TryCases DEF Base
<1>6. CASE StartWriterRun(t) \/ StartReviewerRun(t) \/ Commit(t) \/ Integrate(t)
  BY <1>0, <1>6 DEF StartWriterRun, StartReviewerRun, Commit, Integrate
<1>7. CASE Work(t)
  BY <1>0, <1>7, TryCases DEF Work
<1>8. CASE Complete(t)
  BY <1>0, <1>8, TryCases DEF Complete
<1>9. CASE NoChanges(t)
  BY <1>0, <1>9, TryCases DEF NoChanges
<1>10. CASE OwnReview(t)
  BY <1>0, <1>10, TryCases DEF OwnReview
<1>11. CASE FileReport(t)
  BY <1>0, <1>11, TryCases DEF FileReport
<1>12. CASE Verdict(t)
  BY <1>0, <1>12, TryCases DEF Verdict
<1>13. CASE Block(t)
  BY <1>0, <1>13, TryCases DEF Block
<1>14. CASE Begin(t)
  BY <1>0, <1>14, TryCases DEF Begin
<1>15. CASE Integrated(t)
  BY <1>0, <1>15, TryCases DEF Integrated
<1>16. CASE AwaitCI(t)
  BY <1>0, <1>16, TryCases DEF AwaitCI
<1>17. CASE Reset(t)
  BY <1>0, <1>17, TryCases DEF Reset
<1> QED BY <1>1, <1>2, <1>3, <1>4, <1>5, <1>6, <1>7, <1>8, <1>9, <1>10, <1>11, <1>12, <1>13,
           <1>14, <1>15, <1>16, <1>17 DEF HandlerStep

----------------------------------------------------------------------------
(* How a step keeps the invariant. *)

\* Review: what a step may do to the record of the holistic review.
ReviewOn ==
    /\ job'.holisticVerdict \in {job.holisticVerdict, "pending", remote[Holistic].says}
    /\ job'.mergeState = "merged" =>
          job.mergeState = "merged" \/ remote[Holistic].says = "approved"
    /\ mergedHead' # NoSHA => mergedHead # NoSHA \/ remote[Holistic].says = "approved"

\* What every step does: it keeps the invariant, takes back nothing agents answered,
\* and is an operation of the job store or leaves its record alone.
JobKept == JobInv' /\ RunsOn /\ [Store!Next]_storeVars

LEMMA JobClose ==
  ASSUME JobInv, RunsInv', RunsOn, [Store!Next]_storeVars, HubTypeOK', ReviewOn
  PROVE  JobKept
<1>1. remote[Holistic].says # "nothing" => remote'[Holistic] = remote[Holistic]
  BY RunTypes DEF JobInv, RunsInv, RunsKept, RunsOn
<1>2. job.holisticVerdict # "nothing"
  BY DEF JobInv, RunsInv, StoreTypeOK, Job, Verdicts
<1>3. job'.holisticVerdict # "pending" => remote'[Holistic].says = job'.holisticVerdict
  <2>1. job'.holisticVerdict # "nothing"
    BY DEF RunsInv, StoreTypeOK, Job, Verdicts
  <2> QED BY <1>1, <1>2, <2>1 DEF ReviewOn, JobInv, JobReviewed
<1>4. mergedHead' # NoSHA => remote'[Holistic].says = "approved"
  BY <1>1 DEF ReviewOn, JobInv, JobReviewed
<1>5. job'.mergeState = "merged" => remote'[Holistic].says = "approved"
  BY <1>1 DEF ReviewOn, JobInv, JobReviewed
<1> QED BY <1>3, <1>4, <1>5 DEF JobKept, JobInv, JobReviewed

LEMMA SameHub ==
  ASSUME JobInv, UNCHANGED pubVars, budget'.pushes = budget.pushes
  PROVE  HubTypeOK' /\ (SameReview => ReviewOn)
BY DEF JobInv, HubTypeOK, pubVars, hubVars, SameReview, ReviewOn

\* What publication has not changed.
Elsewhere == UNCHANGED <<record, remote, queue, gitVars, budget>>

LEMMA HubStep ==
  ASSUME JobInv, Elsewhere, [Store!Next]_storeVars, StoreInv', Onward, AllQuiet, HubTypeOK', ReviewOn,
         thread' \in [Threads -> Seq(Frames')]
  PROVE  JobKept
<1>1. UNCHANGED <<tree, merged, adopted>> /\ adopted' \subseteq Keys /\ RunsOn
  BY DEF Elsewhere, gitVars, historyVars, JobInv, RunsInv, RunsOn
<1>2. RunsInv'
  BY <1>1, StoreTypeStep, StoreStep DEF JobInv, RunsInv, Elsewhere, AllQuiet
<1> QED BY <1>1, <1>2, JobClose

LEMMA SameStore ==
  ASSUME JobInv, UNCHANGED storeVars
  PROVE  [Store!Next]_storeVars /\ StoreInv' /\ Onward /\ AllQuiet /\ SameReview
BY UnchangedStore DEF JobInv, RunsInv, storeVars, SameReview

\* The calls a goroutine may go on with, and what they need.
HubCalls ==
    {"mark", "ci", "create", "record", "get", "checks", "remediate", "startreview",
     "ownreview", "jobverdict", "fail", "publish", "open", "opened", "gate", "gatechecks",
     "mergepr", "recordmerge", "rereview"}

HubReady(g) ==
    /\ g \in Frame /\ g.pc \in HubCalls
    /\ g.publish # "no" \/ g.pc \in {"ci", "checks", "remediate", "rereview"} => g.sha # NoSHA
    /\ g.pc \in {"create", "record", "get"} => g.publish # "no"
    /\ g.pc = "jobverdict" => remote[Holistic].says \in Verdicts
    /\ g.pc \in {"open", "opened", "gate", "gatechecks", "mergepr"}
          => remote[Holistic].says = "approved"

LEMMA ReadyNext ==
  ASSUME JobInv, Onward, Elsewhere, NEW f \in Frame, Good(f),
         NEW g, HubReady(g), g.todo \subseteq f.todo, g.publish \in {f.publish, "no"}
  PROVE  g \in Frames'
<1>1. RunsInv /\ RunsOn /\ GitOn /\ UNCHANGED remote
  BY DEF JobInv, Elsewhere, gitVars, historyVars, RunsOn, GitOn
<1>2. \A i \in g.todo : ToStart(i)'
  BY <1>1, HandedOn
<1>3. g.publish # "no" => g.sha # NoSHA /\ job'.integrationSHA # NoSHA
  BY DEF HubReady, Good, Onward
<1> QED BY <1>1, <1>2, <1>3 DEF HubReady, HubCalls, Good, Frames

\* A goroutine goes on with another call.
LEMMA Onwards ==
  ASSUME JobInv, Elsewhere, [Store!Next]_storeVars, StoreInv', Onward, AllQuiet, HubTypeOK', ReviewOn,
         NEW t \in Busy, NEW f, f = Top(t), NEW g, HubReady(g),
         g.todo \subseteq f.todo, g.publish \in {f.publish, "no"}, thread' = Goto(t, g)
  PROVE  JobKept
<1>1. RunsInv /\ RunsOn /\ GitOn /\ f \in Frame /\ Good(f)
  BY TopFrame DEF JobInv, Elsewhere, gitVars, historyVars, RunsOn, GitOn
<1>2. thread' \in [Threads -> Seq(Frames')]
  BY <1>1, ReadyNext, GotoKept
<1> QED BY <1>2, HubStep

\* The same without a change of the job.
LEMMA MovesOn ==
  ASSUME JobInv, NEW t \in Busy, NEW f, f = Top(t), NEW g, HubReady(g),
         g.todo \subseteq f.todo, g.publish \in {f.publish, "no"},
         Moves(t, Goto(t, g)), HubTypeOK',
         mergedHead' # NoSHA => mergedHead # NoSHA \/ remote[Holistic].says = "approved"
  PROVE  JobKept
<1>1. UNCHANGED storeVars /\ Elsewhere /\ thread' = Goto(t, g)
  BY DEF Moves, Elsewhere
<1>2. [Store!Next]_storeVars /\ StoreInv' /\ Onward /\ AllQuiet /\ SameReview
  BY <1>1, SameStore
<1> QED BY <1>1, <1>2, Onwards DEF SameReview, ReviewOn

LEMMA MovesBack ==
  ASSUME JobInv, NEW t \in Busy, Moves(t, Return(t)), HubTypeOK',
         mergedHead' # NoSHA => mergedHead # NoSHA \/ remote[Holistic].says = "approved"
  PROVE  JobKept
<1>1. UNCHANGED storeVars /\ Elsewhere /\ thread' = Return(t)
  BY DEF Moves, Elsewhere
<1>2. [Store!Next]_storeVars /\ StoreInv' /\ Onward /\ AllQuiet /\ SameReview
  BY <1>1, SameStore
<1>3. thread' \in [Threads -> Seq(Frames')]
  BY <1>1, <1>2, ReturnKept DEF JobInv, Elsewhere, gitVars, historyVars, RunsOn, GitOn
<1> QED BY <1>1, <1>2, <1>3, HubStep DEF SameReview, ReviewOn

\* A call of the job store by a handler of this module.
LEMMA StoresCases ==
  ASSUME JobInv, NEW ACTION op, NEW t \in Busy, NEW ACTION next, Stores(op, t, next)
  PROVE  /\ Elsewhere /\ UNCHANGED pubVars /\ HubTypeOK'
         /\ \/ op /\ thread' = next
            \/ UNCHANGED storeVars /\ JobKept
<1>1. /\ Elsewhere /\ UNCHANGED pubVars
      /\ \/ op /\ thread' = next
         \/ UNCHANGED storeVars /\ thread' = Return(t)
  BY DEF Stores, Try, Elsewhere
<1>2. HubTypeOK' /\ (mergedHead' # NoSHA => mergedHead # NoSHA)
  BY <1>1, SameHub DEF Elsewhere, pubVars, hubVars
<1>3. CASE UNCHANGED storeVars /\ thread' = Return(t)
  BY <1>1, <1>2, <1>3, MovesBack DEF Moves, Elsewhere
<1> QED BY <1>1, <1>2, <1>3

LEMMA DoneReady ==
  ASSUME NEW f \in Frame
  PROVE  /\ HubReady(Done(f)) /\ Done(f).todo \subseteq f.todo
         /\ Done(f).publish \in {f.publish, "no"}
<1>1. f.run \in Runs \union {NoRun}
  BY DEF Frame
<1>2. /\ Done(f) \in Frame /\ Done(f).pc = "mark" /\ Done(f).todo = {}
      /\ Done(f).publish = "no"
  BY <1>1, CallType DEF Done, Calls
<1> QED BY <1>2 DEF HubReady, HubCalls

----------------------------------------------------------------------------
(* startDraftPRCI. *)

LEMMA LocalType == Local \in SHAs \union {NoSHA}
<1> DEFINE S == {k \in Keys : merged[k] # NoSHA}
<1>1. MaxTasks \in Nat /\ MaxSHA \in Nat /\ MaxTasks <= MaxSHA /\ Keys = 1..MaxTasks
  BY StoreAssumption, ScenariosAssumption DEF Keys
<1>2. IsFiniteSet(Keys) /\ Cardinality(Keys) = MaxTasks
  BY <1>1, FS_Interval
<1>3. S \subseteq Keys
  OBVIOUS
<1>4. Cardinality(S) \in Nat /\ Cardinality(S) <= MaxTasks
  BY <1>2, <1>3, FS_Subset, FS_CardinalityType
<1> HIDE DEF S
<1>5. Cardinality(S) \in 0..MaxSHA
  BY <1>1, <1>4
<1> QED BY <1>5 DEF S, Local, SHAs, NoSHA

TopsIn == RunsInv => \A t \in Busy : Top(t) \in Frame

LEMMA TopsAre == TopsIn
BY TopFrame DEF TopsIn

LEMMA TopsInNext == TopsIn'
BY TopsAre, PTL

LEMMA MergeAndPushJob ==
  ASSUME JobInv, NEW t \in Busy, MergeAndPush(t)
  PROVE  JobKept
<1>1. Merge(t) /\ UNCHANGED <<storeVars, budget, pr, checks, mergedHead, booted>>
  BY DEF MergeAndPush, Merge
<1>2. RunsInv' /\ RunsOn
  BY <1>1, MergeKept DEF JobInv, Kept
<1>3. Top(t).sha' \in SHAs \union {NoSHA}
  <2>1. t \in Busy'
    BY <1>1 DEF Merge, Goto, Busy, JobInv, RunsInv
  <2> QED BY <1>2, <2>1, TopsInNext DEF TopsIn, Frame
<1>4. HubTypeOK'
  BY <1>1, <1>3 DEF MergeAndPush, JobInv, HubTypeOK
<1>5. ReviewOn
  BY <1>1 DEF ReviewOn, storeVars
<1> QED BY <1>1, <1>2, <1>4, <1>5, JobClose

LEMMA PushBranchJob ==
  ASSUME JobInv, NEW t \in Busy, PushBranch(t)
  PROVE  JobKept
<1>f. PICK f : f = Top(t)
  OBVIOUS
<1>1. /\ f.pc = "draft" /\ f \in Frame /\ Good(f)
      /\ UNCHANGED <<budget, pr, checks, mergedHead, booted>>
  BY <1>f, TopFrame DEF PushBranch, At, Top, JobInv, Moves
<1>2. pushed' \in SHAs \union {NoSHA}
  BY LocalType DEF PushBranch, JobInv, HubTypeOK
<1>3. HubTypeOK'
  BY <1>1, <1>2 DEF JobInv, HubTypeOK
<1>4. CASE Moves(t, Return(t))
  BY <1>1, <1>3, <1>4, MovesBack
<1>5. CASE Moves(t, Goto(t, [Top(t) EXCEPT !.pc =
                         IF Top(t).publish = "new" THEN "create" ELSE "get"]))
  <2>1. PICK p \in {"create", "get"} : Moves(t, Goto(t, [f EXCEPT !.pc = p]))
    BY <1>5, <1>f
  <2>2. PICK g : g = [f EXCEPT !.pc = p]
    OBVIOUS
  <2>3. /\ g \in Frame /\ g.pc = p /\ g.todo = f.todo /\ g.publish = f.publish
        /\ g.sha = f.sha
    BY <1>1, <2>2, PcFrame DEF Calls
  <2>4. f.publish # "no" /\ f.sha # NoSHA
    BY <1>1 DEF Good
  <2>5. HubReady(g)
    BY <2>3, <2>4 DEF HubReady, HubCalls
  <2> QED BY <1>1, <1>f, <1>3, <2>1, <2>2, <2>3, <2>5, MovesOn
<1> QED BY <1>4, <1>5 DEF PushBranch

\* A pull request is opened, or GitHub refuses.
LEMMA OpenJob ==
  ASSUME JobInv, NEW t \in Busy, NEW kind \in {"draft", "ready"}, NEW pc \in Calls,
         Open(t, kind, pc), HubReady([Top(t) EXCEPT !.pc = pc])
  PROVE  JobKept
<1>f. PICK f : f = Top(t)
  OBVIOUS
<1>1. /\ f \in Frame
      /\ UNCHANGED <<budget, pushed, checks, mergedHead, booted>> /\ pr' \in {kind, pr}
  BY <1>f, TopFrame DEF JobInv, Open, Moves
<1>2. HubTypeOK'
  BY <1>1 DEF JobInv, HubTypeOK
<1>3. CASE Moves(t, Return(t))
  BY <1>1, <1>2, <1>3, MovesBack
<1>4. CASE Moves(t, Goto(t, [Top(t) EXCEPT !.pc = pc]))
  <2>1. PICK g : g = [f EXCEPT !.pc = pc]
    OBVIOUS
  <2>2. g.todo = f.todo /\ g.publish = f.publish
    BY <1>1, <2>1, PcFrame
  <2> QED BY <1>f, <1>1, <1>2, <1>4, <2>1, <2>2, MovesOn
<1> QED BY <1>3, <1>4 DEF Open

LEMMA CreateDraftJob ==
  ASSUME JobInv, NEW t \in Busy, CreateDraft(t)
  PROVE  JobKept
<1>f. PICK f : f = Top(t)
  OBVIOUS
<1>1. f.pc = "create" /\ f \in Frame /\ Good(f)
  BY <1>f, TopFrame DEF CreateDraft, At, Top, JobInv
<1>2. f.publish # "no" /\ f.sha # NoSHA
  BY <1>1 DEF Good
<1>3. HubReady([f EXCEPT !.pc = "record"])
  BY <1>1, <1>2, PcFrame DEF HubReady, HubCalls, Calls
<1>4. "record" \in Calls
  BY DEF Calls
<1> QED BY <1>f, <1>3, <1>4, OpenJob DEF CreateDraft

LEMMA PullRequestRecorded ==
  ASSUME JobInv, RecordPullRequest, Elsewhere, UNCHANGED pubVars
  PROVE  /\ [Store!Next]_storeVars /\ StoreInv' /\ Onward /\ AllQuiet /\ ReviewOn
         /\ job'.integrationSHA = job.integrationSHA
<1>1. StoreInv' /\ Onward /\ AllQuiet
  BY RecordPullRequestStep DEF JobInv, RunsInv
<1>2. [Store!Next]_storeVars
  BY RecordPullRequestNext
<1>3. /\ job'.holisticVerdict = job.holisticVerdict /\ job'.integrationSHA = job.integrationSHA
      /\ job'.mergeState \in {job.mergeState, "open"}
  BY DEF RecordPullRequest, storeVars, JobInv, RunsInv, StoreTypeOK, Job
<1> QED BY <1>1, <1>2, <1>3 DEF ReviewOn, pubVars, hubVars

\* A goroutine goes on with the integration SHA of the job.
LEMMA WithHead ==
  ASSUME JobInv, Elsewhere, [Store!Next]_storeVars, StoreInv', Onward, AllQuiet, HubTypeOK', ReviewOn,
         NEW t \in Busy, NEW f, f = Top(t), NEW p \in {"get", "startreview", "gate"},
         p = "get" => f.publish # "no",
         p = "gate" => remote[Holistic].says = "approved",
         thread' = Goto(t, [f EXCEPT !.pc = p, !.sha = job'.integrationSHA])
  PROVE  JobKept
<1>1. f \in Frame /\ Good(f)
  BY TopFrame DEF JobInv
<1>t. StoreTypeOK'
  BY StoreTypeStep DEF JobInv, RunsInv
<1>2. PICK sha \in SHAs \union {NoSHA} : sha = job'.integrationSHA
  BY <1>t DEF StoreTypeOK, Job
<1>3. PICK g : g = [f EXCEPT !.pc = p, !.sha = sha]
  OBVIOUS
<1>4. p \in Calls
  BY DEF Calls
<1>5. g \in Frame /\ g.pc = p /\ g.todo = f.todo /\ g.publish = f.publish /\ g.sha = sha
  BY <1>1, <1>3, <1>4 DEF Frame
<1>6. f.publish # "no" => sha # NoSHA
  BY <1>1, <1>2 DEF Good, Onward
<1>7. HubReady(g)
  BY <1>5, <1>6 DEF HubReady, HubCalls
<1> QED BY <1>2, <1>3, <1>5, <1>7, Onwards

LEMMA RecordDraftJob ==
  ASSUME JobInv, NEW t \in Busy, RecordDraft(t)
  PROVE  JobKept
<1>f. PICK f : f = Top(t)
  OBVIOUS
<1>1. f.pc = "record" /\ f \in Frame /\ Good(f)
  BY <1>f, TopFrame DEF RecordDraft, At, Top, JobInv
<1>2. f.publish # "no" /\ job.integrationSHA # NoSHA
  BY <1>1 DEF Good
<1>3. /\ Elsewhere /\ UNCHANGED pubVars /\ HubTypeOK'
      /\ \/ /\ RecordPullRequest
            /\ thread' = Goto(t, [f EXCEPT !.pc = "get", !.sha = job'.integrationSHA])
         \/ UNCHANGED storeVars /\ JobKept
  BY <1>f, StoresCases DEF RecordDraft
<1>4. CASE /\ RecordPullRequest
           /\ thread' = Goto(t, [f EXCEPT !.pc = "get", !.sha = job'.integrationSHA])
  <2>1. /\ [Store!Next]_storeVars /\ StoreInv' /\ Onward /\ AllQuiet /\ ReviewOn
        /\ job'.integrationSHA = job.integrationSHA
    BY <1>3, <1>4, PullRequestRecorded
  <2> QED BY <1>f, <1>1, <1>2, <1>3, <1>4, <2>1, WithHead
<1> QED BY <1>3, <1>4

LEMMA GetDraftJob ==
  ASSUME JobInv, NEW t \in Busy, GetDraft(t)
  PROVE  JobKept
<1>f. PICK f : f = Top(t)
  OBVIOUS
<1>1. f.pc = "get" /\ f \in Frame /\ Good(f) /\ UNCHANGED pubVars /\ UNCHANGED budget
  BY <1>f, TopFrame DEF GetDraft, At, Top, JobInv, Moves
<1>2. HubTypeOK' /\ mergedHead' = mergedHead
  BY <1>1, SameHub DEF pubVars, hubVars
<1>3. CASE Moves(t, Return(t))
  BY <1>2, <1>3, MovesBack
<1>4. CASE Moves(t, Goto(t, [f EXCEPT !.pc = "ci"]))
  <2>1. PICK g : g = [f EXCEPT !.pc = "ci"]
    OBVIOUS
  <2>2. /\ g \in Frame /\ g.pc = "ci" /\ g.todo = f.todo /\ g.publish = f.publish
        /\ g.sha = f.sha
    BY <1>1, <2>1, PcFrame DEF Calls
  <2>3. f.publish # "no" /\ f.sha # NoSHA
    BY <1>1 DEF Good
  <2>4. HubReady(g)
    BY <2>2, <2>3 DEF HubReady, HubCalls
  <2> QED BY <1>f, <1>2, <1>4, <2>1, <2>2, <2>4, MovesOn
<1> QED BY <1>3, <1>4, <1>f DEF GetDraft

----------------------------------------------------------------------------
(* ObservePendingCI and resumePendingHolisticReviews. *)

\* A call of the job store ends a handler.
LEMMA Backs ==
  ASSUME JobInv, Elsewhere, [Store!Next]_storeVars, StoreInv', Onward, AllQuiet, HubTypeOK', ReviewOn,
         NEW t \in Busy, thread' = Return(t)
  PROVE  JobKept
<1>1. thread' \in [Threads -> Seq(Frames')]
  BY ReturnKept DEF JobInv, Elsewhere, gitVars, historyVars, RunsOn, GitOn
<1> QED BY <1>1, HubStep

LEMMA CheckType ==
  ASSUME JobInv, NEW sha \in SHAs
  PROVE  /\ checks[sha] \in {"pending", "passed"} \union Prints
         /\ State(checks[sha]) \in CIStates
         /\ (IF checks[sha] \in Prints THEN checks[sha] ELSE NoPrint) \in Prints \union {NoPrint}
BY DEF JobInv, HubTypeOK, State, CIStates

LEMMA ReadChecksJob ==
  ASSUME JobInv, NEW t \in Busy, ReadChecks(t)
  PROVE  JobKept
<1>f. PICK f : f = Top(t)
  OBVIOUS
<1>1. f.pc = "checks" /\ f \in Frame /\ Good(f)
  BY <1>f, TopFrame DEF ReadChecks, At, Top, JobInv
<1>2. f.sha \in SHAs
  BY <1>1 DEF Good, Frame
<1>c. PICK check : check = checks[f.sha]
  OBVIOUS
<1>p. PICK print \in Prints \union {NoPrint} :
         print = IF check \in Prints THEN check ELSE NoPrint
  BY <1>2, <1>c, CheckType
<1>3. State(check) \in CIStates
  BY <1>2, <1>c, CheckType
<1>n. PICK next : next = CASE check = "pending" -> Return(t)
              [] check = "passed" -> Goto(t, [f EXCEPT !.pc = "startreview",
                                                       !.sha = job'.integrationSHA])
              [] OTHER -> Goto(t, [f EXCEPT !.pc = "remediate"])
  OBVIOUS
<1>4. /\ Elsewhere /\ UNCHANGED pubVars /\ HubTypeOK'
      /\ \/ RecordCI(f.sha, State(check), print) /\ thread' = next
         \/ UNCHANGED storeVars /\ JobKept
  <2>1. Stores(RecordCI(f.sha, State(check), print), t, next)
    BY <1>f, <1>c, <1>p, <1>n DEF ReadChecks
  <2> QED BY <2>1, StoresCases
<1>5. CASE RecordCI(f.sha, State(check), print) /\ thread' = next
  <2>1. StoreInv' /\ Onward /\ AllQuiet
    BY <1>2, <1>3, <1>5, RecordCIStep DEF JobInv, RunsInv
  <2>2. [Store!Next]_storeVars
    <3>1. \/ State(check) \in {"pending", "passed"} /\ print = NoPrint
          \/ State(check) = "failed" /\ print \in Prints /\ failures[print] < MaxFailures
      BY <1>c, <1>f, <1>p, <1>2, CheckType, PrintsAssumption DEF ReadChecks, Recordable, State
    <3> QED BY <1>2, <1>5, <3>1, RecordCINext
  <2>3. ReviewOn
    <3>1. job'.holisticVerdict = job.holisticVerdict /\ job'.mergeState = job.mergeState
      BY <1>5 DEF RecordCI, storeVars, JobInv, RunsInv, StoreTypeOK, Job
    <3> QED BY <1>4, <3>1 DEF ReviewOn, pubVars, hubVars
  <2>4. CASE check = "pending"
    <3>1. thread' = Return(t)
      BY <1>5, <1>n, <2>4
    <3> QED BY <1>4, <2>1, <2>2, <2>3, <3>1, Backs
  <2>5. CASE check = "passed"
    <3>1. thread' = Goto(t, [f EXCEPT !.pc = "startreview", !.sha = job'.integrationSHA])
      BY <1>5, <1>n, <2>5
    <3> QED BY <1>f, <1>4, <2>1, <2>2, <2>3, <3>1, WithHead
  <2>6. CASE check # "pending" /\ check # "passed"
    <3>1. thread' = Goto(t, [f EXCEPT !.pc = "remediate"])
      BY <1>5, <1>n, <2>6
    <3>2. PICK g : g = [f EXCEPT !.pc = "remediate"]
      OBVIOUS
    <3>3. /\ g \in Frame /\ g.pc = "remediate" /\ g.todo = f.todo /\ g.publish = f.publish
          /\ g.sha = f.sha
      BY <1>1, <3>2, PcFrame DEF Calls
    <3>4. HubReady(g)
      BY <1>2, <3>3 DEF HubReady, HubCalls, NoSHA, SHAs
    <3> QED BY <1>f, <1>4, <2>1, <2>2, <2>3, <3>1, <3>2, <3>3, <3>4, Onwards
  <2> QED BY <2>4, <2>5, <2>6
<1> QED BY <1>4, <1>5

LEMMA RemediateJob ==
  ASSUME JobInv, NEW t \in Busy, Remediate(t)
  PROVE  JobKept
<1>f. PICK f : f = Top(t)
  OBVIOUS
<1>1. f.pc = "remediate" /\ f \in Frame /\ Good(f)
  BY <1>f, TopFrame DEF Remediate, At, Top, JobInv
<1>2. f.sha \in SHAs
  BY <1>1 DEF Good, Frame
<1>c. PICK print : print = checks[f.sha]
  OBVIOUS
<1>n. PICK next : next = IF job'.status = "failed" THEN Return(t)
            ELSE Goto(t, Continue([f EXCEPT !.todo = Ready(planned', task')]))
  OBVIOUS
<1>3. /\ Elsewhere /\ UNCHANGED pubVars /\ HubTypeOK'
      /\ \/ StartCIRemediation(print) /\ thread' = next
         \/ UNCHANGED storeVars /\ JobKept
  <2>1. Stores(StartCIRemediation(print), t, next)
    BY <1>f, <1>c, <1>n DEF Remediate
  <2> QED BY <2>1, StoresCases
<1>4. CASE StartCIRemediation(print) /\ thread' = next
  <2>1. print \in Prints
    <3>1. print \in {"pending", "passed"} \union Prints
      BY <1>2, <1>c, CheckType
    <3>2. print \in Prints \union {NoPrint}
      BY <1>4 DEF StartCIRemediation, JobInv, RunsInv, StoreTypeOK, CI
    <3> QED BY <3>1, <3>2, PrintsAssumption
  <2>2. StoreInv' /\ Onward /\ AllQuiet
    BY <1>4, <2>1, StartCIRemediationStep DEF JobInv, RunsInv
  <2>3. [Store!Next]_storeVars
    BY <1>4, <2>1, StartCIRemediationNext
  <2>4. ReviewOn
    <3>1. job'.holisticVerdict = job.holisticVerdict /\ job'.mergeState = job.mergeState
      BY <1>4 DEF StartCIRemediation, FailJob, Remediating, storeVars,
                  JobInv, RunsInv, StoreTypeOK, Job
    <3> QED BY <1>3, <3>1 DEF ReviewOn, pubVars, hubVars
  <2>5. CASE thread' = Return(t)
    BY <1>3, <2>2, <2>3, <2>4, <2>5, Backs
  <2>6. CASE thread' = Goto(t, Continue([f EXCEPT !.todo = Ready(planned', task')]))
    <3>1. UNCHANGED <<remote, tree, merged>> /\ RunsOn /\ GitOn
      BY <1>3 DEF Elsewhere, gitVars, historyVars, RunsOn, GitOn
    <3>t. StoreTypeOK'
      BY <2>3, StoreTypeStep DEF JobInv, RunsInv
    <3>2. Continue([f EXCEPT !.todo = Ready(planned', task')]) \in Frames'
      BY <1>1, <2>2, <3>t, <3>1, TodoKept DEF JobInv, AllQuiet
    <3>3. thread' \in [Threads -> Seq(Frames')]
      BY <2>2, <2>6, <3>1, <3>2, GotoKept DEF JobInv
    <3> QED BY <1>3, <2>2, <2>3, <2>4, <3>3, HubStep
  <2> QED BY <1>4, <1>n, <2>5, <2>6
<1> QED BY <1>3, <1>4

LEMMA HolisticKnown == Known(Holistic) /\ Known(Holistic)'
BY RunTypes DEF Known

\* A step of TaskRuns, its publication variables unchanged.
LEMMA KeptJob ==
  ASSUME JobInv, Kept, UNCHANGED pubVars, budget'.pushes = budget.pushes, SameReview
  PROVE  JobKept
BY SameHub, JobClose DEF Kept

LEMMA StartReviewJob ==
  ASSUME JobInv, NEW t \in Busy, StartReview(t)
  PROVE  JobKept
<1>f. PICK f : f = Top(t)
  OBVIOUS
<1>g. PICK g : g = [f EXCEPT !.pc = "ownreview"]
  OBVIOUS
<1>1. f \in Frame /\ Good(f)
  BY <1>f, TopFrame DEF JobInv
<1>2. /\ Start(t, Holistic, Goto(t, g))
      /\ UNCHANGED storeVars /\ UNCHANGED gitVars /\ UNCHANGED budget /\ UNCHANGED pubVars
  BY <1>f, <1>g DEF StartReview
<1>3. /\ g \in Frame /\ g.pc = "ownreview" /\ g.todo = f.todo /\ g.publish = f.publish
      /\ g.sha = f.sha
  BY <1>1, <1>g, PcFrame DEF Calls
<1>4. g \in Frames
  BY <1>1, <1>3 DEF Good, Frames
<1>5. RunsOn /\ RunsKept'
  BY <1>2, HolisticKnown, StartRuns DEF JobInv, storeVars
<1>6. Onward /\ GitOn /\ SameReview /\ UNCHANGED <<tree, merged, adopted>>
  BY <1>2, SameStore DEF gitVars, historyVars, GitOn
<1>7. Goto(t, g) \in [Threads -> Seq(Frames')]
  BY <1>4, <1>5, <1>6, FramesStay, GotoKept DEF JobInv
<1>8. thread' \in [Threads -> Seq(Frames')]
  BY <1>2, <1>7, HolisticKnown, StartStacks
<1>9. /\ GitKept' /\ adopted' \subseteq Keys /\ budget' \in Scenario
      /\ \A k \in PlanKeys : GitSteady(k)
      /\ \A k \in Keys \ PlanKeys : tree'[k] = tree[k] /\ merged'[k] = merged[k]
  BY <1>2, <1>6 DEF GitKept, GitSteady, JobInv, RunsInv, storeVars, PlanKeys
<1>10. Kept
  BY <1>2, <1>5, <1>6, <1>8, <1>9, RunStep DEF JobInv
<1> QED BY <1>2, <1>6, <1>10, KeptJob

LEMMA OwnJobReviewJob ==
  ASSUME JobInv, NEW t \in Busy, OwnJobReview(t)
  PROVE  JobKept
<1>s. PICK sha : sha = Top(t).sha
  OBVIOUS
<1>1. /\ Elsewhere /\ UNCHANGED pubVars /\ HubTypeOK'
      /\ \/ StartHolisticReviewer(Holistic, sha) /\ thread' = Return(t)
         \/ UNCHANGED storeVars /\ JobKept
  BY <1>s, StoresCases DEF OwnJobReview
<1>2. CASE StartHolisticReviewer(Holistic, sha) /\ thread' = Return(t)
  <2>1. sha \in SHAs
    BY <1>2 DEF StartHolisticReviewer, JobInv, RunsInv, StoreInv, HeadKnown, StoreTypeOK, Job
  <2>2. StoreInv' /\ Onward /\ AllQuiet
    BY <1>2, StartHolisticReviewerStep DEF JobInv, RunsInv
  <2>3. [Store!Next]_storeVars
    BY <1>2, <2>1, RunTypes, StartHolisticReviewerNext
  <2>4. ReviewOn
    <3>1. job'.holisticVerdict = job.holisticVerdict /\ job'.mergeState = job.mergeState
      BY <1>2 DEF StartHolisticReviewer, JobInv, RunsInv, StoreTypeOK, Job
    <3> QED BY <1>1, <3>1 DEF ReviewOn, pubVars, hubVars
  <2> QED BY <1>1, <1>2, <2>2, <2>3, <2>4, Backs
<1> QED BY <1>1, <1>2

----------------------------------------------------------------------------
(* applyHolistic. *)

LEMMA JobFailed ==
  ASSUME JobInv, FailJob, UNCHANGED pubVars
  PROVE  [Store!Next]_storeVars /\ StoreInv' /\ Onward /\ AllQuiet /\ ReviewOn
<1>1. StoreInv' /\ Onward /\ AllQuiet
  BY FailJobStep DEF JobInv, RunsInv
<1>2. [Store!Next]_storeVars
  BY FailJobNext
<1>3. SameReview
  BY TaskOperations DEF JobInv, RunsInv
<1> QED BY <1>1, <1>2, <1>3 DEF SameReview, ReviewOn, pubVars, hubVars

\* A handler that is through applies its dispatch.
LEMMA Finishes ==
  ASSUME JobInv, Elsewhere, [Store!Next]_storeVars, StoreInv', Onward, AllQuiet, HubTypeOK', ReviewOn,
         NEW t \in Busy, NEW f, f = Top(t), thread' = Goto(t, Done(f))
  PROVE  JobKept
<1>1. HubReady(Done(f)) /\ Done(f).todo \subseteq f.todo /\ Done(f).publish \in {f.publish, "no"}
  BY TopFrame, DoneReady DEF JobInv
<1> QED BY <1>1, Onwards

LEMMA ApplyHolisticJob ==
  ASSUME JobInv, NEW t \in Busy, ApplyHolistic(t)
  PROVE  JobKept
<1>f. PICK f : f = Top(t)
  OBVIOUS
<1>1. f.pc = "apply" /\ f.run = Holistic /\ f \in Frame /\ Good(f)
  BY <1>f, TopFrame DEF ApplyHolistic, At, Top, JobInv
<1>2. remote[Holistic].says \in Verdicts \union {"failed"}
  BY <1>1, RunTypes DEF Good, JobInv, RunsInv, RunsKept
<1>3. Elsewhere /\ UNCHANGED pubVars
  BY DEF ApplyHolistic, Elsewhere
<1>4. HubTypeOK'
  BY <1>3, SameHub DEF Elsewhere
<1>5. CASE FailJob /\ thread' = Goto(t, Done(f))
  BY <1>f, <1>3, <1>4, <1>5, JobFailed, Finishes
<1>6. CASE /\ remote[Holistic].says # "failed" /\ UNCHANGED storeVars
           /\ thread' = Goto(t, [f EXCEPT !.pc = "jobverdict", !.sha = job.integrationSHA])
  <2>1. [Store!Next]_storeVars /\ StoreInv' /\ Onward /\ AllQuiet /\ SameReview
    BY <1>6, SameStore
  <2>2. PICK sha \in SHAs \union {NoSHA} : sha = job.integrationSHA
    BY DEF JobInv, RunsInv, StoreTypeOK, Job
  <2>3. PICK g : g = [f EXCEPT !.pc = "jobverdict", !.sha = sha]
    OBVIOUS
  <2>4. /\ g \in Frame /\ g.pc = "jobverdict" /\ g.todo = f.todo /\ g.publish = f.publish
        /\ g.sha = sha
    BY <1>1, <2>3 DEF Frame, Calls
  <2>5. f.publish # "no" => sha # NoSHA
    BY <1>1, <2>2 DEF Good
  <2>6. HubReady(g)
    BY <1>2, <1>6, <2>4, <2>5 DEF HubReady, HubCalls
  <2>7. ReviewOn
    BY <1>3, <2>1 DEF ReviewOn, SameReview, pubVars, hubVars
  <2> QED BY <1>f, <1>3, <1>4, <1>6, <2>1, <2>2, <2>3, <2>4, <2>6, <2>7, Onwards
<1> QED BY <1>f, <1>5, <1>6 DEF ApplyHolistic

LEMMA JobVerdictJob ==
  ASSUME JobInv, NEW t \in Busy, JobVerdict(t)
  PROVE  JobKept
<1>f. PICK f : f = Top(t)
  OBVIOUS
<1>1. f.pc = "jobverdict" /\ f \in Frame /\ Good(f)
  BY <1>f, TopFrame DEF JobVerdict, At, Top, JobInv
<1>s. PICK says \in Verdicts : says = remote[Holistic].says
  BY <1>1 DEF Good
<1>c. PICK content \in BOOLEAN : content = (remote[Holistic].feedback # "none")
  OBVIOUS
<1>n. PICK next : next = CASE says = "changes_requested" -> Goto(t, Done(f))
              [] says = "blocked" -> Goto(t, [f EXCEPT !.pc = "fail"])
              [] says = "approved" ->
                   IF job'.status = "holistic_reviewing" THEN Return(t)
                   ELSE Goto(t, [f EXCEPT !.pc = "publish"])
  OBVIOUS
<1>2. /\ Elsewhere /\ UNCHANGED pubVars /\ HubTypeOK'
      /\ \/ RecordHolisticReview(Holistic, f.sha, says, content) /\ thread' = next
         \/ UNCHANGED storeVars /\ JobKept
  <2>1. Stores(RecordHolisticReview(Holistic, f.sha, says, content), t, next)
    BY <1>f, <1>s, <1>c, <1>n DEF JobVerdict
  <2> QED BY <2>1, StoresCases
<1>3. CASE RecordHolisticReview(Holistic, f.sha, says, content) /\ thread' = next
  <2>1. StoreInv' /\ Onward /\ AllQuiet
    BY <1>3, RecordHolisticReviewStep DEF JobInv, RunsInv
  <2>2. [Store!Next]_storeVars
    <3>1. UNCHANGED storeVars \/ f.sha \in SHAs
      BY <1>3 DEF RecordHolisticReview, JobInv, RunsInv, StoreInv, HeadKnown, StoreTypeOK, Job
    <3>2. CASE f.sha \in SHAs
      BY <1>3, <3>2, RunTypes, RecordHolisticReviewNext
    <3> QED BY <3>1, <3>2, SameStore
  <2>3. ReviewOn
    <3>1. /\ job'.holisticVerdict \in {job.holisticVerdict, says}
          /\ job'.mergeState = job.mergeState
      BY <1>3 DEF RecordHolisticReview, storeVars, JobInv, RunsInv, StoreTypeOK, Job
    <3> QED BY <1>2, <1>s, <3>1 DEF ReviewOn, pubVars, hubVars
  <2>4. CASE thread' = Return(t)
    BY <1>2, <2>1, <2>2, <2>3, <2>4, Backs
  <2>5. CASE thread' = Goto(t, Done(f))
    BY <1>f, <1>2, <2>1, <2>2, <2>3, <2>5, Finishes
  <2>6. ASSUME NEW p \in {"fail", "publish"}, thread' = Goto(t, [f EXCEPT !.pc = p])
        PROVE  JobKept
    <3>1. PICK g : g = [f EXCEPT !.pc = p]
      OBVIOUS
    <3>2. /\ g \in Frame /\ g.pc = p /\ g.todo = f.todo /\ g.publish = f.publish
          /\ g.sha = f.sha
      BY <1>1, <3>1, PcFrame DEF Calls
    <3>3. HubReady(g)
      BY <1>1, <3>2 DEF HubReady, HubCalls, Good
    <3> QED BY <1>f, <1>2, <2>1, <2>2, <2>3, <2>6, <3>1, <3>2, <3>3, Onwards
  <2>7. \/ thread' = Return(t) \/ thread' = Goto(t, Done(f))
        \/ thread' = Goto(t, [f EXCEPT !.pc = "fail"])
        \/ thread' = Goto(t, [f EXCEPT !.pc = "publish"])
    BY <1>n, <1>3 DEF Verdicts
  <2> QED BY <2>4, <2>5, <2>6, <2>7
<1> QED BY <1>2, <1>3

LEMMA FailingJob ==
  ASSUME JobInv, NEW t \in Busy, Fail(t)
  PROVE  JobKept
<1>f. PICK f : f = Top(t)
  OBVIOUS
<1>1. /\ Elsewhere /\ UNCHANGED pubVars /\ HubTypeOK'
      /\ \/ FailJob /\ thread' = Goto(t, Done(f))
         \/ UNCHANGED storeVars /\ JobKept
  BY <1>f, StoresCases DEF Fail
<1> QED BY <1>f, <1>1, JobFailed, Finishes

----------------------------------------------------------------------------
(* publishApprovedJob. *)

LEMMA PublishJob ==
  ASSUME JobInv, NEW t \in Busy, Publish(t)
  PROVE  JobKept
<1>f. PICK f : f = Top(t)
  OBVIOUS
<1>1. f \in Frame /\ Good(f)
  BY <1>f, TopFrame DEF JobInv
<1>s. PICK sha \in SHAs \union {NoSHA} : sha = job.integrationSHA
  BY DEF JobInv, RunsInv, StoreTypeOK, Job
<1>g. PICK g : g = [f EXCEPT !.sha = sha]
  OBVIOUS
<1>2. /\ g \in Frame /\ g.todo = f.todo /\ g.publish = f.publish /\ g.sha = sha
      /\ f.publish # "no" => sha # NoSHA
  BY <1>1, <1>s, <1>g DEF Frame, Good
<1>3. /\ UNCHANGED pubVars
      /\ Moves(t, IF Published THEN Goto(t, Done(g))
                  ELSE IF ~Publishable THEN Return(t)
                  ELSE Goto(t, [g EXCEPT !.pc = IF job.pullRequest THEN "gate" ELSE "open"]))
  BY <1>f, <1>s, <1>g DEF Publish
<1>4. HubTypeOK' /\ mergedHead' = mergedHead
  BY <1>3, SameHub DEF Moves, pubVars, hubVars
<1>5. CASE Moves(t, Goto(t, Done(g)))
  BY <1>f, <1>2, <1>4, <1>5, DoneReady, MovesOn
<1>6. CASE Moves(t, Return(t))
  BY <1>4, <1>6, MovesBack
<1>7. ASSUME Publishable, NEW p \in {"gate", "open"}, Moves(t, Goto(t, [g EXCEPT !.pc = p]))
      PROVE  JobKept
  <2>1. PICK h : h = [g EXCEPT !.pc = p]
    OBVIOUS
  <2>2. /\ h \in Frame /\ h.pc = p /\ h.todo = f.todo /\ h.publish = f.publish
        /\ h.sha = sha
    BY <1>2, <2>1, PcFrame DEF Calls
  <2>3. remote[Holistic].says = "approved"
    BY <1>7 DEF Publishable, JobInv, JobReviewed
  <2>4. HubReady(h)
    BY <1>2, <2>2, <2>3 DEF HubReady, HubCalls
  <2> QED BY <1>f, <1>4, <1>7, <2>1, <2>2, <2>4, MovesOn
<1> QED BY <1>3, <1>5, <1>6, <1>7

LEMMA CreateReadyJob ==
  ASSUME JobInv, NEW t \in Busy, CreateReady(t)
  PROVE  JobKept
<1>f. PICK f : f = Top(t)
  OBVIOUS
<1>1. f.pc = "open" /\ f \in Frame /\ Good(f)
  BY <1>f, TopFrame DEF CreateReady, At, Top, JobInv
<1>2. HubReady([f EXCEPT !.pc = "opened"])
  BY <1>1, PcFrame DEF HubReady, HubCalls, Calls, Good
<1>3. "opened" \in Calls
  BY DEF Calls
<1> QED BY <1>f, <1>2, <1>3, OpenJob DEF CreateReady

LEMMA RecordReadyJob ==
  ASSUME JobInv, NEW t \in Busy, RecordReady(t)
  PROVE  JobKept
<1>f. PICK f : f = Top(t)
  OBVIOUS
<1>1. f.pc = "opened" /\ f \in Frame /\ Good(f)
  BY <1>f, TopFrame DEF RecordReady, At, Top, JobInv
<1>2. remote[Holistic].says = "approved"
  BY <1>1 DEF Good
<1>3. /\ Elsewhere /\ UNCHANGED pubVars /\ HubTypeOK'
      /\ \/ /\ RecordPullRequest
            /\ thread' = Goto(t, [f EXCEPT !.pc = "gate", !.sha = job'.integrationSHA])
         \/ UNCHANGED storeVars /\ JobKept
  BY <1>f, StoresCases DEF RecordReady
<1>4. CASE /\ RecordPullRequest
           /\ thread' = Goto(t, [f EXCEPT !.pc = "gate", !.sha = job'.integrationSHA])
  <2>1. [Store!Next]_storeVars /\ StoreInv' /\ Onward /\ AllQuiet /\ ReviewOn
    BY <1>3, <1>4, PullRequestRecorded
  <2> QED BY <1>f, <1>2, <1>3, <1>4, <2>1, WithHead
<1> QED BY <1>3, <1>4

\* A call of GitHub that changes nothing there and needs what the last one needed.
LEMMA GoesOn ==
  ASSUME JobInv, NEW t \in Busy, NEW p \in {"gatechecks", "mergepr", "recordmerge"},
         Top(t).pc \in {"gate", "gatechecks", "mergepr"},
         Moves(t, Goto(t, [Top(t) EXCEPT !.pc = p])), HubTypeOK',
         mergedHead' # NoSHA => mergedHead # NoSHA \/ remote[Holistic].says = "approved"
  PROVE  JobKept
<1>f. PICK f : f = Top(t)
  OBVIOUS
<1>1. f \in Frame /\ Good(f)
  BY <1>f, TopFrame DEF JobInv
<1>2. PICK g : g = [f EXCEPT !.pc = p]
  OBVIOUS
<1>3. /\ g \in Frame /\ g.pc = p /\ g.todo = f.todo /\ g.publish = f.publish
      /\ g.sha = f.sha
  BY <1>1, <1>2, PcFrame DEF Calls
<1>4. HubReady(g)
  BY <1>1, <1>f, <1>3 DEF HubReady, HubCalls, Good
<1> QED BY <1>f, <1>2, <1>3, <1>4, MovesOn

LEMMA PassGateJob ==
  ASSUME JobInv, NEW t \in Busy, PassGate(t)
  PROVE  JobKept
<1>1. /\ Top(t).pc = "gate" /\ UNCHANGED pubVars /\ UNCHANGED budget
      /\ \/ Moves(t, Return(t))
         \/ \E p \in {"gatechecks", "recordmerge"} : Moves(t, Goto(t, [Top(t) EXCEPT !.pc = p]))
  BY DEF PassGate, At, Top, Moves, Gate
<1>2. HubTypeOK' /\ mergedHead' = mergedHead
  BY <1>1, SameHub DEF pubVars, hubVars
<1>3. CASE Moves(t, Return(t))
  BY <1>2, <1>3, MovesBack
<1> QED BY <1>1, <1>2, <1>3, GoesOn

LEMMA GateChecksJob ==
  ASSUME JobInv, NEW t \in Busy, GateChecks(t)
  PROVE  JobKept
<1>1. /\ Top(t).pc = "gatechecks" /\ UNCHANGED pubVars /\ UNCHANGED budget
      /\ \/ Moves(t, Return(t))
         \/ Moves(t, Goto(t, [Top(t) EXCEPT !.pc = "mergepr"]))
  BY DEF GateChecks, At, Top, Moves
<1>2. HubTypeOK' /\ mergedHead' = mergedHead
  BY <1>1, SameHub DEF pubVars, hubVars
<1>3. CASE Moves(t, Return(t))
  BY <1>2, <1>3, MovesBack
<1> QED BY <1>1, <1>2, <1>3, GoesOn

\* Nobody calls MergePR without an approval of the holistic reviewer.
LEMMA MergePRApproved ==
  ASSUME JobInv, NEW t \in Busy, At(t, "mergepr")
  PROVE  Top(t).pc = "mergepr" /\ remote[Holistic].says = "approved"
BY TopFrame DEF At, Top, JobInv, Good

LEMMA MergePRJob ==
  ASSUME JobInv, NEW t \in Busy, MergePR(t)
  PROVE  JobKept
<1>1. Top(t).pc = "mergepr" /\ remote[Holistic].says = "approved"
  BY MergePRApproved DEF MergePR
<1>2. /\ UNCHANGED <<budget, pushed, checks, booted>>
      /\ pr' \in {pr, "merged"} /\ mergedHead' \in {mergedHead, pushed}
      /\ \/ Moves(t, Return(t))
         \/ Moves(t, Goto(t, [Top(t) EXCEPT !.pc = "recordmerge"]))
  BY DEF MergePR, Moves
<1>3. HubTypeOK'
  BY <1>2 DEF JobInv, HubTypeOK
<1>4. CASE Moves(t, Return(t))
  BY <1>1, <1>3, <1>4, MovesBack
<1>5. CASE Moves(t, Goto(t, [Top(t) EXCEPT !.pc = "recordmerge"]))
  BY <1>1, <1>3, <1>5, GoesOn
<1> QED BY <1>2, <1>4, <1>5

LEMMA RecordMergedJob ==
  ASSUME JobInv, NEW t \in Busy, RecordMerged(t)
  PROVE  JobKept
<1>f. PICK f : f = Top(t)
  OBVIOUS
<1>1. /\ Elsewhere /\ UNCHANGED pubVars /\ HubTypeOK'
      /\ \/ RecordMerge /\ thread' = Goto(t, Done(f))
         \/ UNCHANGED storeVars /\ JobKept
  BY <1>f, StoresCases DEF RecordMerged
<1>2. CASE RecordMerge /\ thread' = Goto(t, Done(f))
  <2>1. StoreInv' /\ Onward /\ AllQuiet
    BY <1>2, RecordMergeStep DEF JobInv, RunsInv
  <2>2. [Store!Next]_storeVars
    BY <1>2, RecordMergeNext
  <2>3. ReviewOn
    <3>1. /\ job'.holisticVerdict = job.holisticVerdict
          /\ job.mergeState = "merged" \/ job.holisticVerdict = "approved"
      BY <1>2 DEF RecordMerge, storeVars, JobInv, RunsInv, StoreTypeOK, Job
    <3> QED BY <1>1, <3>1 DEF ReviewOn, pubVars, hubVars, JobInv, JobReviewed
  <2> QED BY <1>f, <1>1, <1>2, <2>1, <2>2, <2>3, Finishes
<1> QED BY <1>1, <1>2

LEMMA RereviewJob ==
  ASSUME JobInv, NEW t \in Busy, Rereview(t)
  PROVE  JobKept
<1>f. PICK f : f = Top(t)
  OBVIOUS
<1>g. PICK g : g = [f EXCEPT !.pc = "startreview"]
  OBVIOUS
<1>1. f.pc = "rereview" /\ f \in Frame /\ Good(f)
  BY <1>f, TopFrame DEF Rereview, At, Top, JobInv
<1>2. /\ Elsewhere /\ UNCHANGED pubVars /\ HubTypeOK'
      /\ \/ StartHolisticRereview(f.sha) /\ thread' = Goto(t, g)
         \/ UNCHANGED storeVars /\ JobKept
  BY <1>f, <1>g, StoresCases DEF Rereview
<1>3. CASE StartHolisticRereview(f.sha) /\ thread' = Goto(t, g)
  <2>1. f.sha \in SHAs
    BY <1>1 DEF Good, Frame
  <2>2. StoreInv' /\ Onward /\ AllQuiet
    BY <1>3, <2>1, StartHolisticRereviewStep DEF JobInv, RunsInv
  <2>3. [Store!Next]_storeVars
    BY <1>3, <2>1, StartHolisticRereviewNext
  <2>4. ReviewOn
    <3>1. /\ job'.holisticVerdict \in {job.holisticVerdict, "pending"}
          /\ job'.mergeState = job.mergeState
      BY <1>3 DEF StartHolisticRereview, storeVars, JobInv, RunsInv, StoreTypeOK, Job
    <3> QED BY <1>2, <3>1 DEF ReviewOn, pubVars, hubVars
  <2>5. /\ g \in Frame /\ g.pc = "startreview" /\ g.todo = f.todo /\ g.publish = f.publish
        /\ g.sha = f.sha
    BY <1>1, <1>g, PcFrame DEF Calls
  <2>6. HubReady(g)
    BY <1>1, <2>5 DEF HubReady, HubCalls, Good
  <2> QED BY <1>f, <1>2, <1>3, <2>2, <2>3, <2>4, <2>5, <2>6, Onwards
<1> QED BY <1>2, <1>3

----------------------------------------------------------------------------
(* The poller, the operator's tools and startup. *)

\* A goroutine that was idle makes a call.
LEMMA Entry ==
  ASSUME JobInv, NEW u \in {Startup, Operator}, NEW g \in Frames,
         thread' \in {thread, [thread EXCEPT ![u] = <<g>>]},
         UNCHANGED <<storeVars, record, remote, queue, gitVars, budget, hubVars>>,
         booted' \in BOOLEAN
  PROVE  JobKept
<1>1. thread' \in [Threads -> Seq(Frames)]
  <2>1. <<g>> \in Seq(Frames) /\ thread \in [Threads -> Seq(Frames)]
    BY DEF JobInv, RunsInv
  <2> QED BY <2>1
<1>2. Kept
  BY <1>1, StackStep DEF JobInv
<1>3. HubTypeOK' /\ ReviewOn
  BY DEF JobInv, HubTypeOK, hubVars, ReviewOn, storeVars
<1> QED BY <1>2, <1>3, JobClose DEF Kept

LEMMA ResumeReviewJob ==
  ASSUME JobInv, ResumeReview
  PROVE  JobKept
<1>s. PICK sha \in SHAs \union {NoSHA} : sha = job.integrationSHA
  BY DEF JobInv, RunsInv, StoreTypeOK, Job
<1>g. PICK g : g = [Call("startreview", NoRun) EXCEPT !.sha = sha]
  OBVIOUS
<1>1. g \in Frame /\ g.pc = "startreview" /\ g.todo = {} /\ g.publish = "no" /\ g.sha = sha
  BY <1>g DEF Call, Calls, Frame, NoItem, Item
<1>2. g \in Frames
  BY <1>1 DEF Good, Frames
<1>3. /\ UNCHANGED <<storeVars, record, remote, queue, gitVars, budget, hubVars>>
      /\ booted' \in BOOLEAN
      /\ thread' \in {thread, [thread EXCEPT ![Startup] = <<g>>]}
  BY <1>s, <1>g DEF ResumeReview, Polls
<1> QED BY <1>2, <1>3, Entry

LEMMA PollCIJob ==
  ASSUME JobInv, PollCI
  PROVE  JobKept
<1>1. pushed \in SHAs
  <2>1. ci.head # NoSHA /\ ci.head = pushed
    BY DEF PollCI, JobInv, RunsInv, StoreInv, HeadKnown
  <2> QED BY <2>1 DEF JobInv, HubTypeOK
<1>g. PICK g : g = [Call("checks", NoRun) EXCEPT !.sha = pushed]
  OBVIOUS
<1>2. g \in Frame /\ g.pc = "checks" /\ g.todo = {} /\ g.publish = "no" /\ g.sha = pushed
  BY <1>1, <1>g DEF Call, Calls, Frame, NoItem, Item
<1>3. g \in Frames
  BY <1>1, <1>2 DEF Good, Frames, NoSHA, SHAs
<1>4. /\ UNCHANGED <<storeVars, record, remote, queue, gitVars, budget, hubVars>>
      /\ booted' \in BOOLEAN
      /\ thread' = [thread EXCEPT ![Startup] = <<g>>]
  BY <1>g DEF PollCI, Polls, pubVars, JobInv, HubTypeOK
<1> QED BY <1>3, <1>4, Entry

LEMMA PublishApprovedJob ==
  ASSUME JobInv, PublishApproved
  PROVE  JobKept
<1>g. PICK g : g = Call("publish", NoRun)
  OBVIOUS
<1>1. g \in Frame /\ g.pc = "publish" /\ g.todo = {} /\ g.publish = "no"
  BY <1>g, CallType DEF Calls
<1>2. g \in Frames
  BY <1>1 DEF Good, Frames
<1>3. /\ UNCHANGED <<storeVars, record, remote, queue, gitVars, budget, hubVars>>
      /\ booted' \in BOOLEAN
      /\ thread' = [thread EXCEPT ![Operator] = <<g>>]
  BY <1>g DEF PublishApproved, pubVars, JobInv, HubTypeOK
<1> QED BY <1>2, <1>3, Entry

LEMMA AskRereviewJob ==
  ASSUME JobInv, AskRereview
  PROVE  JobKept
<1>1. pushed \in SHAs
  BY DEF AskRereview, Foreign
<1>g. PICK g : g = [Call("rereview", NoRun) EXCEPT !.sha = pushed]
  OBVIOUS
<1>2. g \in Frame /\ g.pc = "rereview" /\ g.todo = {} /\ g.publish = "no" /\ g.sha = pushed
  BY <1>1, <1>g DEF Call, Calls, Frame, NoItem, Item
<1>3. g \in Frames
  BY <1>1, <1>2 DEF Good, Frames, NoSHA, SHAs
<1>4. /\ UNCHANGED <<storeVars, record, remote, queue, gitVars, budget, hubVars>>
      /\ booted' \in BOOLEAN
      /\ thread' = [thread EXCEPT ![Operator] = <<g>>]
  BY <1>g DEF AskRereview, pubVars, JobInv, HubTypeOK
<1> QED BY <1>3, <1>4, Entry

----------------------------------------------------------------------------
(* GitHub, the people who use it, agents, failing calls. *)

\* Nothing of TaskRuns changes.
LEMMA HubOnly ==
  ASSUME JobInv, UNCHANGED vars, HubTypeOK',
         mergedHead' # NoSHA => mergedHead # NoSHA
  PROVE  JobKept
<1>1. UNCHANGED <<storeVars, record, remote, queue, gitVars, budget, thread>>
  BY DEF vars, dispatchVars, gitVars, historyVars
<1>2. Kept
  BY <1>1, StackStep DEF JobInv, RunsInv
<1>3. ReviewOn
  BY <1>1 DEF ReviewOn, storeVars
<1> QED BY <1>2, <1>3, JobClose DEF Kept

LEMMA PromoteJob == JobInv /\ Promote => JobKept
<1> SUFFICES ASSUME JobInv, Promote PROVE JobKept
  OBVIOUS
<1>1. UNCHANGED vars /\ UNCHANGED booted /\ HubTypeOK'
  BY DEF Promote, hubFree, JobInv, HubTypeOK, vars
<1> QED BY <1>1, HubOnly DEF Promote

LEMMA CompleteCheckJob == JobInv /\ CompleteCheck => JobKept
<1> SUFFICES ASSUME JobInv, CompleteCheck PROVE JobKept
  OBVIOUS
<1>1. UNCHANGED vars /\ UNCHANGED booted /\ HubTypeOK'
  BY DEF CompleteCheck, hubFree, JobInv, HubTypeOK, vars
<1> QED BY <1>1, HubOnly DEF CompleteCheck

\* Runs and the scenario change, and call stacks.
LEMMA RunsOnly ==
  ASSUME RunsInv, UNCHANGED <<storeVars, gitVars>>, RunsOn, RunsKept', budget' \in Scenario,
         UNCHANGED thread \/ \E t \in Busy : thread' = Return(t)
  PROVE  Kept
<1>1. UNCHANGED <<tree, merged, adopted>>
  BY DEF gitVars, historyVars
<1>2. Onward /\ GitOn
  BY <1>1, UnchangedStore DEF RunsInv, GitOn
<1>3. thread' \in [Threads -> Seq(Frames')]
  <2>1. CASE UNCHANGED thread
    BY <1>2, <2>1, FramesStay, StacksIn DEF RunsInv
  <2>2. CASE \E t \in Busy : thread' = Return(t)
    BY <1>2, <2>2, ReturnKept
  <2> QED BY <2>1, <2>2
<1> QED BY <1>1, <1>2, <1>3, RunStep DEF RunsInv, GitKept, GitSteady, PlanKeys, storeVars

LEMMA SameRuns ==
  ASSUME RunsInv, UNCHANGED <<storeVars, record, remote, queue>>
  PROVE  RunsOn /\ RunsKept'
BY DEF RunsInv, RunsOn, RunsKept, Known, PlanKeys, storeVars

LEMMA PushJob == JobInv /\ Push => JobKept
<1> SUFFICES ASSUME JobInv, Push PROVE JobKept
  OBVIOUS
<1>1. /\ UNCHANGED <<storeVars, gitVars, thread, record, remote, queue>>
      /\ UNCHANGED <<pr, checks, mergedHead, booted>>
      /\ budget' = [budget EXCEPT !.pushes = @ - 1] /\ budget.pushes > 0
      /\ pushed' = MaxSHA - budget.pushes + 1
  BY DEF Push, dispatchVars
<1>2. budget \in Scenario /\ budget.pushes \in Nat /\ budget.pushes <= MaxPushes
  BY DEF JobInv, RunsInv, HubTypeOK, Scenario
<1>3. budget' \in Scenario /\ budget'.pushes = budget.pushes - 1
  <2>1. budget.pushes - 1 \in Nat
    BY <1>1, <1>2
  <2> QED BY <1>1, <1>2, <2>1 DEF Scenario
<1>4. pushed' \in SHAs /\ budget'.pushes <= MaxPushes
  <2>1. MaxSHA \in Nat /\ MaxPushes \in Nat /\ MaxPushes <= MaxSHA
    BY StoreAssumption, PushesAssumption
  <2> QED BY <1>1, <1>2, <1>3, <2>1 DEF SHAs
<1>5. Kept
  BY <1>1, <1>3, SameRuns, RunsOnly DEF JobInv
<1>6. HubTypeOK' /\ ReviewOn
  BY <1>1, <1>4 DEF JobInv, HubTypeOK, ReviewOn, storeVars
<1> QED BY <1>5, <1>6, JobClose DEF Kept

LEMMA AgentJob ==
  ASSUME JobInv, NEW d \in Runs, Agent(d)
  PROVE  JobKept
<1>1. Kept /\ UNCHANGED pubVars
  BY AgentActsKept, AgentEndsKept DEF Agent, JobInv
<1>2. UNCHANGED job /\ UNCHANGED budget
  BY DEF Agent, AgentActs, AgentEnds, storeVars
<1> QED BY <1>1, <1>2, UnchangedReview, KeptJob

LEMMA ReviewerActsJob == JobInv /\ ReviewerActs => JobKept
<1> SUFFICES ASSUME JobInv, ReviewerActs PROVE JobKept
  OBVIOUS
<1>1. /\ UNCHANGED <<storeVars, gitVars, budget, thread, pubVars, record, queue, planned, job>>
      /\ Acts(Holistic, job.integrationSHA)
  BY DEF ReviewerActs, storeVars
<1>2. RunsOn /\ RunsKept'
  <2>1. job.integrationSHA \in SHAs \union {NoSHA}
    BY DEF JobInv, RunsInv, StoreTypeOK, Job
  <2> QED BY <1>1, <2>1, RunTypes, ActsRuns DEF JobInv
<1>3. Kept
  BY <1>1, <1>2, RunsOnly DEF JobInv, RunsInv
<1> QED BY <1>1, <1>3, UnchangedReview, KeptJob

LEMMA ReviewerEndsJob == JobInv /\ ReviewerEnds => JobKept
<1> SUFFICES ASSUME JobInv, ReviewerEnds PROVE JobKept
  OBVIOUS
<1>1. UNCHANGED <<storeVars, gitVars, budget, pubVars, planned, job>>
  BY DEF ReviewerEnds, storeVars
<1>2. PICK says \in Verdicts, feedback \in Feedbacks \union {"none"} :
         Ends(Holistic, says, feedback)
  BY DEF ReviewerEnds
<1>3. RunsOn /\ RunsKept' /\ UNCHANGED thread
  <2>1. says \in Answers /\ Holistic.role # "reviewer"
    BY RunTypes DEF Answers
  <2> QED BY <1>1, <1>2, <2>1, RunTypes, EndsRuns DEF JobInv
<1>4. Kept
  BY <1>1, <1>3, RunsOnly DEF JobInv, RunsInv
<1> QED BY <1>1, <1>4, UnchangedReview, KeptJob

LEMMA HubFaultJob ==
  ASSUME JobInv, NEW t \in Busy, HubFault(t)
  PROVE  JobKept
<1>1. /\ UNCHANGED <<storeVars, gitVars, booted>> /\ thread' = Return(t)
      /\ budget' = [budget EXCEPT !.faults = @ - 1] /\ budget.faults > 0
      /\ UNCHANGED <<pushed, checks>> /\ pr' \in {pr, "draft", "ready", "merged"}
  BY DEF HubFault, LaunchFails, hubVars
<1>2. budget' \in Scenario /\ budget'.pushes = budget.pushes
  <2>1. budget \in Scenario /\ budget.faults - 1 \in Nat
    BY <1>1 DEF JobInv, RunsInv, Scenario
  <2> QED BY <1>1, <2>1 DEF Scenario
<1>3. RunsOn /\ RunsKept'
  <2>1. CASE UNCHANGED <<record, remote, queue>>
    BY <1>1, <2>1, SameRuns DEF JobInv
  <2>2. CASE LaunchFails(Holistic, Return(t))
    BY <1>1, <2>2, HolisticKnown, LaunchFailsRuns DEF JobInv
  <2> QED BY <2>1, <2>2 DEF HubFault
<1>4. Kept
  BY <1>1, <1>2, <1>3, RunsOnly DEF JobInv
<1>5. /\ mergedHead' \in {mergedHead, pushed}
      /\ mergedHead' = mergedHead \/ remote[Holistic].says = "approved"
  BY MergePRApproved DEF HubFault, hubVars
<1>6. HubTypeOK' /\ ReviewOn
  BY <1>1, <1>2, <1>5 DEF JobInv, HubTypeOK, ReviewOn, storeVars
<1> QED BY <1>4, <1>6, JobClose DEF Kept

LEMMA HandlerJob ==
  ASSUME JobInv, NEW t \in Busy, HandlerStep(t), UNCHANGED pubVars
  PROVE  JobKept
<1>1. Kept
  BY HandlerKept DEF JobInv
<1>2. SameReview /\ UNCHANGED budget
  BY HandlerReview DEF JobInv, RunsInv
<1> QED BY <1>1, <1>2, KeptJob

LEMMA FaultJob ==
  ASSUME JobInv, NEW t \in Busy, Fault(t), UNCHANGED pubVars
  PROVE  JobKept
<1>1. Kept
  BY FaultKept DEF JobInv
<1>2. UNCHANGED job /\ budget'.pushes = budget.pushes
  BY DEF Fault, storeVars, JobInv, RunsInv, Scenario
<1> QED BY <1>1, <1>2, UnchangedReview, KeptJob

LEMMA RestartJob ==
  ASSUME JobInv, Restart, booted' = FALSE, UNCHANGED hubVars
  PROVE  JobKept
<1>1. Kept
  BY RestartKept DEF JobInv
<1>2. UNCHANGED job /\ budget'.pushes = budget.pushes
  BY DEF Restart, storeVars, JobInv, RunsInv, Scenario
<1>3. HubTypeOK' /\ ReviewOn
  BY <1>2 DEF JobInv, HubTypeOK, hubVars, ReviewOn
<1> QED BY <1>1, <1>3, JobClose DEF Kept

LEMMA StartupJob ==
  ASSUME JobInv, Plan \/ Resume, UNCHANGED pubVars
  PROVE  JobKept
<1>1. Kept
  BY PlanKept, ResumeKept DEF JobInv
<1>2. UNCHANGED budget /\ SameReview
  BY TaskOperations, UnchangedReview DEF Plan, Resume, storeVars, JobInv, RunsInv
<1> QED BY <1>1, <1>2, KeptJob

----------------------------------------------------------------------------
(* The invariant. *)

LEMMA InitJob == PublicationInit => JobInv
<1> SUFFICES ASSUME PublicationInit PROVE JobInv
  OBVIOUS
<1>1. RunsInv
  BY InitRuns DEF PublicationInit
<1>2. HubTypeOK
  BY PushesAssumption DEF PublicationInit, Init, HubTypeOK
<1>3. JobReviewed
  BY DEF PublicationInit, Init, Create, JobReviewed
<1> QED BY <1>1, <1>2, <1>3 DEF JobInv

LEMMA StepJob ==
  ASSUME JobInv, NEW t \in Busy, PublicationStep(t)
  PROVE  JobKept
<1>1. CASE HandlerStep(t) /\ UNCHANGED pubVars
  BY <1>1, HandlerJob
<1>2. CASE MergeAndPush(t)
  BY <1>2, MergeAndPushJob
<1>3. CASE PushBranch(t) \/ CreateDraft(t) \/ RecordDraft(t) \/ GetDraft(t)
  BY <1>3, PushBranchJob, CreateDraftJob, RecordDraftJob, GetDraftJob
<1>4. CASE ReadChecks(t) \/ Remediate(t) \/ StartReview(t) \/ OwnJobReview(t)
  BY <1>4, ReadChecksJob, RemediateJob, StartReviewJob, OwnJobReviewJob
<1>5. CASE ApplyHolistic(t) \/ JobVerdict(t) \/ Fail(t)
  BY <1>5, ApplyHolisticJob, JobVerdictJob, FailingJob
<1>6. CASE Publish(t) \/ CreateReady(t) \/ RecordReady(t) \/ PassGate(t) \/ GateChecks(t)
  BY <1>6, PublishJob, CreateReadyJob, RecordReadyJob, PassGateJob, GateChecksJob
<1>7. CASE MergePR(t) \/ RecordMerged(t) \/ Rereview(t)
  BY <1>7, MergePRJob, RecordMergedJob, RereviewJob
<1> QED BY <1>1, <1>2, <1>3, <1>4, <1>5, <1>6, <1>7 DEF PublicationStep

LEMMA NextJob == JobInv /\ [PublicationNext]_allVars => JobKept
<1> SUFFICES ASSUME JobInv, [PublicationNext]_allVars PROVE JobKept
  OBVIOUS
<1>1. CASE \E t \in Busy : PublicationStep(t)
  BY <1>1, StepJob
<1>2. CASE (Plan \/ Resume) /\ UNCHANGED pubVars
  BY <1>2, StartupJob
<1>3. CASE ResumeReview \/ PollCI \/ PublishApproved \/ AskRereview
  BY <1>3, ResumeReviewJob, PollCIJob, PublishApprovedJob, AskRereviewJob
<1>4. CASE Promote \/ CompleteCheck
  BY <1>4, PromoteJob, CompleteCheckJob
<1>5. CASE ReviewerActs \/ ReviewerEnds \/ \E d \in Runs : Agent(d)
  BY <1>5, ReviewerActsJob, ReviewerEndsJob, AgentJob
<1>6. CASE Incident
  BY <1>6, HubFaultJob, FaultJob, RestartJob, PushJob DEF Incident
<1>7. CASE UNCHANGED allVars
  <2>1. UNCHANGED vars /\ UNCHANGED pubVars /\ UNCHANGED budget
    BY <1>7 DEF allVars, vars
  <2>2. HubTypeOK' /\ mergedHead' = mergedHead
    BY <2>1, SameHub DEF pubVars, hubVars
  <2> QED BY <2>1, <2>2, HubOnly
<1> QED BY <1>1, <1>2, <1>3, <1>4, <1>5, <1>6, <1>7 DEF PublicationNext

\* The inductive invariant of the composition: that of the task phase, and what the
\* record of the holistic review, the calls of publishApprovedJob and GitHub have in
\* common.
THEOREM JobInvariant == PublicationSpec => []JobInv
<1>1. JobInv /\ [PublicationNext]_allVars => JobInv'
  BY NextJob DEF JobKept
<1> QED BY <1>1, InitJob, PTL DEF PublicationSpec

\* The record of a job, its runs, worktrees and pull request stay well-formed through
\* publication, remediation, rereview and any crash, failing call or push.
THEOREM PublicationTypeCorrect == PublicationSpec => []PublicationTypeOK
<1>1. JobInv => PublicationTypeOK
  BY RunsTyped DEF JobInv, HubTypeOK, PublicationTypeOK
<1> QED BY <1>1, JobInvariant, PTL

\* CI remediation of one failure ends (startCIRemediation's limit of three records of a
\* fingerprint): two repairs of the same failure at most, however polls, restarts and
\* lost answers fall.
THEOREM RemediationIsBounded == PublicationSpec => []RemediationStops
<1>1. JobInv => RemediationStops
  BY DEF JobInv, RunsInv, StoreInv, RepairsCounted, Repairs, RemediationStops
<1> QED BY <1>1, JobInvariant, PTL

\* Nobody merges a pull request, and no job is recorded as merged, without an approval
\* of the holistic reviewer (publishApprovedJob checks the recorded verdict, and the
\* verdict on record is always the reviewer's).
THEOREM NothingMergedUnreviewed ==
  PublicationSpec => [](/\ mergedHead # NoSHA => remote[Holistic].says = "approved"
                        /\ job.mergeState = "merged" => remote[Holistic].says = "approved")
<1>1. JobInv => /\ mergedHead # NoSHA => remote[Holistic].says = "approved"
                /\ job.mergeState = "merged" => remote[Holistic].says = "approved"
  BY DEF JobInv, JobReviewed
<1> QED BY <1>1, JobInvariant, PTL

\* With publication, remediation tasks included: a writer starts on top of what its
\* dependencies delivered, and every branch that is merged was approved in a review.
THEOREM TasksStayInOrder ==
  PublicationSpec => /\ []DependenciesFirst
                     /\ [](\A k \in Keys : merged[k] # NoSHA => Approver(k))
<1>1. JobInv => DependenciesFirst
  BY RunsGuarantee DEF JobInv
<1>2. JobInv => \A k \in Keys : merged[k] # NoSHA => Approver(k)
  BY RunsGuarantee DEF JobInv
<1> QED BY <1>1, <1>2, JobInvariant, PTL

\* The handlers of publication, CI and the operator's tools keep to the job store's
\* operations too: with them, every step of the whole program is an operation of
\* JobStore or leaves the record alone.
THEOREM ProgramImplementsJobStore == PublicationSpec => ImplementsJobStore
<1>1. PublicationInit => JS!Init
  BY JSInit DEF PublicationInit, Init
<1>2. JobInv /\ [PublicationNext]_allVars => [JS!Next]_(JS!storeVars)
  BY JSNext, NextJob DEF JobKept
<1> QED BY <1>1, <1>2, JobInvariant, PTL DEF PublicationSpec, ImplementsJobStore, JS!Spec

\* So the store's guarantees survive publication: remediation tasks, rereviews and
\* merges included, reviewer attempts never overtake writer attempts, only approved
\* work advances, no report is filed twice, and approvals stay with their commits.
THEOREM ProgramGuarantees ==
  PublicationSpec => /\ []Store!AttemptsLedger
                     /\ []Store!OnlyApprovedWorkAdvances
                     /\ []Store!OneReportPerRun
                     /\ Store!ApprovalPinsCommit
<1>1. PublicationInit => Store!Init
  BY StoreInit DEF PublicationInit, Init
<1>2. JobInv /\ [PublicationNext]_allVars => [Store!Next]_(Store!storeVars)
  BY NextJob DEF JobKept, storeVars, Store!storeVars
<1>3. PublicationSpec => Store!Spec
  BY <1>1, <1>2, JobInvariant, PTL DEF PublicationSpec, Store!Spec
<1> QED BY <1>3, StoreGuaranteed, PTL
=============================================================================
