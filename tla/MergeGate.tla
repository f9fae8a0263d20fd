------------------------------ MODULE MergeGate ------------------------------
(***************************************************************************)
(* What reaches the base branch passed CI and was reviewed, for any number *)
(* of tasks, attempts, failing calls, crashes and pushes of others.        *)
(*                                                                         *)
(* No single record says so.  The commit that is tested, reviewed and      *)
(* merged is carried from call to call, through the pull request, the CI   *)
(* record and the reviewer, while tasks go on being integrated.  The       *)
(* invariant (OwnInv) is that, as long as nobody else has pushed, each of  *)
(* these places holds the head of the integration branch with the work of  *)
(* every task, or a commit that failed CI and that a repair was asked for  *)
(* since (HeadOK).  So a commit that passed is that head, at the gate and  *)
(* at the reviewer; and what was merged stays as it was (MergedPart).      *)
(***************************************************************************)
EXTENDS PublicationProofs

\* A repair of commit h has been asked for.
Answered(h) == \E k \in PlanKeys : task[k].remediation /\ task[k].base = h

\* The commits that are tested, reviewed and merged: the head of the integration
\* branch with the work of every task, or a commit a repair was asked for since.
HeadOK(h) == Answered(h) \/ (h = Local /\ AllTasksIntegrated(task))

Whole == {"holistic_reviewing", "awaiting_ci", "ready_to_publish"}

Begins == {"integrating", "integrated", "blocked"}

\* It was the turn of task k in the order of the plan.
Placed(k) ==
    /\ k \in PlanKeys
    /\ task[k].status \in Begins
    /\ IntegrationPrerequisitesMet(task, k)

\* The calls that carry the commit to be published.
Heading == {"base", "writer", "work", "draft", "create", "record", "get", "ci"}

\* What a call to come has to show for the commit it carries.
Sound(f) ==
    /\ f.pc \in {"merge", "merged"} => Placed(f.item.key)
    /\ f.pc = "merged" => merged[f.item.key] # NoSHA
    /\ f.pc = "merged" /\ task[f.item.key].status = "integrating" => f.sha = Local
    /\ f.publish # "no" => f.pc \in Heading /\ HeadOK(f.sha)
    /\ f.pc \in {"ci", "checks", "open", "gate", "gatechecks", "mergepr"} => HeadOK(f.sha)
    /\ f.pc \in {"record", "ci", "opened"} => pr # "none"
    /\ f.pc \in {"gatechecks", "mergepr"} => pushed = f.sha \/ Answered(f.sha)
    /\ f.pc = "mergepr" /\ f.sha # NoSHA => checks[f.sha] = "passed"
    /\ f.pc # "rereview"
    /\ f.pc = "startreview" => pr # "none" \/ AllTasksIntegrated(task)

StackPart == \A t \in Threads : \A i \in DOMAIN thread[t] : Sound(thread[t][i])

\* What is merged was placed; a repair answers a recorded failure of its base.
TaskPart ==
    \A k \in PlanKeys :
        /\ merged[k] # NoSHA => Placed(k)
        /\ task[k].status = "integrated" => merged[k] # NoSHA
        /\ task[k].remediation =>
              /\ pr # "none"
              /\ checks[task[k].base] \in Prints
              /\ task[k].status # "blocked" => task[k].print = checks[task[k].base]

\* The commit of the job.  While there is a pull request all tasks but the last are
\* finished, which is a repair when it is not.
JobPart ==
    /\ job.status \in Whole => AllTasksIntegrated(task)
    /\ (\A k \in PlanKeys : merged[k] # NoSHA => task[k].status = "integrated")
          => job.integrationSHA = Local
    /\ pr # "none" => /\ \A k \in PlanKeys : k < planned => Finished(task[k])
                      /\ HeadOK(job.integrationSHA)

Offered == job.status = "awaiting_ci" \/ job.pullRequest \/ job.mergeState = "open"

\* The commit under test.
CIPart ==
    /\ Offered => pr # "none"
    /\ ci.head # NoSHA => HeadOK(ci.head)
    /\ ci.state = "failed" => ci.print \in Prints /\ ci.print = checks[ci.head]

\* The holistic reviewer is asked for.
Asked ==
    \/ remote[Holistic].status # "absent"
    \/ record[Holistic] = "starting"
    \/ \E e \in queue : e.run = Holistic /\ e.status = "starting"

\* It has read the commit of the job.
Looked == remote[Holistic].status = "acted" \/ remote[Holistic].says \in Verdicts

\* The commit under review.
ReviewPart ==
    /\ Asked => pr # "none" \/ AllTasksIntegrated(task)
    /\ Looked => HeadOK(remote[Holistic].saw)

OwnInv == StackPart /\ TaskPart /\ JobPart /\ CIPart /\ ReviewPart

\* The commit that was merged.
MergedPart ==
    mergedHead \in OwnCommits =>
        /\ checks[mergedHead] = "passed"
        /\ \/ mergedHead = remote[Holistic].saw
           \/ remote[Holistic].saw \in SHAs /\ checks[remote[Holistic].saw] \in Prints

----------------------------------------------------------------------------
(* Call stacks. *)

Stacked(threads, f) == \E t \in Threads : \E i \in DOMAIN threads[t] : f = threads[t][i]

LEMMA GotoStacked ==
  ASSUME NEW S, thread \in [Threads -> Seq(S)], NEW t \in Busy, NEW g, NEW f,
         Stacked(Goto(t, g), f)
  PROVE  f = g \/ Stacked(thread, f)
<1>0. PICK u \in Threads : \E i \in DOMAIN Goto(t, g)[u] : f = Goto(t, g)[u][i]
  BY DEF Stacked
<1>1. PICK i \in DOMAIN Goto(t, g)[u] : f = Goto(t, g)[u][i]
  BY <1>0
<1>2. CASE u # t
  BY <1>1, <1>2 DEF Goto, Stacked
<1>3. CASE u = t
  <2> DEFINE s == thread[t]
  <2>1. s \in Seq(S) /\ s # <<>> /\ Goto(t, g)[t] = <<g>> \o Tail(s)
    BY <1>3 DEF Goto, Busy
  <2>2. i = 1 \/ (i \in DOMAIN s /\ (<<g>> \o Tail(s))[i] = s[i])
    BY <1>1, <1>3, <2>1
  <2>3. i = 1 => f = g
    BY <1>1, <1>3, <2>1
  <2> QED BY <1>1, <1>3, <2>1, <2>2, <2>3 DEF Stacked
<1> QED BY <1>2, <1>3

LEMMA ReturnStacked ==
  ASSUME NEW S, thread \in [Threads -> Seq(S)], NEW t \in Busy, NEW f,
         Stacked(Return(t), f)
  PROVE  Stacked(thread, f)
<1>0. PICK u \in Threads : \E i \in DOMAIN Return(t)[u] : f = Return(t)[u][i]
  BY DEF Stacked
<1>1. PICK i \in DOMAIN Return(t)[u] : f = Return(t)[u][i]
  BY <1>0
<1>2. CASE u # t
  BY <1>1, <1>2 DEF Return, Stacked
<1>3. CASE u = t
  <2> DEFINE s == thread[t]
  <2>1. s \in Seq(S) /\ s # <<>> /\ Return(t)[t] = Tail(s)
    BY <1>3 DEF Return, Busy
  <2>2. i + 1 \in DOMAIN s /\ Tail(s)[i] = s[i + 1]
    BY <1>1, <1>3, <2>1
  <2> QED BY <1>1, <1>3, <2>1, <2>2 DEF Stacked
<1> QED BY <1>2, <1>3

LEMMA WatchStacked ==
  ASSUME NEW S, NEW threads \in [Threads -> Seq(S)], NEW d, NEW f,
         Stacked(Watch(threads, d), f)
  PROVE  f = Call("poll", d) \/ Stacked(threads, f)
<1>0. PICK u \in Threads : \E i \in DOMAIN Watch(threads, d)[u] : f = Watch(threads, d)[u][i]
  BY DEF Stacked
<1>1. PICK i \in DOMAIN Watch(threads, d)[u] : f = Watch(threads, d)[u][i]
  BY <1>0
<1>2. \/ Watch(threads, d)[u] = threads[u]
      \/ Watch(threads, d)[u] = <<Call("poll", d)>>
  BY <1>1 DEF Watch
<1> QED BY <1>1, <1>2 DEF Stacked

LEMMA StartStacked ==
  ASSUME NEW S, NEW next \in [Threads -> Seq(S)], NEW t, NEW d, NEW f,
         Start(t, d, next) \/ Launch(t, d, next), Stacked(thread', f)
  PROVE  f = Call("poll", d) \/ f = Call("apply", d) \/ Stacked(next, f)
<1>1. \/ thread' = Watch(next, d)
      \/ thread' = [next EXCEPT ![t] = <<Call("apply", d)>> \o @]
      \/ thread' = next
  BY DEF Start, Launch
<1>2. CASE thread' = [next EXCEPT ![t] = <<Call("apply", d)>> \o @]
  <2>0. PICK u \in Threads : \E i \in DOMAIN thread'[u] : f = thread'[u][i]
    BY DEF Stacked
  <2>1. PICK i \in DOMAIN thread'[u] : f = thread'[u][i]
    BY <2>0
  <2>2. CASE u # t
    BY <1>2, <2>1, <2>2 DEF Stacked
  <2>3. CASE u = t
    <3> DEFINE s == next[t]
    <3>1. s \in Seq(S) /\ thread'[t] = <<Call("apply", d)>> \o s
      BY <1>2, <2>3
    <3>2. \/ i = 1 /\ f = Call("apply", d)
          \/ i - 1 \in DOMAIN s /\ f = s[i - 1]
      BY <2>1, <2>3, <3>1
    <3> QED BY <2>3, <3>2 DEF Stacked
  <2> QED BY <2>2, <2>3
<1> QED BY <1>1, <1>2, WatchStacked

----------------------------------------------------------------------------
(* Operations of the job store that leave the commits alone. *)

\* An operation on one task that does not integrate it.
Tamed(t, u) ==
    /\ Fixed(t, u)
    /\ u.print = t.print \/ u.status = "blocked"
    /\ t.status = "integrating" => u.status \in Begins
    /\ u.status = "integrated" => t.status = "integrated"

\* The parts of a task that matter here.
SameCore(t, u) ==
    /\ t.status = u.status /\ t.deps = u.deps /\ t.remediation = u.remediation
    /\ t.base = u.base /\ t.print = u.print

JobTame ==
    /\ job'.integrationSHA = job.integrationSHA
    /\ Offered' => Offered
    /\ job'.status \in Whole => job.status \in Whole \/ AllTasksIntegrated(task')

Tame == UNCHANGED <<ci, planned>> /\ JobTame /\ \A k \in PlanKeys : Tamed(task[k], task'[k])

LEMMA SameTame == UNCHANGED storeVars => Tame
BY DEF Tame, Tamed, JobTame, Fixed, storeVars, Offered, Begins

\* An operation that replaces one task.
LEMMA OneTame ==
  ASSUME StoreTypeOK, NEW k \in PlanKeys, NEW u, task' = [task EXCEPT ![k] = u], Tamed(task[k], u),
         JobTame, UNCHANGED <<ci, planned>>
  PROVE  Tame
<1>1. k \in Keys /\ task \in [Keys -> Task] /\ PlanKeys \subseteq Keys
  BY PlanKeysType DEF StoreTypeOK
<1>2. \A j \in PlanKeys : Tamed(task[j], task'[j])
  BY <1>1 DEF Tamed, Fixed, Begins
<1> QED BY <1>2 DEF Tame

LEMMA StatusTame ==
  ASSUME StoreTypeOK, NEW status, job' = [job EXCEPT !.status = status], status \notin Whole
  PROVE  JobTame
BY DEF StoreTypeOK, Job, JobTame, Whole, Offered

LEMMA JobTamed == UNCHANGED job => JobTame
BY DEF JobTame, Offered

\* The operations on task k, by the handlers of a run.
LEMMA TaskTame ==
  ASSUME StoreTypeOK, NEW k \in PlanKeys
  PROVE  /\ \A sha : RecordTaskBase(k, sha) => Tame
         /\ \A run : StartTaskWork(k, run) => Tame
         /\ \A run, sha : RecordWriterCompletion(k, run, sha) => Tame
         /\ \A run : RecordNoChanges(k, run) => Tame
         /\ \A run : RetryWriter(k, run) => Tame
         /\ BlockTask(k) => Tame
         /\ \A run : StartReviewer(k, run) => Tame
         /\ \A run, v, feedback : RecordReviewReport(k, run, v, feedback) => Tame
         /\ \A run, v : v \in Verdicts /\ RecordReview(k, run, v) => Tame
         /\ StartIntegration(k) => Tame
<1>1. task[k] \in Task /\ job \in Job
  BY PlanKeysType DEF StoreTypeOK
<1>2. ASSUME NEW sha, RecordTaskBase(k, sha) PROVE Tame
  <2>1. PICK u : u = [task[k] EXCEPT !.base = sha]
    OBVIOUS
  <2>2. task' = [task EXCEPT ![k] = u] /\ UNCHANGED <<job, ci, planned>>
        /\ task[k].base \in {NoSHA, sha}
    BY <1>2, <2>1 DEF RecordTaskBase
  <2>3. Tamed(task[k], u)
    BY <1>1, <2>1, <2>2 DEF Tamed, Fixed, Task, Begins
  <2> QED BY <2>2, <2>3, JobTamed, OneTame
<1>3. ASSUME NEW run, StartTaskWork(k, run) PROVE Tame
  <2>1. CASE UNCHANGED storeVars
    BY <2>1, SameTame
  <2>2. CASE ~UNCHANGED storeVars
    <3>1. PICK u : u = Started(task[k], run)
      OBVIOUS
    <3>2. task' = [task EXCEPT ![k] = u] /\ job' = [job EXCEPT !.status = "working"]
          /\ UNCHANGED <<ci, planned>> /\ task[k].status # "integrating"
      BY <1>3, <2>2, <3>1 DEF StartTaskWork
    <3>3. Tamed(task[k], u)
      BY <1>1, <3>1, <3>2 DEF Tamed, Fixed, Task, Started
    <3> QED BY <3>2, <3>3, StatusTame, OneTame DEF Whole
  <2> QED BY <2>1, <2>2
<1>4. ASSUME NEW run, NEW sha, RecordWriterCompletion(k, run, sha) PROVE Tame
  <2>1. CASE UNCHANGED storeVars
    BY <2>1, SameTame
  <2>2. CASE ~UNCHANGED storeVars
    <3>1. PICK u : u = [task[k] EXCEPT !.status = "reviewing", !.commit = sha,
                                       !.verdict = "pending"]
      OBVIOUS
    <3>2. task' = [task EXCEPT ![k] = u] /\ job' = [job EXCEPT !.status = "reviewing"]
          /\ UNCHANGED <<ci, planned>> /\ task[k].status = "working"
      BY <1>4, <2>2, <3>1 DEF RecordWriterCompletion
    <3>3. Tamed(task[k], u)
      BY <1>1, <3>1, <3>2 DEF Tamed, Fixed, Task
    <3> QED BY <3>2, <3>3, StatusTame, OneTame DEF Whole
  <2> QED BY <2>1, <2>2
<1>5. ASSUME NEW run, RecordNoChanges(k, run) PROVE Tame
  <2>1. CASE UNCHANGED storeVars
    BY <2>1, SameTame
  <2>2. CASE ~UNCHANGED storeVars
    <3>1. PICK u : u = [task[k] EXCEPT !.status = "no_changes"]
      OBVIOUS
    <3>2. /\ task' = [task EXCEPT ![k] = u]
          /\ UNCHANGED <<ci, planned>> /\ task[k].status = "working"
          /\ \/ job' = job
             \/ AllTasksIntegrated(task') /\ job' = [job EXCEPT !.status = "holistic_reviewing"]
             \/ job' = [job EXCEPT !.status = "no_changes"]
      BY <1>5, <2>2, <3>1 DEF RecordNoChanges
    <3>3. Tamed(task[k], u)
      BY <1>1, <3>1, <3>2 DEF Tamed, Fixed, Task
    <3>4. JobTame
      BY <1>1, <3>2 DEF JobTame, Job, Offered, Whole
    <3> QED BY <3>2, <3>3, <3>4, OneTame
  <2> QED BY <2>1, <2>2
<1>6. ASSUME NEW run, RetryWriter(k, run) PROVE Tame
  <2>1. PICK u : u = [task[k] EXCEPT !.writerRun = NoRun, !.status = "planned"]
    OBVIOUS
  <2>2. task' = [task EXCEPT ![k] = u] /\ job' = [job EXCEPT !.status = "planned"]
        /\ UNCHANGED <<ci, planned>> /\ task[k].status = "working"
    BY <1>6, <2>1 DEF RetryWriter
  <2>3. Tamed(task[k], u)
    BY <1>1, <2>1, <2>2 DEF Tamed, Fixed, Task
  <2> QED BY <2>2, <2>3, StatusTame, OneTame DEF Whole
<1>7. ASSUME BlockTask(k) PROVE Tame
  <2>1. PICK u : u = IF task[k].status = "blocked" THEN task[k]
                     ELSE [task[k] EXCEPT !.status = "blocked", !.print = NoPrint]
    OBVIOUS
  <2>2. task' = [task EXCEPT ![k] = u] /\ UNCHANGED <<job, ci, planned>>
    BY <1>7, <2>1 DEF BlockTask
  <2>3. Tamed(task[k], u)
    BY <1>1, <2>1, <2>2 DEF Tamed, Fixed, Task, Begins
  <2> QED BY <2>2, <2>3, JobTamed, OneTame
<1>8. ASSUME NEW run, StartReviewer(k, run) PROVE Tame
  <2>1. CASE UNCHANGED storeVars
    BY <2>1, SameTame
  <2>2. CASE ~UNCHANGED storeVars
    <3>1. PICK u : u = Own(task[k], run)
      OBVIOUS
    <3>2. task' = [task EXCEPT ![k] = u] /\ UNCHANGED <<job, ci, planned>>
      BY <1>8, <2>2, <3>1 DEF StartReviewer
    <3>3. Tamed(task[k], u)
      BY <1>1, <3>1 DEF Tamed, Fixed, Task, Own, Begins
    <3> QED BY <3>2, <3>3, JobTamed, OneTame
  <2> QED BY <2>1, <2>2
<1>9. ASSUME NEW run, NEW v, NEW feedback, RecordReviewReport(k, run, v, feedback) PROVE Tame
  <2>r. PICK report : report = [run |-> run, verdict |-> v, feedback |-> feedback,
                                commit |-> task[k].commit]
    OBVIOUS
  <2>1. PICK u : u = File(Adopt(task[k], run), report)
    OBVIOUS
  <2>2. task' = [task EXCEPT ![k] = u] /\ UNCHANGED <<job, ci, planned>>
    BY <1>9, <2>r, <2>1 DEF RecordReviewReport
  <2>3. PICK a : a = Adopt(task[k], run)
    OBVIOUS
  <2>4. a = task[k] \/ a = [task[k] EXCEPT !.reviewerRun = run, !.reviewerAttempts = @ + 1]
    BY <2>3 DEF Adopt, Own
  <2>5. u = a \/ u = [a EXCEPT !.history = Append(@, report)]
    BY <2>1, <2>3 DEF File
  <2>6. SameCore(a, task[k]) /\ SameCore(u, a)
    BY <1>1, <2>4, <2>5 DEF SameCore, Task
  <2>7. Tamed(task[k], u)
    BY <2>6 DEF SameCore, Tamed, Fixed, Begins
  <2> QED BY <2>2, <2>7, JobTamed, OneTame
<1>10. ASSUME NEW run, NEW v \in Verdicts, RecordReview(k, run, v) PROVE Tame
  <2>1. CASE UNCHANGED storeVars
    BY <2>1, SameTame
  <2>2. CASE ~UNCHANGED storeVars
    <3>a. PICK a : a = Adopt(task[k], run)
      OBVIOUS
    <3>o. PICK o : o = IF a.reviewerRun = NoRun THEN Own(a, run) ELSE a
      OBVIOUS
    <3>1. PICK u : u = [o EXCEPT !.verdict = v, !.status = ReviewedStatus(k, v)]
      OBVIOUS
    <3>2. /\ task' = [task EXCEPT ![k] = u] /\ UNCHANGED <<job, ci, planned>>
          /\ task[k].status = "reviewing"
      BY <1>10, <2>2, <3>a, <3>o, <3>1 DEF RecordReview
    <3>3. /\ a = task[k] \/ a = [task[k] EXCEPT !.reviewerRun = run, !.reviewerAttempts = @ + 1]
          /\ o = a \/ o = [a EXCEPT !.reviewerRun = run, !.reviewerAttempts = @ + 1]
      BY <3>a, <3>o DEF Adopt, Own
    <3>4. ReviewedStatus(k, v) # "integrated"
      BY DEF ReviewedStatus, Verdicts
    <3>5. Tamed(task[k], u)
      <4> HIDE DEF ReviewedStatus
      <4>1. PICK status : status = ReviewedStatus(k, v)
        OBVIOUS
      <4>2. u = [o EXCEPT !.verdict = v, !.status = status] /\ status # "integrated"
        BY <3>1, <3>4, <4>1
      <4>3. SameCore(a, task[k]) /\ SameCore(o, a)
        BY <1>1, <3>3 DEF SameCore, Task
      <4>4. SameCore([u EXCEPT !.status = o.status], o) /\ u.status = status
        BY <1>1, <3>3, <4>2 DEF SameCore, Task
      <4> QED BY <3>2, <4>2, <4>3, <4>4 DEF SameCore, Tamed, Fixed
    <3> QED BY <3>2, <3>5, JobTamed, OneTame
  <2> QED BY <2>1, <2>2
<1>11. ASSUME StartIntegration(k) PROVE Tame
  <2>1. PICK u : u = [task[k] EXCEPT !.status = "integrating"]
    OBVIOUS
  <2>2. task' = [task EXCEPT ![k] = u] /\ job' = [job EXCEPT !.status = "integrating"]
        /\ UNCHANGED <<ci, planned>>
    BY <1>11, <2>1 DEF StartIntegration
  <2>3. Tamed(task[k], u)
    BY <1>1, <2>1, <2>2 DEF Tamed, Fixed, Task, Begins
  <2> QED BY <2>2, <2>3, StatusTame, OneTame DEF Whole
<1> QED BY <1>2, <1>3, <1>4, <1>5, <1>6, <1>7, <1>8, <1>9, <1>10, <1>11

\* The operations on the job alone.
LEMMA PublicationTame ==
  ASSUME StoreTypeOK
  PROVE  /\ StartPlanning => Tame
         /\ FailJob => Tame
         /\ \A run, sha : StartHolisticReviewer(run, sha) => Tame
         /\ \A run, sha, v, content : RecordHolisticReview(run, sha, v, content) => Tame
         /\ RecordMerge => Tame
<1>1. job \in Job
  BY DEF StoreTypeOK
<1>2. ASSUME UNCHANGED <<ci, planned, task>>, JobTame PROVE Tame
  BY <1>2 DEF Tame, Tamed, Fixed, Begins
<1>3. ASSUME StartPlanning PROVE Tame
  BY <1>1, <1>2, <1>3 DEF StartPlanning, JobTame, Job, Whole, Offered
<1>4. ASSUME FailJob PROVE Tame
  BY <1>2, <1>4, StatusTame DEF FailJob, Whole
<1>5. ASSUME NEW run, NEW sha, StartHolisticReviewer(run, sha) PROVE Tame
  BY <1>1, <1>2, <1>5 DEF StartHolisticReviewer, JobTame, Job, Offered
<1>6. ASSUME NEW run, NEW sha, NEW v, NEW content, RecordHolisticReview(run, sha, v, content)
      PROVE  Tame
  <2>1. CASE UNCHANGED storeVars
    BY <2>1, SameTame
  <2>2. CASE ~UNCHANGED storeVars
    BY <1>1, <1>2, <1>6, <2>2 DEF RecordHolisticReview, JobTame, Job, Offered, Whole
  <2> QED BY <2>1, <2>2
<1>7. ASSUME RecordMerge PROVE Tame
  <2>1. CASE UNCHANGED storeVars
    BY <2>1, SameTame
  <2>2. CASE ~UNCHANGED storeVars
    BY <1>1, <1>2, <1>7, <2>2 DEF RecordMerge, JobTame, Job, Offered, Whole
  <2> QED BY <2>1, <2>2
<1> QED BY <1>3, <1>4, <1>5, <1>6, <1>7

----------------------------------------------------------------------------
(* What a step leaves as it is, while nobody else has pushed. *)

\* A step of a job whose branch is its own.
Undisturbed ==
    /\ JobInv /\ JobInv' /\ RunsOn /\ Steady /\ OwnInv
    /\ pushed \notin Foreign /\ pushed' \notin Foreign

TasksOn ==
    /\ \A k \in PlanKeys : /\ k \in PlanKeys' /\ Fixed(task[k], task'[k])
                           /\ task[k].status = "integrating" => task'[k].status \in Begins
    /\ AllTasksIntegrated(task) => planned' = planned \/ (pr # "none" /\ Answered(Local)')

BranchOn ==
    /\ \A k \in Keys : merged[k] # NoSHA => merged'[k] # NoSHA
    /\ AllTasksIntegrated(task) => Local' = Local
    /\ \A k \in PlanKeys : Placed(k) /\ merged[k] # NoSHA /\ task[k].status = "integrating"
                              => Local' = Local

HubOn ==
    /\ pr # "none" => pr' # "none"
    /\ \A s \in SHAs : checks[s] # "pending" => checks'[s] = checks[s]
    /\ pushed' \in {pushed, Local'}

\* So no evidence is taken back.
Stays ==
    /\ \A h : Answered(h) => Answered(h)'
    /\ \A h : HeadOK(h) => HeadOK(h)'
    /\ \A h : HeadOK(h) /\ (pushed = h \/ Answered(h)) => pushed' = h \/ Answered(h)'
    /\ \A k : Placed(k) => Placed(k)'
    /\ \A k : /\ Placed(k) /\ merged[k] # NoSHA /\ task'[k].status = "integrating"
              => task[k].status = "integrating" /\ Local' = Local
    /\ pr # "none" \/ AllTasksIntegrated(task) => pr' # "none" \/ AllTasksIntegrated(task)'

LEMMA Staying ==
  ASSUME Undisturbed, TasksOn, BranchOn, HubOn
  PROVE  Stays
<1>1. PlanKeys \subseteq PlanKeys' /\ PlanKeys \subseteq Keys
  BY PlanKeysType DEF TasksOn, Undisturbed, JobInv, RunsInv
<1>2. \A k \in PlanKeys : Finished(task[k]) => Finished(task'[k])
  BY DEF Undisturbed, Steady, Settled, Finished
<1>3. ASSUME NEW h, Answered(h) PROVE Answered(h)'
  <2>1. PICK k \in PlanKeys : task[k].remediation /\ task[k].base = h
    BY <1>3 DEF Answered
  <2>2. task[k].base # NoSHA
    BY <2>1 DEF Undisturbed, JobInv, RunsInv, StoreInv
  <2>3. k \in PlanKeys' /\ task'[k].remediation /\ task'[k].base = h
    BY <2>1, <2>2 DEF TasksOn, Fixed
  <2> QED BY <2>3 DEF Answered
<1>4. AllTasksIntegrated(task) /\ planned' = planned => AllTasksIntegrated(task)'
  BY <1>2 DEF AllTasksIntegrated, PlanKeys
<1>5. ASSUME NEW h, HeadOK(h) PROVE HeadOK(h)'
  <2>1. CASE Answered(h)
    BY <1>3, <2>1 DEF HeadOK
  <2>2. CASE h = Local /\ AllTasksIntegrated(task)
    <3>1. Local' = h
      BY <2>2 DEF BranchOn
    <3>2. Answered(Local)' => Answered(h)'
      BY <3>1 DEF Answered
    <3> QED BY <1>4, <2>2, <3>1, <3>2 DEF HeadOK, TasksOn
  <2> QED BY <1>5, <2>1, <2>2 DEF HeadOK
<1>6. ASSUME NEW h, HeadOK(h), pushed = h \/ Answered(h) PROVE pushed' = h \/ Answered(h)'
  BY <1>3, <1>6 DEF HeadOK, HubOn, BranchOn
<1>7. ASSUME NEW k, Placed(k) PROVE Placed(k)'
  <2>1. k \in PlanKeys /\ k \in PlanKeys' /\ k \in Nat /\ task[k].status \in Begins
    BY <1>1, <1>7, StoreAssumption DEF Placed, Keys
  <2>2. task'[k].status \in Begins
    BY <2>1 DEF TasksOn, Undisturbed, Steady, Settled, Begins
  <2>3. \A j \in 1..(k - 1) : j \in PlanKeys
    BY <2>1 DEF PlanKeys, Undisturbed, JobInv, RunsInv, StoreTypeOK
  <2>4. IntegrationPrerequisitesMet(task, k)'
    BY <1>2, <1>7, <2>3 DEF Placed, IntegrationPrerequisitesMet
  <2> QED BY <2>1, <2>2, <2>4 DEF Placed
<1>8. ASSUME NEW k, Placed(k), merged[k] # NoSHA, task'[k].status = "integrating"
      PROVE  task[k].status = "integrating" /\ Local' = Local
  <2>1. k \in PlanKeys /\ task[k].status \in Begins
    BY <1>8 DEF Placed
  <2>2. task[k].status = "integrating"
    BY <1>8, <2>1 DEF Undisturbed, Steady, Settled, Begins
  <2> QED BY <1>8, <2>1, <2>2 DEF BranchOn
<1>9. pr # "none" \/ AllTasksIntegrated(task) => pr' # "none" \/ AllTasksIntegrated(task)'
  BY <1>4 DEF TasksOn, HubOn
<1> QED BY <1>3, <1>5, <1>6, <1>7, <1>8, <1>9 DEF Stays

LEMMA SoundStays ==
  ASSUME Undisturbed, TasksOn, BranchOn, HubOn, NEW f \in Frame, Sound(f)
  PROVE  Sound(f)'
<1>1. Stays
  BY Staying
<1>2. f.pc \in {"merge", "merged"} => Placed(f.item.key)'
  BY <1>1 DEF Sound, Stays
<1>3. f.pc = "merged" => merged'[f.item.key] # NoSHA
  <2>1. f.pc = "merged" => f.item.key \in Keys /\ merged[f.item.key] # NoSHA
    BY PlanKeysType DEF Sound, Placed, Undisturbed, JobInv, RunsInv
  <2> QED BY <2>1 DEF BranchOn
<1>4. f.pc = "merged" /\ task'[f.item.key].status = "integrating" => f.sha = Local'
  BY <1>1 DEF Sound, Stays
<1>5. f.publish # "no" => f.pc \in Heading /\ HeadOK(f.sha)'
  BY <1>1 DEF Sound, Stays
<1>6. f.pc \in {"ci", "checks", "open", "gate", "gatechecks", "mergepr"} => HeadOK(f.sha)'
  BY <1>1 DEF Sound, Stays
<1>7. f.pc \in {"record", "ci", "opened"} => pr' # "none"
  BY DEF Sound, HubOn
<1>8. f.pc \in {"gatechecks", "mergepr"} => pushed' = f.sha \/ Answered(f.sha)'
  BY <1>1 DEF Sound, Stays
<1>9. f.pc = "mergepr" /\ f.sha # NoSHA => checks'[f.sha] = "passed"
  BY DEF Sound, HubOn, Frame
<1>10. f.pc # "rereview"
       /\ (f.pc = "startreview" => pr' # "none" \/ AllTasksIntegrated(task)')
  BY <1>1 DEF Sound, Stays
<1> QED BY <1>2, <1>3, <1>4, <1>5, <1>6, <1>7, <1>8, <1>9, <1>10 DEF Sound

----------------------------------------------------------------------------
(* The parts of the invariant. *)

\* Every call to come could be made, before or after the step.
Fit(f) == Sound(f) \/ Sound(f)'

StackOn == \A f : Stacked(thread', f) => Fit(f)

LEMMA StackStays ==
  ASSUME Undisturbed, TasksOn, BranchOn, HubOn, StackOn
  PROVE  StackPart'
<1> SUFFICES ASSUME NEW t \in Threads, NEW i \in DOMAIN thread'[t] PROVE Sound(thread[t][i])'
  BY DEF StackPart
<1>f. PICK f : f = thread'[t][i]
  OBVIOUS
<1>1. f \in Frame
  <2>1. thread' \in [Threads -> Seq(Frames')]
    BY DEF Undisturbed, JobInv, RunsInv
  <2>2. thread'[t] \in Seq(Frames')
    BY <2>1
  <2>3. f \in Frames'
    BY <1>f, <2>2
  <2> QED BY <2>3 DEF Frames
<1>2. Stacked(thread', f)
  BY <1>f DEF Stacked
<1>3. Sound(f)'
  BY <1>1, <1>2, SoundStays DEF StackOn, Fit
<1> QED BY <1>f, <1>3

TasksTamed ==
    /\ planned' = planned
    /\ \A k \in PlanKeys :
          LET t == task[k]
              u == task'[k]
          IN /\ Fixed(t, u)
             /\ u.print = t.print \/ u.status = "blocked"
             /\ t.status = "integrating" => u.status \in Begins
             /\ u.status = "integrated" => t.status = "integrated" \/ merged[k] # NoSHA

LEMMA TamedOn ==
  ASSUME Undisturbed, TasksTamed
  PROVE  TasksOn
BY DEF TasksTamed, TasksOn, PlanKeys

LEMMA TameTasks == Tame => TasksTamed
BY DEF Tame, Tamed, TasksTamed

LEMMA SameBranch == UNCHANGED merged => BranchOn
BY DEF BranchOn, Local

LEMMA TaskStays ==
  ASSUME Undisturbed, TasksTamed, BranchOn, HubOn,
         \A k \in PlanKeys : merged'[k] # NoSHA => merged[k] # NoSHA \/ Placed(k)
  PROVE  TaskPart'
<1> SUFFICES ASSUME NEW k \in PlanKeys'
             PROVE  /\ merged'[k] # NoSHA => Placed(k)'
                    /\ task'[k].status = "integrated" => merged'[k] # NoSHA
                    /\ task'[k].remediation =>
                          /\ pr' # "none"
                          /\ checks'[task'[k].base] \in Prints
                          /\ task'[k].status # "blocked"
                                => task'[k].print = checks'[task'[k].base]
  BY DEF TaskPart
<1>1. k \in PlanKeys /\ k \in Keys
  BY PlanKeysType DEF TasksTamed, PlanKeys, Undisturbed, JobInv, RunsInv
<1>2. /\ merged[k] # NoSHA => Placed(k)
      /\ task[k].status = "integrated" => merged[k] # NoSHA
      /\ task[k].remediation =>
            /\ pr # "none"
            /\ checks[task[k].base] \in Prints
            /\ task[k].status # "blocked" => task[k].print = checks[task[k].base]
  BY <1>1 DEF Undisturbed, OwnInv, TaskPart
<1>3. Stays
  BY TamedOn, Staying
<1>4. merged'[k] # NoSHA => Placed(k)'
  BY <1>1, <1>2, <1>3 DEF Stays
<1>5. task'[k].status = "integrated" => merged'[k] # NoSHA
  BY <1>1, <1>2 DEF TasksTamed, BranchOn
<1>6. ASSUME task'[k].remediation
      PROVE  /\ pr' # "none"
             /\ checks'[task'[k].base] \in Prints
             /\ task'[k].status # "blocked" => task'[k].print = checks'[task'[k].base]
  <2>1. task[k].remediation /\ task[k].base # NoSHA /\ task[k].base \in SHAs
    BY <1>1, <1>6 DEF TasksTamed, Fixed, Undisturbed, JobInv, RunsInv, StoreInv, StoreTypeOK, Task
  <2>2. task'[k].base = task[k].base
    BY <1>1, <2>1 DEF TasksTamed, Fixed
  <2>3. checks'[task[k].base] = checks[task[k].base]
    BY <1>2, <2>1, PrintsAssumption DEF HubOn
  <2>4. task[k].status = "blocked" => task'[k].status = "blocked"
    BY <1>1 DEF Undisturbed, Steady, Settled
  <2> QED BY <1>1, <1>2, <2>1, <2>2, <2>3, <2>4 DEF HubOn, TasksTamed
<1> QED BY <1>4, <1>5, <1>6

\* All tasks are finished: the head of the branch is the commit of the job.
LEMMA WholeHead ==
  ASSUME OwnInv, AllTasksIntegrated(task)
  PROVE  job.integrationSHA = Local /\ HeadOK(job.integrationSHA)
<1>1. \A k \in PlanKeys : merged[k] # NoSHA => task[k].status = "integrated"
  BY DEF OwnInv, TaskPart, Placed, Begins, AllTasksIntegrated, Finished
<1> QED BY <1>1 DEF OwnInv, JobPart, HeadOK

LEMMA JobStays ==
  ASSUME Undisturbed, TasksTamed, UNCHANGED merged, HubOn, pr' # "none" => pr # "none",
         \A k \in PlanKeys : task'[k].status = "integrated" => task[k].status = "integrated",
         job'.integrationSHA = job.integrationSHA,
         job'.status \in Whole => job.status \in Whole \/ AllTasksIntegrated(task')
  PROVE  JobPart'
<1>1. Stays /\ PlanKeys' = PlanKeys /\ Local' = Local
  BY TamedOn, SameBranch, Staying DEF TasksTamed, PlanKeys, Local
<1>2. \A k \in PlanKeys : Finished(task[k]) => Finished(task'[k])
  BY DEF Undisturbed, Steady, Settled, Finished
<1>3. job'.status \in Whole => AllTasksIntegrated(task)'
  BY <1>1, <1>2 DEF AllTasksIntegrated, TasksTamed, Undisturbed, OwnInv, JobPart
<1>4. (\A k \in PlanKeys' : merged'[k] # NoSHA => task'[k].status = "integrated")
         => job'.integrationSHA = Local'
  BY <1>1 DEF Undisturbed, OwnInv, JobPart
<1>h. PICK h : h = job.integrationSHA
  OBVIOUS
<1>5. pr' # "none" => /\ \A k \in PlanKeys' : k < planned' => Finished(task'[k])
                      /\ HeadOK(h)'
  BY <1>h, <1>1, <1>2 DEF Undisturbed, OwnInv, JobPart, TasksTamed, Stays
<1>6. HeadOK(h)' => HeadOK(job.integrationSHA)'
  BY <1>h DEF HeadOK, Answered
<1> QED BY <1>3, <1>4, <1>5, <1>6 DEF JobPart

LEMMA CIStays ==
  ASSUME Undisturbed, TasksOn, BranchOn, HubOn, UNCHANGED ci, Offered' => Offered \/ pr # "none"
  PROVE  CIPart'
<1>1. Stays
  BY Staying
<1>h. PICK h : h = ci.head
  OBVIOUS
<1>2. h # NoSHA => HeadOK(h)'
  BY <1>h, <1>1 DEF Undisturbed, OwnInv, CIPart, Stays
<1>3. HeadOK(h)' => HeadOK(ci.head)'
  BY <1>h DEF HeadOK, Answered
<1>4. ci'.state = "failed" => ci'.print \in Prints /\ ci'.print = checks'[ci'.head]
  <2> SUFFICES ASSUME ci.state = "failed"
               PROVE  ci.print \in Prints /\ ci.print = checks'[ci.head]
    OBVIOUS
  <2>1. ci.print \in Prints /\ ci.print = checks[ci.head]
    BY DEF Undisturbed, OwnInv, CIPart
  <2>2. ci.head \in SHAs
    BY DEF Undisturbed, JobInv, RunsInv, StoreInv, HeadKnown, StoreTypeOK, CI
  <2> QED BY <2>1, <2>2, PrintsAssumption DEF HubOn
<1>5. Offered' => pr' # "none"
  BY DEF Undisturbed, OwnInv, CIPart, HubOn
<1> QED BY <1>h, <1>2, <1>3, <1>4, <1>5 DEF CIPart

RunsTame ==
    /\ Asked' => Asked
    /\ Looked' => Looked /\ remote'[Holistic].saw = remote[Holistic].saw

LEMMA ReviewStays ==
  ASSUME Undisturbed, TasksOn, BranchOn, HubOn,
         Asked' => Asked \/ pr # "none" \/ AllTasksIntegrated(task),
         Looked' => Looked /\ remote'[Holistic].saw = remote[Holistic].saw
  PROVE  ReviewPart'
<1>1. Stays
  BY Staying
<1>2. Asked' => pr' # "none" \/ AllTasksIntegrated(task)'
  BY <1>1 DEF Undisturbed, OwnInv, ReviewPart, Stays
<1>3. ASSUME Looked' PROVE HeadOK(remote[Holistic].saw)'
  <2>1. HeadOK(remote[Holistic].saw) /\ remote'[Holistic].saw = remote[Holistic].saw
    BY <1>3 DEF Undisturbed, OwnInv, ReviewPart
  <2>2. PICK h : h = remote[Holistic].saw
    OBVIOUS
  <2>3. HeadOK(h)'
    BY <1>1, <2>1, <2>2 DEF Stays
  <2> QED BY <2>1, <2>2, <2>3 DEF HeadOK, Answered
<1> QED BY <1>2, <1>3 DEF ReviewPart

\* A step that changes neither the commits nor who asked for a review.
LEMMA PlainStep ==
  ASSUME Undisturbed, Tame, UNCHANGED merged, HubOn, pr' # "none" => pr # "none",
         RunsTame, StackOn
  PROVE  OwnInv'
<1>1. TasksTamed /\ TasksOn /\ BranchOn
  BY TameTasks, TamedOn, SameBranch
<1>2. StackPart'
  BY <1>1, StackStays
<1>3. TaskPart'
  BY <1>1, TaskStays
<1>4. JobPart'
  BY <1>1, JobStays DEF Tame, Tamed, JobTame
<1>5. CIPart'
  BY <1>1, CIStays DEF Tame, JobTame
<1>6. ReviewPart'
  BY <1>1, ReviewStays DEF RunsTame
<1> QED BY <1>2, <1>3, <1>4, <1>5, <1>6 DEF OwnInv

----------------------------------------------------------------------------
(* Calls that need no evidence but for the commit they may carry. *)

Simple == Calls \ {"merge", "merged", "ci", "checks", "open", "gate", "gatechecks", "mergepr",
                   "record", "opened", "rereview", "startreview"}

LEMMA SimpleSound ==
  ASSUME NEW g, g.pc \in Simple
  PROVE  /\ (g.publish # "no" => g.pc \in Heading /\ HeadOK(g.sha)) => Sound(g)
         /\ (g.publish # "no" => g.pc \in Heading /\ HeadOK(g.sha)') => Sound(g)'
BY DEF Simple, Sound

LEMMA TopSound ==
  ASSUME Undisturbed, NEW t \in Busy, NEW f, f = Top(t)
  PROVE  /\ f \in Frame /\ Good(f) /\ Sound(f) /\ f.pc = Head(thread[t]).pc
         /\ f.publish # "no" => f.pc \in Heading /\ HeadOK(f.sha)
<1>1. f \in Frame /\ Good(f) /\ f.pc = Head(thread[t]).pc
  BY TopFrame DEF Undisturbed, JobInv, Top
<1>2. thread[t] \in Seq(Frames) /\ thread[t] # <<>> /\ t \in Threads
  BY DEF Undisturbed, JobInv, RunsInv, Busy
<1>3. 1 \in DOMAIN thread[t] /\ f = thread[t][1]
  BY <1>2 DEF Top
<1>4. Sound(f)
  BY <1>2, <1>3 DEF Undisturbed, OwnInv, StackPart
<1> QED BY <1>1, <1>4 DEF Sound

LEMMA CallSound ==
  ASSUME NEW pc \in Simple, NEW d
  PROVE  Sound(Call(pc, d)) /\ Call(pc, d).pc = pc /\ Call(pc, d).publish = "no"
<1>g. PICK g : g = Call(pc, d)
  OBVIOUS
<1>1. g.pc = pc /\ g.publish = "no"
  BY <1>g DEF Call
<1> QED BY <1>g, <1>1, SimpleSound

\* Another call of the same frame.
LEMMA PcSound ==
  ASSUME NEW f \in Frame, NEW p \in Simple, f.publish # "no" => p \in Heading /\ HeadOK(f.sha)
  PROVE  Sound([f EXCEPT !.pc = p])
<1>g. PICK g : g = [f EXCEPT !.pc = p]
  OBVIOUS
<1>1. g.pc = p /\ g.publish = f.publish /\ g.sha = f.sha
  BY <1>g DEF Frame
<1> QED BY <1>g, <1>1, SimpleSound

LEMMA DoneSound == ASSUME NEW f PROVE Sound(Done(f))
<1>1. "mark" \in Simple
  BY DEF Simple, Calls
<1> QED BY <1>1, CallSound DEF Done

LEMMA Callable ==
  /\ {"base", "writer", "work", "draft", "create", "get"} \subseteq Simple \intersect Heading
  /\ {"poll", "apply", "mark", "tree", "complete", "nochanges", "review", "own", "report",
      "verdict", "block", "integrate", "begin", "retry", "remediate", "ownreview",
      "jobverdict", "fail", "publish", "recordmerge"} \subseteq Simple
BY DEF Simple, Calls, Heading

Shaped(f) == f = [pc |-> f.pc, run |-> f.run, item |-> f.item, todo |-> f.todo,
                  publish |-> f.publish, sha |-> f.sha]

LEMMA ContinueCall ==
  ASSUME NEW f, Shaped(f), NEW g, g = Continue(f)
  PROVE  g.pc \in Simple
         /\ (g.publish # "no" => g.pc \in Heading /\ g.sha = f.sha /\ f.publish # "no")
<1>1. CASE f.todo # {}
  <2>1. PICK i : i = Nearest(f.todo)
    OBVIOUS
  <2>2. PICK q \in {"writer", "base"} :
           g = [f EXCEPT !.pc = q, !.item = i, !.todo = f.todo \ {i}]
    BY <1>1, <2>1 DEF Continue
  <2>3. g.pc = q /\ g.publish = f.publish /\ g.sha = f.sha
    BY <2>2 DEF Shaped
  <2> QED BY <2>3, Callable
<1>2. CASE f.todo = {} /\ f.publish # "no"
  <2>1. g = [f EXCEPT !.pc = "draft"]
    BY <1>2 DEF Continue
  <2>2. g.pc = "draft" /\ g.publish = f.publish /\ g.sha = f.sha
    BY <2>1 DEF Shaped
  <2> QED BY <1>2, <2>2, Callable
<1>3. CASE f.todo = {} /\ f.publish = "no"
  <2>1. g = Done(f)
    BY <1>3 DEF Continue
  <2> QED BY <2>1, Callable DEF Done, Call
<1> QED BY <1>1, <1>2, <1>3

LEMMA ContinueSound ==
  ASSUME NEW f \in Frame, NEW X, f.publish # "no" => HeadOK(f.sha)
  PROVE  Sound(Continue([f EXCEPT !.todo = X]))
<1>h. PICK h : h = [f EXCEPT !.todo = X]
  OBVIOUS
<1>g. PICK g : g = Continue(h)
  OBVIOUS
<1>1. Shaped(h) /\ h.sha = f.sha /\ h.publish = f.publish
  BY <1>h DEF Frame, Shaped
<1>2. g.pc \in Simple /\ (g.publish # "no" => g.pc \in Heading /\ g.sha = f.sha /\ f.publish # "no")
  BY <1>g, <1>1, ContinueCall
<1>3. Sound(g)
  BY <1>2, SimpleSound
<1> QED BY <1>h, <1>g, <1>3

\* integrateEligible starts from the commit of a job whose tasks are finished.
LEMMA PickCall ==
  ASSUME NEW f \in Frame, f.publish = "no", NEW tasks, NEW j, NEW g, g = Pick(f, tasks, j)
  PROVE  /\ g.pc \in Simple
         /\ g.publish # "no" => /\ g.pc \in Heading /\ g.sha = j.integrationSHA
                                /\ j.status = "holistic_reviewing"
<1>1. CASE {k \in PlanKeys : tasks[k].status = "integration_eligible"} # {}
  <2>1. \E i : g = [f EXCEPT !.pc = "begin", !.item = i]
    BY <1>1 DEF Pick
  <2>2. g.pc = "begin" /\ g.publish = f.publish
    BY <2>1 DEF Frame
  <2> QED BY <2>2 DEF Simple, Calls
<1>2. CASE {k \in PlanKeys : tasks[k].status = "integration_eligible"} = {}
  <2>p. PICK p : p = IF j.status # "holistic_reviewing" THEN "no"
                     ELSE IF j.pullRequest THEN "known" ELSE "new"
    OBVIOUS
  <2>x. PICK X : X = Ready(planned, tasks)
    OBVIOUS
  <2>h. PICK h : h = [f EXCEPT !.todo = X, !.sha = j.integrationSHA, !.publish = p]
    OBVIOUS
  <2>1. g = Continue(h)
    BY <1>2, <2>h, <2>p, <2>x DEF Pick
  <2>2. Shaped(h) /\ h.sha = j.integrationSHA /\ h.publish = p
    BY <2>h DEF Frame, Shaped
  <2>3. g.pc \in Simple /\ (g.publish # "no" => g.pc \in Heading /\ g.sha = h.sha /\ p # "no")
    BY <2>1, <2>2, ContinueCall
  <2> QED BY <2>p, <2>2, <2>3
<1> QED BY <1>1, <1>2

----------------------------------------------------------------------------
(* Call stacks of a step. *)

LEMMA GotoOn ==
  ASSUME Undisturbed, NEW t \in Busy, NEW g, Fit(g), thread' = Goto(t, g)
  PROVE  StackOn
<1>1. thread \in [Threads -> Seq(Frames)]
  BY DEF Undisturbed, JobInv, RunsInv
<1>2. ASSUME NEW f, Stacked(thread, f) PROVE Sound(f)
  BY <1>2 DEF Stacked, Undisturbed, OwnInv, StackPart
<1>3. ASSUME NEW f, Stacked(thread', f) PROVE f = g \/ Stacked(thread, f)
  <2>1. Stacked(Goto(t, g), f)
    BY <1>3
  <2> QED BY <1>1, <2>1, GotoStacked
<1> QED BY <1>2, <1>3 DEF StackOn, Fit

LEMMA ReturnOn ==
  ASSUME Undisturbed, NEW t \in Busy, thread' = Return(t)
  PROVE  StackOn
<1>1. thread \in [Threads -> Seq(Frames)]
  BY DEF Undisturbed, JobInv, RunsInv
<1>2. ASSUME NEW f, Stacked(thread, f) PROVE Sound(f)
  BY <1>2 DEF Stacked, Undisturbed, OwnInv, StackPart
<1>3. ASSUME NEW f, Stacked(thread', f) PROVE Stacked(thread, f)
  <2>1. Stacked(Return(t), f)
    BY <1>3
  <2> QED BY <1>1, <2>1, ReturnStacked
<1> QED BY <1>2, <1>3 DEF StackOn, Fit

\* A run is started, and its watcher with it.
LEMMA LaunchOn ==
  ASSUME Undisturbed, NEW t, NEW d, Start(t, d, thread) \/ Launch(t, d, thread)
  PROVE  StackOn
<1>1. thread \in [Threads -> Seq(Frames)]
  BY DEF Undisturbed, JobInv, RunsInv
<1>2. ASSUME NEW f, Stacked(thread, f) PROVE Sound(f)
  BY <1>2 DEF Stacked, Undisturbed, OwnInv, StackPart
<1>3. Sound(Call("poll", d)) /\ Sound(Call("apply", d))
  BY CallSound DEF Simple, Calls
<1> QED BY <1>1, <1>2, <1>3, StartStacked DEF StackOn, Fit

LEMMA StartOn ==
  ASSUME Undisturbed, NEW t \in Busy, NEW d, NEW g, Sound(g), Start(t, d, Goto(t, g))
  PROVE  StackOn
<1> DEFINE S == Frames \union {g}
<1>1. thread \in [Threads -> Seq(S)]
  BY StacksIn DEF Undisturbed, JobInv, RunsInv
<1>2. Goto(t, g) \in [Threads -> Seq(S)]
  BY <1>1, GotoIn
<1>3. ASSUME NEW f, Stacked(thread, f) PROVE Sound(f)
  BY <1>3 DEF Stacked, Undisturbed, OwnInv, StackPart
<1>4. Sound(Call("poll", d)) /\ Sound(Call("apply", d))
  BY CallSound DEF Simple, Calls
<1>5. ASSUME NEW f, Stacked(thread', f)
      PROVE  f = Call("poll", d) \/ f = Call("apply", d) \/ Stacked(Goto(t, g), f)
  BY <1>2, <1>5, StartStacked
<1>6. ASSUME NEW f, Stacked(Goto(t, g), f) PROVE f = g \/ Stacked(thread, f)
  BY <1>1, <1>6, GotoStacked
<1> QED BY <1>3, <1>4, <1>5, <1>6 DEF StackOn, Fit

----------------------------------------------------------------------------
(* Steps of TaskRuns that are plain. *)

LEMMA SameHubOn == UNCHANGED pubVars => HubOn /\ (pr' # "none" => pr # "none")
BY DEF pubVars, hubVars, HubOn

LEMMA QuietRuns == UNCHANGED <<record, remote, queue>> => RunsTame
BY DEF RunsTame, Asked, Looked

LEMMA GoOn ==
  ASSUME Undisturbed, Tame, UNCHANGED <<record, remote, queue, merged>>, UNCHANGED pubVars,
         NEW t \in Busy, NEW g, Fit(g), thread' = Goto(t, g)
  PROVE  OwnInv'
<1>1. StackOn
  BY GotoOn
<1>2. HubOn /\ (pr' # "none" => pr # "none") /\ RunsTame
  BY SameHubOn, QuietRuns
<1>3. QED
  BY <1>1, <1>2, PlainStep

LEMMA GoBack ==
  ASSUME Undisturbed, Tame, UNCHANGED <<record, remote, queue, merged>>, UNCHANGED pubVars,
         NEW t \in Busy, thread' = Return(t)
  PROVE  OwnInv'
BY SameHubOn, QuietRuns, ReturnOn, PlainStep

\* A call of the job store, refused or not.
LEMMA TryGoOn ==
  ASSUME Undisturbed, NEW ACTION op, NEW t \in Busy, NEW g, UNCHANGED merged, UNCHANGED pubVars,
         Try(op, t, Goto(t, g)), op => Tame /\ Fit(g)
  PROVE  OwnInv'
<1>1. /\ UNCHANGED <<record, remote, queue>>
      /\ \/ op /\ thread' = Goto(t, g)
         \/ UNCHANGED storeVars /\ thread' = Return(t)
  BY TryCases
<1>2. CASE op /\ thread' = Goto(t, g)
  BY <1>1, <1>2, GoOn
<1>3. CASE UNCHANGED storeVars /\ thread' = Return(t)
  BY <1>1, <1>3, SameTame, GoBack
<1> QED BY <1>1, <1>2, <1>3

LEMMA StayOn ==
  ASSUME Undisturbed, NEW t \in Busy, NEW g, Sound(g), thread' = Goto(t, g),
         UNCHANGED storeVars, UNCHANGED <<record, remote, queue, merged>>, UNCHANGED pubVars
  PROVE  OwnInv'
BY SameTame, GoOn DEF Fit

LEMMA StayBack ==
  ASSUME Undisturbed, NEW t \in Busy, thread' = Return(t),
         UNCHANGED storeVars, UNCHANGED <<record, remote, queue, merged>>, UNCHANGED pubVars
  PROVE  OwnInv'
BY SameTame, GoBack

LEMMA Types ==
  ASSUME Undisturbed
  PROVE  /\ StoreTypeOK /\ StoreInv /\ RunsInv /\ job \in Job
         /\ \A d : Known(d) /\ d.role \in {"writer", "reviewer"} => d.key \in PlanKeys
BY DEF Undisturbed, JobInv, RunsInv, StoreTypeOK, Known

LEMMA ObserveOwn ==
  ASSUME Undisturbed, NEW t \in Busy, Observe(t) \/ Mark(t),
         UNCHANGED storeVars, UNCHANGED gitVars, UNCHANGED pubVars
  PROVE  OwnInv'
<1>1. UNCHANGED merged /\ Tame
  BY SameTame DEF gitVars, historyVars
<1>2. CASE Observe(t)
  <2>d. PICK d : d = Top(t).run
    OBVIOUS
  <2>1. /\ UNCHANGED <<remote, queue>> /\ record' = [record EXCEPT ![d] = "ended"]
        /\ thread' = Goto(t, Call("apply", d))
    BY <1>2, <2>d DEF Observe, Saved
  <2>2. Fit(Call("apply", d))
    BY CallSound, Callable DEF Fit
  <2>3. StackOn
    BY <2>1, <2>2, GotoOn
  <2>4. record'[Holistic] = "starting" => record[Holistic] = "starting"
    <3>1. record \in [Runs -> Records] /\ Holistic \in Runs
      BY RunTypes DEF Undisturbed, JobInv, RunsInv, RunsKept
    <3>2. d = Holistic \/ record'[Holistic] = record[Holistic]
      BY <2>1, <3>1
    <3>3. record'[Holistic] \in {record[Holistic], "ended"}
      BY <2>1, <3>1, <3>2
    <3> QED BY <3>3
  <2>5. RunsTame
    BY <2>1, <2>4 DEF RunsTame, Asked, Looked
  <2> QED BY <1>1, <2>3, <2>5, SameHubOn, PlainStep
<1>3. CASE Mark(t)
  <2>1. /\ UNCHANGED <<remote, queue>> /\ thread' = Return(t)
        /\ record' = record \/ \E d : record' = [record EXCEPT ![d] = "applied"]
    BY <1>3 DEF Mark, Saved
  <2>2. StackOn
    BY <2>1, ReturnOn
  <2>3. record'[Holistic] = "starting" => record[Holistic] = "starting"
    <3>1. record \in [Runs -> Records] /\ Holistic \in Runs
      BY RunTypes DEF Undisturbed, JobInv, RunsInv, RunsKept
    <3>2. record'[Holistic] \in {record[Holistic], "applied"}
      <4>1. CASE record' = record
        BY <4>1
      <4>2. CASE \E d : record' = [record EXCEPT ![d] = "applied"]
        <5>1. PICK d : record' = [record EXCEPT ![d] = "applied"]
          BY <4>2
        <5>2. d = Holistic \/ record'[Holistic] = record[Holistic]
          BY <3>1, <5>1
        <5> QED BY <3>1, <5>1, <5>2
      <4> QED BY <2>1, <4>1, <4>2
    <3> QED BY <3>2
  <2>4. RunsTame
    BY <2>1, <2>3 DEF RunsTame, Asked, Looked
  <2> QED BY <1>1, <2>2, <2>4, SameHubOn, PlainStep
<1> QED BY <1>2, <1>3

LEMMA ApplyWriterOwn ==
  ASSUME Undisturbed, NEW t \in Busy, ApplyWriter(t), UNCHANGED pubVars
  PROVE  OwnInv'
<1>f. PICK f : f = Top(t)
  OBVIOUS
<1> DEFINE k == f.run.key
<1>1. f \in Frame /\ f.pc = "apply" /\ f.publish = "no" /\ f.run.role = "writer"
      /\ k \in PlanKeys
      /\ UNCHANGED <<record, remote, queue, merged>>
  BY <1>f, TopSound, Types DEF ApplyWriter, At, Good, Heading, gitVars, historyVars
<1>2. /\ Sound(Done(f)) /\ Sound([f EXCEPT !.pc = "tree"])
      /\ \A own : Sound(ReviewNext(f, own))
  <2>1. Sound([f EXCEPT !.pc = "tree"])
    BY <1>1, PcSound, Callable
  <2>2. ASSUME NEW own PROVE Sound(ReviewNext(f, own))
    <3>g. PICK g : g = ReviewNext(f, own)
      OBVIOUS
    <3>1. g.pc = "review" /\ g.publish = "no"
      BY <1>1, <3>g DEF ReviewNext, Frame
    <3> QED BY <3>g, <3>1, SimpleSound, Callable
  <2> QED BY <2>1, <2>2, DoneSound
<1>3. CASE BlockTask(k) /\ thread' = Goto(t, Done(f))
  BY <1>1, <1>2, <1>3, Types, TaskTame, GoOn DEF Fit
<1>4. CASE UNCHANGED storeVars
  <2>1. \/ thread' = Return(t)
        \/ \E g : Sound(g) /\ thread' = Goto(t, g)
    BY <1>f, <1>1, <1>2, <1>4 DEF ApplyWriter, Advanced
  <2> QED BY <1>1, <1>4, <2>1, StayOn, StayBack
<1> QED BY <1>f, <1>3, <1>4 DEF ApplyWriter

LEMMA ApplyReviewOwn ==
  ASSUME Undisturbed, NEW t \in Busy, ApplyReview(t), UNCHANGED pubVars
  PROVE  OwnInv'
<1>f. PICK f : f = Top(t)
  OBVIOUS
<1> DEFINE k == f.run.key
<1>1. f \in Frame /\ f.pc = "apply" /\ k \in PlanKeys
      /\ UNCHANGED <<record, remote, queue, merged>>
  BY <1>f, TopSound, Types DEF ApplyReview, At, Good, gitVars, historyVars
<1>2. Sound(Done(f)) /\ Sound(Call("report", f.run))
  BY DoneSound, CallSound, Callable
<1>3. CASE BlockTask(k) /\ thread' = Goto(t, Done(f))
  BY <1>1, <1>2, <1>3, Types, TaskTame, GoOn DEF Fit
<1>4. CASE UNCHANGED storeVars /\ \E g : Sound(g) /\ thread' = Goto(t, g)
  BY <1>1, <1>4, StayOn
<1>5. \/ BlockTask(k) /\ thread' = Goto(t, Done(f))
      \/ UNCHANGED storeVars /\ \E g \in {Done(f), Call("report", f.run)} : thread' = Goto(t, g)
  BY <1>f DEF ApplyReview
<1> QED BY <1>2, <1>3, <1>4, <1>5

LEMMA BaseOwn ==
  ASSUME Undisturbed, NEW t \in Busy, Base(t), UNCHANGED pubVars
  PROVE  OwnInv'
<1>f. PICK f : f = Top(t)
  OBVIOUS
<1> DEFINE k == f.item.key
<1>1. f \in Frame /\ f.pc = "base" /\ k \in PlanKeys /\ UNCHANGED merged
      /\ (f.publish # "no" => HeadOK(f.sha))
  BY <1>f, TopSound DEF Base, At, Good, ToStart, historyVars
<1>g. PICK g : g = [f EXCEPT !.pc = "writer", !.item = ItemOf(task', k)]
  OBVIOUS
<1>2. PICK sha : Try(RecordTaskBase(k, sha), t, Goto(t, g))
  BY <1>f, <1>g DEF Base
<1>3. g.pc = "writer" /\ g.publish = f.publish /\ g.sha = f.sha
  BY <1>1, <1>g DEF Frame
<1>4. Fit(g)
  BY <1>1, <1>3, SimpleSound, Callable DEF Fit
<1>5. RecordTaskBase(k, sha) => Tame
  BY <1>1, Types, TaskTame
<1> QED BY <1>1, <1>2, <1>4, <1>5, TryGoOn

\* A run of a task, not the holistic review, is started.
LEMMA OthersRun ==
  ASSUME Undisturbed, NEW d, d # Holistic, NEW t, NEW next, Start(t, d, next)
  PROVE  RunsTame
<1>1. record'[Holistic] = record[Holistic] /\ remote'[Holistic] = remote[Holistic]
      /\ queue' = queue
  <2>1. record \in [Runs -> Records] /\ remote \in [Runs -> Remote] /\ Holistic \in Runs
    BY RunTypes DEF Undisturbed, JobInv, RunsInv, RunsKept
  <2>2. UNCHANGED <<record, remote, queue>> \/ (Launch(t, d, next) /\ UNCHANGED queue)
    BY DEF Start
  <2> QED BY <2>1, <2>2 DEF Launch, Saved
<1> QED BY <1>1 DEF RunsTame, Asked, Looked

LEMMA StartsOwn ==
  ASSUME Undisturbed, NEW t \in Busy, NEW d, d # Holistic, NEW g, Sound(g),
         Start(t, d, Goto(t, g)), UNCHANGED storeVars, UNCHANGED gitVars, UNCHANGED pubVars
  PROVE  OwnInv'
<1>1. UNCHANGED merged /\ Tame
  BY SameTame DEF gitVars, historyVars
<1>2. StackOn /\ RunsTame
  BY StartOn, OthersRun
<1> QED BY <1>1, <1>2, SameHubOn, PlainStep

LEMMA StartWriterRunOwn ==
  ASSUME Undisturbed, NEW t \in Busy, StartWriterRun(t), UNCHANGED pubVars
  PROVE  OwnInv'
<1>f. PICK f : f = Top(t)
  OBVIOUS
<1>d. PICK d : d = Writer(f.item.key, f.item.attempt)
  OBVIOUS
<1>1. f \in Frame /\ f.pc = "writer" /\ (f.publish # "no" => HeadOK(f.sha))
  BY <1>f, TopSound DEF StartWriterRun, At
<1>2. Sound([f EXCEPT !.pc = "work"])
  BY <1>1, PcSound, Callable
<1>3. /\ Start(t, d, Goto(t, [f EXCEPT !.pc = "work"]))
      /\ UNCHANGED storeVars /\ UNCHANGED merged
  BY <1>f, <1>d DEF StartWriterRun, historyVars
<1>4. d # Holistic
  BY <1>d DEF Writer, Holistic
<1>5. StackOn /\ RunsTame /\ Tame
  BY <1>2, <1>3, <1>4, StartOn, OthersRun, SameTame
<1> QED BY <1>3, <1>5, SameHubOn, PlainStep

LEMMA StartReviewerRunOwn ==
  ASSUME Undisturbed, NEW t \in Busy, StartReviewerRun(t), UNCHANGED pubVars
  PROVE  OwnInv'
<1>f. PICK f : f = Top(t)
  OBVIOUS
<1>d. PICK d : d = Reviewer(f.item.key, f.item.attempt)
  OBVIOUS
<1>1. f \in Frame /\ f.pc = "review" /\ f.publish = "no"
  BY <1>f, TopSound DEF StartReviewerRun, At, Heading
<1>2. Sound([f EXCEPT !.pc = "own"])
  BY <1>1, PcSound, Callable
<1>3. /\ Start(t, d, Goto(t, [f EXCEPT !.pc = "own"]))
      /\ UNCHANGED storeVars /\ UNCHANGED gitVars
  BY <1>f, <1>d DEF StartReviewerRun
<1>4. d # Holistic
  BY <1>d DEF Reviewer, Holistic
<1> QED BY <1>2, <1>3, <1>4, StartsOwn

LEMMA WorkOwn ==
  ASSUME Undisturbed, NEW t \in Busy, Work(t), UNCHANGED pubVars
  PROVE  OwnInv'
<1>f. PICK f : f = Top(t)
  OBVIOUS
<1> DEFINE k == f.item.key
<1>1. f \in Frame /\ f.pc = "work" /\ k \in PlanKeys /\ UNCHANGED merged
      /\ (f.publish # "no" => HeadOK(f.sha))
  BY <1>f, TopSound DEF Work, At, Good, ToStart, gitVars, historyVars
<1>x. PICK X : X = f.todo
  OBVIOUS
<1>2. f = [f EXCEPT !.todo = X]
  BY <1>1, <1>x DEF Frame
<1>g. PICK g : g = Continue(f)
  OBVIOUS
<1>3. Fit(g)
  BY <1>1, <1>2, <1>g, ContinueSound DEF Fit
<1>d. PICK d : d = Writer(k, f.item.attempt)
  OBVIOUS
<1>4. Try(StartTaskWork(k, d), t, Goto(t, g))
  BY <1>f, <1>g, <1>d DEF Work
<1>5. StartTaskWork(k, d) => Tame
  BY <1>1, Types, TaskTame
<1> QED BY <1>1, <1>3, <1>4, <1>5, TryGoOn

LEMMA CommitOwn ==
  ASSUME Undisturbed, NEW t \in Busy, Commit(t), UNCHANGED pubVars
  PROVE  OwnInv'
<1>f. PICK f : f = Top(t)
  OBVIOUS
<1>1. /\ f \in Frame /\ f.pc = "tree" /\ f.publish = "no" /\ UNCHANGED storeVars
      /\ UNCHANGED <<record, remote, queue, merged>>
  BY <1>f, TopSound DEF Commit, At, Heading, historyVars
<1>2. CASE thread' = Goto(t, [f EXCEPT !.pc = "nochanges"])
  <2>1. Sound([f EXCEPT !.pc = "nochanges"])
    BY <1>1, PcSound, Callable
  <2> QED BY <1>1, <1>2, <2>1, StayOn
<1>3. CASE \E sha : thread' = Goto(t, [f EXCEPT !.pc = "complete", !.sha = sha])
  <2>1. PICK sha : thread' = Goto(t, [f EXCEPT !.pc = "complete", !.sha = sha])
    BY <1>3
  <2>g. PICK g : g = [f EXCEPT !.pc = "complete", !.sha = sha]
    OBVIOUS
  <2>2. g.pc = "complete" /\ g.publish = "no"
    BY <1>1, <2>g DEF Frame
  <2>3. Sound(g)
    BY <2>2, SimpleSound, Callable
  <2> QED BY <1>1, <2>1, <2>g, <2>3, StayOn
<1>4. CASE thread' = Return(t)
  BY <1>1, <1>4, StayBack
<1> QED BY <1>f, <1>2, <1>3, <1>4 DEF Commit

LEMMA CompleteOwn ==
  ASSUME Undisturbed, NEW t \in Busy, Complete(t), UNCHANGED pubVars
  PROVE  OwnInv'
<1>f. PICK f : f = Top(t)
  OBVIOUS
<1> DEFINE k == f.run.key
<1>1. f \in Frame /\ f.pc = "complete" /\ f.publish = "no" /\ k \in PlanKeys /\ UNCHANGED merged
  BY <1>f, TopSound, Types DEF Complete, At, Good, Heading, gitVars, historyVars
<1>g. PICK g : g = ReviewNext(f, task'[k])
  OBVIOUS
<1>2. g.pc = "review" /\ g.publish = "no"
  BY <1>1, <1>g DEF ReviewNext, Frame
<1>3. Fit(g)
  BY <1>2, SimpleSound, Callable DEF Fit
<1>4. Try(RecordWriterCompletion(k, f.run, f.sha), t, Goto(t, g))
  BY <1>f, <1>g DEF Complete
<1>5. RecordWriterCompletion(k, f.run, f.sha) => Tame
  BY <1>1, Types, TaskTame
<1> QED BY <1>1, <1>3, <1>4, <1>5, TryGoOn

LEMMA NoChangesOwn ==
  ASSUME Undisturbed, NEW t \in Busy, NoChanges(t), UNCHANGED pubVars
  PROVE  OwnInv'
<1>f. PICK f : f = Top(t)
  OBVIOUS
<1> DEFINE k == f.run.key
<1>1. f \in Frame /\ f.pc = "nochanges" /\ f.publish = "no" /\ k \in PlanKeys /\ UNCHANGED merged
  BY <1>f, TopSound, Types DEF NoChanges, At, Good, Heading, gitVars, historyVars
<1>2. Fit([f EXCEPT !.pc = "integrate"])
  BY <1>1, PcSound, Callable DEF Fit
<1>3. Try(RecordNoChanges(k, f.run), t, Goto(t, [f EXCEPT !.pc = "integrate"]))
  BY <1>f DEF NoChanges
<1>4. RecordNoChanges(k, f.run) => Tame
  BY <1>1, Types, TaskTame
<1> QED BY <1>1, <1>2, <1>3, <1>4, TryGoOn

LEMMA OwnReviewOwn ==
  ASSUME Undisturbed, NEW t \in Busy, OwnReview(t), UNCHANGED pubVars
  PROVE  OwnInv'
<1>f. PICK f : f = Top(t)
  OBVIOUS
<1> DEFINE k == f.item.key
<1>1. f \in Frame /\ f.pc = "own" /\ k \in PlanKeys /\ UNCHANGED merged
  BY <1>f, TopSound DEF OwnReview, At, Good, gitVars, historyVars
<1>d. PICK d : d = Reviewer(k, f.item.attempt)
  OBVIOUS
<1>2. Try(StartReviewer(k, d), t, Goto(t, Done(f)))
  BY <1>f, <1>d DEF OwnReview
<1>3. StartReviewer(k, d) => Tame
  BY <1>1, Types, TaskTame
<1>4. Fit(Done(f))
  BY DoneSound DEF Fit
<1> QED BY <1>1, <1>2, <1>3, <1>4, TryGoOn

LEMMA FileReportOwn ==
  ASSUME Undisturbed, NEW t \in Busy, FileReport(t), UNCHANGED pubVars
  PROVE  OwnInv'
<1>f. PICK f : f = Top(t)
  OBVIOUS
<1> DEFINE k == f.run.key
<1>1. f \in Frame /\ f.pc = "report" /\ f.publish = "no" /\ k \in PlanKeys /\ UNCHANGED merged
  BY <1>f, TopSound, Types DEF FileReport, At, Good, Heading, gitVars, historyVars
<1>2. Fit([f EXCEPT !.pc = "verdict"])
  BY <1>1, PcSound, Callable DEF Fit
<1>3. PICK v, feedback : Try(RecordReviewReport(k, f.run, v, feedback), t,
                              Goto(t, [f EXCEPT !.pc = "verdict"]))
  BY <1>f DEF FileReport
<1>4. RecordReviewReport(k, f.run, v, feedback) => Tame
  BY <1>1, Types, TaskTame
<1> QED BY <1>1, <1>2, <1>3, <1>4, TryGoOn

LEMMA VerdictOwn ==
  ASSUME Undisturbed, NEW t \in Busy, Verdict(t), UNCHANGED pubVars
  PROVE  OwnInv'
<1>f. PICK f : f = Top(t)
  OBVIOUS
<1> DEFINE k == f.run.key
<1>1. f \in Frame /\ f.pc = "verdict" /\ f.publish = "no" /\ k \in PlanKeys /\ UNCHANGED merged
      /\ remote[f.run].says \in Verdicts
  BY <1>f, TopSound, Types DEF Verdict, At, Good, Heading
<1>v. PICK v \in Verdicts : v = remote[f.run].says
  BY <1>1
<1>g. PICK g : g = AfterVerdict(f, v, task'[k])
  OBVIOUS
<1>2. Fit(g)
  <2>1. Sound([f EXCEPT !.pc = "integrate"]) /\ Sound([f EXCEPT !.pc = "block"])
    BY <1>1, PcSound, Callable
  <2>2. \A X : Sound(Continue([f EXCEPT !.todo = X]))
    BY <1>1, ContinueSound
  <2> QED BY <1>g, <2>1, <2>2 DEF AfterVerdict, Fit
<1>3. Try(RecordReview(k, f.run, v), t, Goto(t, g))
  BY <1>f, <1>v, <1>g DEF Verdict
<1>4. RecordReview(k, f.run, v) => Tame
  BY <1>1, Types, TaskTame
<1> QED BY <1>1, <1>2, <1>3, <1>4, TryGoOn

LEMMA BlockOwn ==
  ASSUME Undisturbed, NEW t \in Busy, Block(t), UNCHANGED pubVars
  PROVE  OwnInv'
<1>f. PICK f : f = Top(t)
  OBVIOUS
<1> DEFINE k == f.run.key
<1>1. f \in Frame /\ f.pc = "block" /\ k \in PlanKeys /\ UNCHANGED merged
  BY <1>f, TopSound, Types DEF Block, At, Good, gitVars, historyVars
<1>2. Try(BlockTask(k), t, Goto(t, Done(f))) /\ Fit(Done(f))
  BY <1>f, DoneSound DEF Block, Fit
<1>3. BlockTask(k) => Tame
  BY <1>1, Types, TaskTame
<1> QED BY <1>1, <1>2, <1>3, TryGoOn

LEMMA IntegrateOwn ==
  ASSUME Undisturbed, NEW t \in Busy, Integrate(t), UNCHANGED pubVars
  PROVE  OwnInv'
<1>f. PICK f : f = Top(t)
  OBVIOUS
<1>1. /\ f \in Frame /\ f.pc = "integrate" /\ f.publish = "no" /\ UNCHANGED storeVars
      /\ UNCHANGED <<record, remote, queue, merged>>
  BY <1>f, TopSound DEF Integrate, At, Heading, gitVars, historyVars
<1>g. PICK g : g = Pick(f, task, job)
  OBVIOUS
<1>2. g.pc \in Simple /\ (g.publish # "no" => /\ g.pc \in Heading /\ g.sha = job.integrationSHA
                                              /\ job.status = "holistic_reviewing")
  BY <1>1, <1>g, PickCall
<1>3. job.status = "holistic_reviewing" => HeadOK(job.integrationSHA)
  BY WholeHead DEF Undisturbed, OwnInv, JobPart, Whole
<1>h. PICK h : h = job.integrationSHA
  OBVIOUS
<1>4. Sound(g)
  BY <1>2, <1>3, <1>h, SimpleSound
<1> QED BY <1>f, <1>1, <1>g, <1>4, StayOn DEF Integrate

LEMMA BeginOwn ==
  ASSUME Undisturbed, NEW t \in Busy, Begin(t), UNCHANGED pubVars
  PROVE  OwnInv'
<1>f. PICK f : f = Top(t)
  OBVIOUS
<1> DEFINE k == f.item.key
<1>1. f \in Frame /\ f.pc = "begin" /\ f.publish = "no" /\ k \in PlanKeys /\ UNCHANGED merged
  BY <1>f, TopSound DEF Begin, At, Good, Heading, gitVars, historyVars
<1>g. PICK g : g = [f EXCEPT !.pc = "merge"]
  OBVIOUS
<1>2. g.pc = "merge" /\ g.publish = "no" /\ g.item = f.item
  BY <1>1, <1>g DEF Frame
<1>3. Try(StartIntegration(k), t, Goto(t, g))
  BY <1>f, <1>g DEF Begin
<1>4. StartIntegration(k) => Tame
  BY <1>1, Types, TaskTame
<1>5. ASSUME StartIntegration(k) PROVE Fit(g)
  <2>1. k \in Keys /\ k \in Nat /\ task \in [Keys -> Task] /\ planned' = planned
    BY <1>1, <1>5, Types, PlanKeysType, StoreAssumption DEF StoreTypeOK, Keys, StartIntegration
  <2>2. task' = [task EXCEPT ![k].status = "integrating"] /\ IntegrationPrerequisitesMet(task, k)
    BY <1>5 DEF StartIntegration
  <2>3. task'[k].status = "integrating" /\ \A j \in 1..(k - 1) : task'[j] = task[j]
    BY <2>1, <2>2 DEF Task
  <2>4. IntegrationPrerequisitesMet(task, k)'
    BY <2>2, <2>3 DEF IntegrationPrerequisitesMet
  <2>5. Placed(k)'
    BY <1>1, <2>1, <2>3, <2>4 DEF Placed, Begins, PlanKeys
  <2>6. Sound(g)'
    BY <1>2, <2>5 DEF Sound
  <2> QED BY <2>6 DEF Fit
<1> QED BY <1>1, <1>3, <1>4, <1>5, TryGoOn

LEMMA ResetOwn ==
  ASSUME Undisturbed, NEW t \in Busy, Reset(t), UNCHANGED pubVars
  PROVE  OwnInv'
<1>f. PICK f : f = Top(t)
  OBVIOUS
<1> DEFINE k == f.item.key
<1>1. f \in Frame /\ f.pc = "retry" /\ f.publish = "no" /\ k \in PlanKeys /\ UNCHANGED merged
  BY <1>f, TopSound DEF Reset, At, Good, Heading, gitVars, historyVars
<1>x. PICK X : X = {ItemOf(task', k)}
  OBVIOUS
<1>g. PICK g : g = Continue([f EXCEPT !.todo = X])
  OBVIOUS
<1>2. Fit(g)
  BY <1>1, <1>g, ContinueSound DEF Fit
<1>3. Try(RetryWriter(k, f.run), t, Goto(t, g))
  BY <1>f, <1>g, <1>x DEF Reset
<1>4. RetryWriter(k, f.run) => Tame
  BY <1>1, Types, TaskTame
<1> QED BY <1>1, <1>2, <1>3, <1>4, TryGoOn

----------------------------------------------------------------------------
(* A pull request is opened. *)

\* A goroutine goes on, and nothing of TaskRuns changes but it.
LEMMA MovingOn ==
  ASSUME Undisturbed, NEW t \in Busy, NEW g, Fit(g), Moves(t, Goto(t, g)), HubOn,
         pr' # "none" => pr # "none"
  PROVE  OwnInv'
<1>1. /\ thread' = Goto(t, g) /\ UNCHANGED storeVars
      /\ UNCHANGED <<record, remote, queue, merged>>
  BY DEF Moves, gitVars, historyVars
<1>2. StackOn /\ Tame /\ RunsTame
  BY <1>1, GotoOn, SameTame, QuietRuns
<1> QED BY <1>1, <1>2, PlainStep

LEMMA MovingBack ==
  ASSUME Undisturbed, NEW t \in Busy, Moves(t, Return(t)), HubOn, pr' # "none" => pr # "none"
  PROVE  OwnInv'
<1>1. /\ thread' = Return(t) /\ UNCHANGED storeVars
      /\ UNCHANGED <<record, remote, queue, merged>>
  BY DEF Moves, gitVars, historyVars
<1>2. StackOn /\ Tame /\ RunsTame
  BY <1>1, ReturnOn, SameTame, QuietRuns
<1> QED BY <1>1, <1>2, PlainStep

\* A call of the job store by a handler of publication.
LEMMA StoringOn ==
  ASSUME Undisturbed, NEW ACTION op, NEW t \in Busy, NEW ACTION next, Stores(op, t, next)
  PROVE  /\ UNCHANGED <<record, remote, queue, merged>> /\ UNCHANGED pubVars
         /\ RunsTame /\ HubOn /\ (pr' # "none" => pr # "none") /\ BranchOn
         /\ \/ op /\ thread' = next
            \/ UNCHANGED storeVars /\ thread' = Return(t) /\ OwnInv'
<1>1. /\ UNCHANGED <<record, remote, queue, merged>> /\ UNCHANGED pubVars
      /\ \/ op /\ thread' = next
         \/ UNCHANGED storeVars /\ thread' = Return(t)
  BY TryCases DEF Stores, gitVars, historyVars
<1>2. RunsTame /\ HubOn /\ (pr' # "none" => pr # "none") /\ BranchOn
  BY <1>1, QuietRuns, SameHubOn, SameBranch
<1>3. UNCHANGED storeVars /\ thread' = Return(t) => OwnInv'
  BY <1>1, StayBack
<1> QED BY <1>1, <1>2, <1>3

LEMMA PushBranchOwn ==
  ASSUME Undisturbed, NEW t \in Busy, PushBranch(t)
  PROVE  OwnInv'
<1>f. PICK f : f = Top(t)
  OBVIOUS
<1>1. f \in Frame /\ f.pc = "draft" /\ f.publish # "no" /\ HeadOK(f.sha)
      /\ UNCHANGED <<pr, checks>>
  BY <1>f, TopSound DEF PushBranch, At, Good
<1>2. pushed' = Local /\ Local' = Local
      /\ Moves(t, Goto(t, [f EXCEPT !.pc = IF f.publish = "new" THEN "create" ELSE "get"]))
  BY <1>f DEF PushBranch, Undisturbed, Moves, gitVars, historyVars, Local
<1>3. HubOn
  BY <1>1, <1>2 DEF HubOn
<1>4. PICK p \in {"create", "get"} : Moves(t, Goto(t, [f EXCEPT !.pc = p]))
  BY <1>2
<1>5. Fit([f EXCEPT !.pc = p])
  BY <1>1, PcSound, Callable DEF Fit, Heading
<1> QED BY <1>1, <1>3, <1>4, <1>5, MovingOn

\* A pull request is opened for a commit that may be published.
LEMMA OpenOwn ==
  ASSUME Undisturbed, NEW t \in Busy, NEW f, f = Top(t), HeadOK(f.sha),
         UNCHANGED storeVars, UNCHANGED <<record, remote, queue, merged>>,
         UNCHANGED <<pushed, checks>>, Openable, pr' # "none", StackOn
  PROVE  OwnInv'
<1>1. pr = "none" /\ ~Answered(f.sha)
  BY DEF Openable, Undisturbed, OwnInv, TaskPart, Answered
<1>2. AllTasksIntegrated(task)
  BY <1>1 DEF HeadOK
<1>3. HeadOK(job.integrationSHA)
  BY <1>2, WholeHead DEF Undisturbed
<1>4. HubOn /\ RunsTame /\ Tame /\ BranchOn /\ Local' = Local
  BY QuietRuns, SameTame, SameBranch DEF HubOn, Local
<1>5. TasksTamed /\ TasksOn
  BY <1>4, TameTasks, TamedOn
<1>6. StackPart'
  BY <1>4, <1>5, StackStays
<1>7. TaskPart'
  BY <1>4, <1>5, TaskStays
<1>8. JobPart'
  <2>1. JobPart
    BY DEF Undisturbed, OwnInv
  <2>2. \A k \in PlanKeys : Finished(task[k])
    BY <1>2 DEF AllTasksIntegrated
  <2> QED BY <1>2, <1>3, <1>4, <2>1, <2>2
          DEF JobPart, HeadOK, Answered, storeVars, PlanKeys, AllTasksIntegrated
<1>9. CIPart'
  BY <1>4, <1>5, CIStays DEF storeVars, Offered
<1>10. ReviewPart'
  BY <1>4, <1>5, ReviewStays DEF RunsTame
<1> QED BY <1>6, <1>7, <1>8, <1>9, <1>10 DEF OwnInv

LEMMA OpeningOwn ==
  ASSUME Undisturbed, NEW t \in Busy, NEW kind \in {"draft", "ready"}, NEW f, f = Top(t),
         NEW pc \in {"record", "opened"}, Open(t, kind, pc), HeadOK(f.sha),
         f.publish # "no" => pc = "record"
  PROVE  OwnInv'
<1>0. f \in Frame
  BY TopSound
<1>1. CASE Openable
  <2>1. /\ pr' = kind /\ UNCHANGED <<pushed, checks>>
        /\ thread' = Goto(t, [f EXCEPT !.pc = pc]) /\ UNCHANGED storeVars
        /\ UNCHANGED <<record, remote, queue, merged>>
    BY <1>1 DEF Open, Moves, gitVars, historyVars
  <2>g. PICK g : g = [f EXCEPT !.pc = pc]
    OBVIOUS
  <2>2. g.pc = pc /\ g.sha = f.sha /\ g.publish = f.publish
    BY <1>0, <2>g DEF Frame
  <2>3. HeadOK(f.sha)'
    BY <2>1 DEF HeadOK, Answered, Local, storeVars, PlanKeys, AllTasksIntegrated
  <2>4. Sound(g)'
    BY <2>1, <2>2, <2>3 DEF Sound, Heading
  <2>5. StackOn
    BY <2>1, <2>g, <2>4, GotoOn DEF Fit
  <2> QED BY <1>1, <2>1, <2>5, OpenOwn
<1>2. CASE ~Openable
  <2>1. Moves(t, Return(t)) /\ UNCHANGED <<pr, pushed, checks>>
    BY <1>2 DEF Open
  <2> QED BY <2>1, MovingBack DEF HubOn
<1> QED BY <1>1, <1>2

LEMMA CreateDraftOwn ==
  ASSUME Undisturbed, NEW t \in Busy, CreateDraft(t)
  PROVE  OwnInv'
<1>1. /\ Open(t, "draft", "record")
      /\ Top(t).publish # "no" /\ HeadOK(Top(t).sha)
  BY TopSound DEF CreateDraft, At, Good
<1> QED BY <1>1, OpeningOwn

LEMMA CreateReadyOwn ==
  ASSUME Undisturbed, NEW t \in Busy, CreateReady(t)
  PROVE  OwnInv'
<1>1. /\ Open(t, "ready", "opened")
      /\ Top(t).publish = "no" /\ HeadOK(Top(t).sha)
  BY TopSound DEF CreateReady, At, Sound, Heading
<1> QED BY <1>1, OpeningOwn

\* The pull request is recorded; the commit of the job goes with the call to come.
LEMMA RecordingOwn ==
  ASSUME Undisturbed, NEW t \in Busy, NEW f, f = Top(t), pr # "none",
         NEW p \in {"get", "gate"}, f.publish # "no" => p = "get",
         Stores(RecordPullRequest, t, Goto(t, [f EXCEPT !.pc = p, !.sha = job'.integrationSHA]))
  PROVE  OwnInv'
<1>0. f \in Frame
  BY TopSound
<1>1. /\ UNCHANGED <<record, remote, queue, merged>> /\ UNCHANGED pubVars
      /\ RunsTame /\ HubOn /\ (pr' # "none" => pr # "none") /\ BranchOn
      /\ \/ /\ RecordPullRequest
            /\ thread' = Goto(t, [f EXCEPT !.pc = p, !.sha = job'.integrationSHA])
         \/ UNCHANGED storeVars /\ thread' = Return(t) /\ OwnInv'
  BY StoringOn
<1>2. CASE /\ RecordPullRequest
           /\ thread' = Goto(t, [f EXCEPT !.pc = p, !.sha = job'.integrationSHA])
  <2>1. /\ job'.integrationSHA = job.integrationSHA /\ UNCHANGED <<ci, planned, task>>
        /\ job'.status = job.status
    BY <1>2, Types DEF RecordPullRequest, storeVars, Job
  <2>2. TasksTamed /\ TasksOn
    <3>1. \A k \in PlanKeys : Tamed(task[k], task'[k])
      BY <2>1 DEF Tamed, Fixed, Begins
    <3> QED BY <2>1, <3>1, TamedOn DEF TasksTamed, Tamed
  <2>h. PICK h : h = job.integrationSHA
    OBVIOUS
  <2>g. PICK g : g = [f EXCEPT !.pc = p, !.sha = h]
    OBVIOUS
  <2>3. g.pc = p /\ g.sha = h /\ g.publish = f.publish
    BY <1>0, <2>g DEF Frame
  <2>4. HeadOK(h)
    BY <2>h DEF Undisturbed, OwnInv, JobPart
  <2>5. Sound(g)
    BY <2>3, <2>4 DEF Sound, Heading
  <2>6. StackOn
    BY <1>2, <2>1, <2>h, <2>g, <2>5, GotoOn DEF Fit
  <2>7. StackPart' /\ TaskPart'
    BY <1>1, <2>2, <2>6, StackStays, TaskStays
  <2>8. JobPart'
    BY <1>1, <2>1, <2>2, JobStays
  <2>9. CIPart'
    BY <1>1, <2>1, <2>2, CIStays
  <2>10. ReviewPart'
    BY <1>1, <2>2, ReviewStays DEF RunsTame
  <2> QED BY <2>7, <2>8, <2>9, <2>10 DEF OwnInv
<1> QED BY <1>1, <1>2

LEMMA RecordDraftOwn ==
  ASSUME Undisturbed, NEW t \in Busy, RecordDraft(t)
  PROVE  OwnInv'
<1>f. PICK f : f = Top(t)
  OBVIOUS
<1>1. pr # "none" /\ Stores(RecordPullRequest, t, Goto(t, [f EXCEPT !.pc = "get",
                                                           !.sha = job'.integrationSHA]))
  BY <1>f, TopSound DEF RecordDraft, At, Sound
<1> QED BY <1>f, <1>1, RecordingOwn

LEMMA RecordReadyOwn ==
  ASSUME Undisturbed, NEW t \in Busy, RecordReady(t)
  PROVE  OwnInv'
<1>f. PICK f : f = Top(t)
  OBVIOUS
<1>1. pr # "none" /\ f.publish = "no"
      /\ Stores(RecordPullRequest, t, Goto(t, [f EXCEPT !.pc = "gate",
                                                           !.sha = job'.integrationSHA]))
  BY <1>f, TopSound DEF RecordReady, At, Sound, Heading
<1> QED BY <1>f, <1>1, RecordingOwn

LEMMA GetDraftOwn ==
  ASSUME Undisturbed, NEW t \in Busy, GetDraft(t)
  PROVE  OwnInv'
<1>f. PICK f : f = Top(t)
  OBVIOUS
<1>1. f \in Frame /\ f.pc = "get" /\ f.publish # "no" /\ HeadOK(f.sha) /\ UNCHANGED pubVars
  BY <1>f, TopSound DEF GetDraft, At, Good
<1>2. HubOn /\ (pr' # "none" => pr # "none")
  BY <1>1, SameHubOn
<1>3. CASE pr = "draft" /\ Moves(t, Goto(t, [f EXCEPT !.pc = "ci"]))
  <2>g. PICK g : g = [f EXCEPT !.pc = "ci"]
    OBVIOUS
  <2>1. g.pc = "ci" /\ g.publish = f.publish /\ g.sha = f.sha
    BY <1>1, <2>g DEF Frame
  <2>2. Sound(g)
    BY <1>1, <1>3, <2>1 DEF Sound, Heading
  <2> QED BY <1>2, <1>3, <2>g, <2>2, MovingOn DEF Fit
<1>4. CASE Moves(t, Return(t))
  BY <1>2, <1>4, MovingBack
<1> QED BY <1>f, <1>3, <1>4 DEF GetDraft

----------------------------------------------------------------------------
(* CI, its repairs, and the start of the holistic review. *)

\* Who may be tested may be reviewed.
LEMMA HeadReviewed ==
  ASSUME OwnInv, NEW h, HeadOK(h)
  PROVE  pr # "none" \/ AllTasksIntegrated(task)
BY DEF HeadOK, Answered, OwnInv, TaskPart

\* No commit a repair was asked for has passed.
LEMMA PassedWhole ==
  ASSUME OwnInv, NEW h, HeadOK(h), checks[h] = "passed"
  PROVE  h = Local /\ AllTasksIntegrated(task)
BY PrintsAssumption DEF HeadOK, Answered, OwnInv, TaskPart

\* The holistic reviewer may be asked for.
LEMMA AskingStep ==
  ASSUME Undisturbed, UNCHANGED storeVars, UNCHANGED merged, UNCHANGED pubVars, StackOn,
         Asked' => Asked \/ pr # "none" \/ AllTasksIntegrated(task),
         Looked' => Looked /\ remote'[Holistic].saw = remote[Holistic].saw
  PROVE  OwnInv'
<1>1. Tame /\ HubOn /\ (pr' # "none" => pr # "none") /\ BranchOn
  BY SameTame, SameHubOn, SameBranch
<1>2. TasksTamed /\ TasksOn
  BY <1>1, TameTasks, TamedOn
<1>3. StackPart' /\ TaskPart'
  BY <1>1, <1>2, StackStays, TaskStays
<1>4. JobPart'
  BY <1>1, <1>2, JobStays DEF storeVars
<1>5. CIPart'
  BY <1>1, <1>2, CIStays DEF storeVars, Offered
<1>6. ReviewPart'
  BY <1>1, <1>2, ReviewStays
<1> QED BY <1>3, <1>4, <1>5, <1>6 DEF OwnInv

LEMMA StartReviewOwn ==
  ASSUME Undisturbed, NEW t \in Busy, StartReview(t)
  PROVE  OwnInv'
<1>f. PICK f : f = Top(t)
  OBVIOUS
<1>1. /\ f \in Frame /\ f.pc = "startreview" /\ f.publish = "no"
      /\ (pr # "none" \/ AllTasksIntegrated(task))
  BY <1>f, TopSound DEF StartReview, At, Sound, Heading
<1>g. PICK g : g = [f EXCEPT !.pc = "ownreview"]
  OBVIOUS
<1>2. g.pc = "ownreview" /\ g.publish = "no"
  BY <1>1, <1>g DEF Frame
<1>3. Sound(g)
  BY <1>2, SimpleSound, Callable
<1>4. /\ Start(t, Holistic, Goto(t, g)) /\ UNCHANGED storeVars
      /\ UNCHANGED merged /\ UNCHANGED pubVars
  BY <1>f, <1>g DEF StartReview, gitVars, historyVars
<1>5. StackOn
  BY <1>3, <1>4, StartOn
<1>6. Looked' => Looked /\ remote'[Holistic].saw = remote[Holistic].saw
  <2>1. remote \in [Runs -> Remote] /\ Holistic \in Runs
    BY RunTypes DEF Undisturbed, JobInv, RunsInv, RunsKept
  <2>2. \/ UNCHANGED remote
        \/ remote' = [remote EXCEPT ![Holistic].status = "running"]
    BY <1>4 DEF Start, Launch
  <2>3. CASE remote' = [remote EXCEPT ![Holistic].status = "running"]
    <3>1. /\ remote'[Holistic].status = "running"
          /\ remote'[Holistic].says = remote[Holistic].says
          /\ remote'[Holistic].saw = remote[Holistic].saw
      BY <2>1, <2>3 DEF Remote
    <3> QED BY <3>1 DEF Looked
  <2> QED BY <2>2, <2>3 DEF Looked
<1> QED BY <1>1, <1>4, <1>5, <1>6, AskingStep

LEMMA ReadChecksOwn ==
  ASSUME Undisturbed, NEW t \in Busy, ReadChecks(t)
  PROVE  OwnInv'
<1>f. PICK f : f = Top(t)
  OBVIOUS
<1>1. f \in Frame /\ f.pc = "checks" /\ f.publish = "no" /\ HeadOK(f.sha) /\ f.sha \in SHAs
  BY <1>f, TopSound DEF ReadChecks, At, Sound, Heading, Good, Frame
<1>2. pr # "none" \/ AllTasksIntegrated(task)
  BY <1>1, HeadReviewed DEF Undisturbed
<1>c. PICK check : check = checks[f.sha]
  OBVIOUS
<1>3. check \in {"pending", "passed"} \union Prints
  BY <1>1, <1>c DEF Undisturbed, JobInv, HubTypeOK
<1>p. PICK print : print = IF check \in Prints THEN check ELSE NoPrint
  OBVIOUS
<1>n. PICK next : next = CASE check = "pending" -> Return(t)
              [] check = "passed" -> Goto(t, [f EXCEPT !.pc = "startreview",
                                                       !.sha = job'.integrationSHA])
              [] OTHER -> Goto(t, [f EXCEPT !.pc = "remediate"])
  OBVIOUS
<1>4. Stores(RecordCI(f.sha, State(check), print), t, next)
  BY <1>f, <1>c, <1>p, <1>n DEF ReadChecks
<1>5. /\ UNCHANGED <<record, remote, queue, merged>> /\ UNCHANGED pubVars
      /\ RunsTame /\ HubOn /\ (pr' # "none" => pr # "none") /\ BranchOn
      /\ \/ RecordCI(f.sha, State(check), print) /\ thread' = next
         \/ OwnInv'
  BY <1>4, StoringOn
<1>6. CASE RecordCI(f.sha, State(check), print) /\ thread' = next
  <2>1. /\ UNCHANGED <<planned, task>> /\ job'.integrationSHA = job.integrationSHA
        /\ job'.pullRequest = job.pullRequest /\ job'.mergeState = job.mergeState
        /\ job'.status \in {job.status, "failed"} \/ (check = "passed" /\ job'.status = "holistic_reviewing")
    BY <1>6, Types, PrintsAssumption DEF RecordCI, storeVars, CIStatus, State, Job
  <2>2. TasksTamed /\ TasksOn
    <3>1. \A k \in PlanKeys : Tamed(task[k], task'[k])
      BY <2>1 DEF Tamed, Fixed, Begins
    <3> QED BY <2>1, <3>1, TamedOn DEF TasksTamed, Tamed
  <2>3. StackOn
    <3>1. CASE thread' = Return(t)
      BY <3>1, ReturnOn
    <3>2. CASE thread' = Goto(t, [f EXCEPT !.pc = "startreview", !.sha = job'.integrationSHA])
      <4>h. PICK h : h = job'.integrationSHA
        OBVIOUS
      <4>g. PICK g : g = [f EXCEPT !.pc = "startreview", !.sha = h]
        OBVIOUS
      <4>1. g.pc = "startreview" /\ g.publish = "no"
        BY <1>1, <4>g DEF Frame
      <4>2. Fit(g)
        BY <1>2, <4>1 DEF Fit, Sound
      <4> QED BY <3>2, <4>h, <4>g, <4>2, GotoOn
    <3>3. CASE thread' = Goto(t, [f EXCEPT !.pc = "remediate"])
      <4>1. Fit([f EXCEPT !.pc = "remediate"])
        BY <1>1, PcSound, Callable DEF Fit
      <4> QED BY <3>3, <4>1, GotoOn
    <3> QED BY <1>6, <1>n, <3>1, <3>2, <3>3
  <2>4. StackPart' /\ TaskPart'
    BY <1>5, <2>2, <2>3, StackStays, TaskStays
  <2>5. JobPart'
    <3>1. job'.status \in Whole => job.status \in Whole \/ AllTasksIntegrated(task')
      <4>1. check = "passed" => AllTasksIntegrated(task)
        BY <1>1, <1>c, PassedWhole DEF Undisturbed
      <4> QED BY <2>1, <4>1 DEF Whole
    <3> QED BY <1>5, <2>1, <2>2, <3>1, JobStays
  <2>6. CIPart'
    <3>0. CIPart
      BY DEF Undisturbed, OwnInv
    <3>1. Offered' => Offered
      BY <2>1 DEF Offered
    <3>2. CASE ci' = ci
      BY <1>5, <2>2, <3>1, <3>2, CIStays
    <3>3. CASE ci' # ci
      <4>1. ci.head = f.sha /\ ci' = [ci EXCEPT !.state = State(check), !.print = print]
        BY <1>6, <3>3 DEF RecordCI, storeVars
      <4>2. ci'.head = f.sha /\ ci'.state = State(check) /\ ci'.print = print
        BY <4>1, Types DEF StoreTypeOK, CI
      <4>3. HeadOK(f.sha)'
        BY <1>1, <1>5, <2>2, Staying DEF Stays
      <4>4. HeadOK(ci.head)'
        BY <4>2, <4>3 DEF HeadOK, Answered
      <4>5. ci'.state = "failed" => ci'.print \in Prints /\ ci'.print = checks'[ci'.head]
        BY <1>3, <1>5, <1>c, <1>p, <4>2, PrintsAssumption DEF State, pubVars, hubVars
      <4>6. Offered' => pr' # "none"
        BY <1>5, <3>0, <3>1 DEF CIPart, HubOn
      <4> QED BY <4>4, <4>5, <4>6 DEF CIPart
    <3> QED BY <3>2, <3>3
  <2>7. ReviewPart'
    BY <1>5, <2>2, ReviewStays DEF RunsTame
  <2> QED BY <2>4, <2>5, <2>6, <2>7 DEF OwnInv
<1> QED BY <1>5, <1>6

\* A repair is asked for: of the head of the integration branch, and after all other
\* tasks.
LEMMA RepairOwn ==
  ASSUME Undisturbed, NEW print, StartCIRemediation(print), planned' = planned + 1,
         task' = [task EXCEPT ![planned + 1] = Remediation(ci.head, print)],
         job' = Remediating, RemediationFor(print) = {}, planned < MaxTasks, UNCHANGED ci,
         UNCHANGED <<record, remote, queue, merged>>, UNCHANGED pubVars, StackOn
  PROVE  OwnInv'
<1> DEFINE n == planned + 1
<1>t. /\ planned \in Nat /\ task \in [Keys -> Task] /\ n \in Keys /\ PlanKeys \subseteq Keys
      /\ job \in Job /\ ci \in CI
  BY Types, StoreAssumption, PlanKeysType DEF StoreTypeOK, Keys
<1>0. StackPart /\ TaskPart /\ JobPart /\ CIPart /\ ReviewPart
  BY DEF Undisturbed, OwnInv
<1>1. /\ AllTasksIntegrated(task) /\ pr # "none" /\ ci.print = print /\ print \in Prints
      /\ print = checks[ci.head] /\ ci.head # NoSHA /\ HeadOK(ci.head)
  <2>1. job.status = "awaiting_ci" /\ ci.state = "failed" /\ ci.print = print
    BY DEF StartCIRemediation
  <2>2. ci.head # NoSHA
    BY <2>1, Types DEF StoreInv, HeadKnown
  <2> QED BY <1>0, <2>1, <2>2 DEF JobPart, CIPart, Whole, Offered
<1>2. ~Answered(ci.head)
  <2> SUFFICES ASSUME NEW k \in PlanKeys, task[k].remediation, task[k].base = ci.head
               PROVE  FALSE
    BY DEF Answered
  <2>1. task[k].status # "blocked"
    BY <1>1 DEF AllTasksIntegrated, Finished
  <2>2. task[k].print = print
    BY <1>0, <1>1, <2>1 DEF TaskPart
  <2> QED BY <2>2 DEF RemediationFor
<1>3. ci.head = Local
  BY <1>1, <1>2 DEF HeadOK
<1>4. /\ PlanKeys' = PlanKeys \union {n} /\ n \notin PlanKeys
      /\ task'[n] = Remediation(ci.head, print)
      /\ \A k \in PlanKeys : task'[k] = task[k]
  BY <1>t DEF PlanKeys
<1>5. /\ task'[n].remediation /\ task'[n].base = ci.head /\ task'[n].print = print
      /\ task'[n].status = "planned"
  <2>1. PICK e : e = NewTask({})
    OBVIOUS
  <2>2. e = [status |-> "planned", remediation |-> FALSE, deps |-> {},
             base |-> NoSHA, writerRun |-> NoRun, reviewerRun |-> NoRun,
             verdict |-> "pending", writerAttempts |-> 0, reviewerAttempts |-> 0,
             commit |-> NoSHA, history |-> <<>>, print |-> NoPrint]
    BY <2>1 DEF NewTask, NoTask
  <2>3. PICK u : u = [e EXCEPT !.remediation = TRUE, !.base = ci.head, !.print = print]
    OBVIOUS
  <2>4. u.remediation /\ u.base = ci.head /\ u.print = print /\ u.status = "planned"
    BY <2>2, <2>3
  <2>5. task'[n] = u
    BY <1>4, <2>1, <2>3 DEF Remediation
  <2> QED BY <2>4, <2>5
<1>6. Local' = Local /\ BranchOn /\ HubOn /\ RunsTame
  BY SameBranch, SameHubOn, QuietRuns DEF Local
<1>7. TasksOn
  <2>1. Answered(Local)'
    BY <1>3, <1>4, <1>5, <1>6 DEF Answered
  <2> QED BY <1>1, <1>4, <2>1 DEF TasksOn, Fixed, Begins
<1>8. Stays /\ StackPart'
  BY <1>6, <1>7, Staying, StackStays
<1>9. TaskPart'
  <2> SUFFICES ASSUME NEW k \in PlanKeys'
               PROVE  /\ merged'[k] # NoSHA => Placed(k)'
                      /\ task'[k].status = "integrated" => merged'[k] # NoSHA
                      /\ task'[k].remediation =>
                            /\ pr' # "none"
                            /\ checks'[task'[k].base] \in Prints
                            /\ task'[k].status # "blocked"
                                  => task'[k].print = checks'[task'[k].base]
    BY DEF TaskPart
  <2>h. UNCHANGED <<merged, pr, checks>>
    BY DEF pubVars, hubVars
  <2>1. CASE k \in PlanKeys
    BY <1>0, <1>4, <1>8, <2>1, <2>h DEF TaskPart, Stays
  <2>2. CASE k = n
    <3>1. merged[n] = NoSHA
      BY <1>t, <1>4 DEF Undisturbed, JobInv, RunsInv, GitKept
    <3> QED BY <1>1, <1>5, <2>2, <2>h, <3>1
  <2> QED BY <1>4, <2>1, <2>2
<1>10. JobPart'
  <2>1. job'.status \notin Whole /\ job'.integrationSHA = job.integrationSHA
    BY <1>t DEF Remediating, Job, Whole
  <2>h. PICK h : h = job.integrationSHA
    OBVIOUS
  <2>2. h = Local /\ HeadOK(h)
    BY <1>1, <2>h, WholeHead DEF Undisturbed
  <2>3. HeadOK(h)'
    BY <1>8, <2>2 DEF Stays
  <2>4. HeadOK(job.integrationSHA)'
    BY <2>1, <2>h, <2>3 DEF HeadOK, Answered
  <2>5. \A k \in PlanKeys' : k < planned' => Finished(task'[k])
    <3>1. \A k \in PlanKeys : Finished(task'[k])
      BY <1>1, <1>4 DEF AllTasksIntegrated
    <3> QED BY <1>4, <3>1, <1>t
  <2> QED BY <1>6, <2>1, <2>2, <2>h, <2>4, <2>5 DEF JobPart
<1>11. CIPart'
  BY <1>1, <1>6, <1>7, CIStays
<1>12. ReviewPart'
  BY <1>6, <1>7, ReviewStays DEF RunsTame
<1> QED BY <1>8, <1>9, <1>10, <1>11, <1>12 DEF OwnInv

LEMMA RemediateOwn ==
  ASSUME Undisturbed, NEW t \in Busy, Remediate(t)
  PROVE  OwnInv'
<1>f. PICK f : f = Top(t)
  OBVIOUS
<1>1. f \in Frame /\ f.pc = "remediate" /\ f.publish = "no"
  BY <1>f, TopSound DEF Remediate, At, Heading
<1>c. PICK print : print = checks[f.sha]
  OBVIOUS
<1>x. PICK X : X = Ready(planned', task')
  OBVIOUS
<1>g. PICK g : g = Continue([f EXCEPT !.todo = X])
  OBVIOUS
<1>n. PICK next : next = IF job'.status = "failed" THEN Return(t) ELSE Goto(t, g)
  OBVIOUS
<1>2. Stores(StartCIRemediation(print), t, next)
  BY <1>f, <1>c, <1>x, <1>g, <1>n DEF Remediate
<1>3. Sound(g)
  BY <1>1, <1>g, ContinueSound
<1>4. /\ UNCHANGED <<record, remote, queue, merged>> /\ UNCHANGED pubVars
      /\ RunsTame /\ HubOn /\ (pr' # "none" => pr # "none")
      /\ \/ StartCIRemediation(print) /\ thread' = next
         \/ OwnInv'
  BY <1>2, StoringOn
<1>5. CASE StartCIRemediation(print) /\ thread' = next
  <2>1. StackOn
    BY <1>3, <1>5, <1>n, GotoOn, ReturnOn DEF Fit
  <2>2. CASE FailJob \/ UNCHANGED storeVars
    <3>1. Tame
      BY <2>2, Types, PublicationTame, SameTame
    <3> QED BY <1>4, <2>1, <3>1, PlainStep
  <2>3. CASE ~(FailJob \/ UNCHANGED storeVars)
    <3>1. /\ planned' = planned + 1 /\ job' = Remediating /\ RemediationFor(print) = {}
          /\ planned < MaxTasks /\ UNCHANGED ci
          /\ task' = [task EXCEPT ![planned + 1] = Remediation(ci.head, print)]
      BY <1>5, <2>3 DEF StartCIRemediation
    <3> QED BY <1>4, <1>5, <2>1, <3>1, RepairOwn
  <2> QED BY <2>2, <2>3
<1> QED BY <1>4, <1>5

----------------------------------------------------------------------------
(* What the holistic review found, and the gate. *)

LEMMA StoringPlain ==
  ASSUME Undisturbed, NEW ACTION op, NEW t \in Busy, NEW ACTION next, Stores(op, t, next),
         op /\ thread' = next => Tame /\ StackOn
  PROVE  OwnInv'
<1>1. /\ UNCHANGED <<record, remote, queue, merged>> /\ UNCHANGED pubVars
      /\ RunsTame /\ HubOn /\ (pr' # "none" => pr # "none")
      /\ \/ op /\ thread' = next
         \/ OwnInv'
  BY StoringOn
<1>2. op /\ thread' = next => OwnInv'
  BY <1>1, PlainStep
<1> QED BY <1>1, <1>2

LEMMA OwnJobReviewOwn ==
  ASSUME Undisturbed, NEW t \in Busy, OwnJobReview(t)
  PROVE  OwnInv'
<1>s. PICK sha : sha = Top(t).sha
  OBVIOUS
<1>1. Stores(StartHolisticReviewer(Holistic, sha), t, Return(t))
  BY <1>s DEF OwnJobReview
<1>2. StartHolisticReviewer(Holistic, sha) => Tame
  BY Types, PublicationTame
<1>3. thread' = Return(t) => StackOn
  BY ReturnOn
<1> QED BY <1>1, <1>2, <1>3, StoringPlain

LEMMA ApplyHolisticOwn ==
  ASSUME Undisturbed, NEW t \in Busy, ApplyHolistic(t)
  PROVE  OwnInv'
<1>f. PICK f : f = Top(t)
  OBVIOUS
<1>1. f \in Frame /\ f.pc = "apply" /\ f.publish = "no"
      /\ UNCHANGED <<record, remote, queue, merged>> /\ UNCHANGED pubVars
  BY <1>f, TopSound DEF ApplyHolistic, At, Heading, gitVars, historyVars
<1>2. CASE FailJob /\ thread' = Goto(t, Done(f))
  <2>1. Tame /\ Fit(Done(f))
    BY <1>2, Types, PublicationTame, DoneSound DEF Fit
  <2> QED BY <1>1, <1>2, <2>1, GoOn
<1>3. CASE /\ thread' = Goto(t, [f EXCEPT !.pc = "jobverdict", !.sha = job.integrationSHA])
           /\ UNCHANGED storeVars
  <2>g. PICK g : g = [f EXCEPT !.pc = "jobverdict", !.sha = job.integrationSHA]
    OBVIOUS
  <2>1. g.pc = "jobverdict" /\ g.publish = "no"
    BY <1>1, <2>g DEF Frame
  <2>2. Sound(g)
    BY <2>1, SimpleSound, Callable
  <2> QED BY <1>1, <1>3, <2>g, <2>2, StayOn
<1> QED BY <1>f, <1>2, <1>3 DEF ApplyHolistic

LEMMA JobVerdictOwn ==
  ASSUME Undisturbed, NEW t \in Busy, JobVerdict(t)
  PROVE  OwnInv'
<1>f. PICK f : f = Top(t)
  OBVIOUS
<1>1. f \in Frame /\ f.pc = "jobverdict" /\ f.publish = "no"
  BY <1>f, TopSound DEF JobVerdict, At, Heading
<1>s. PICK says : says = remote[Holistic].says
  OBVIOUS
<1>b. PICK content : content = (remote[Holistic].feedback # "none")
  OBVIOUS
<1>h. PICK sha : sha = f.sha
  OBVIOUS
<1>v. says \in Verdicts
  BY <1>f, <1>1, <1>s, TopSound DEF Good
<1>n. PICK next : next = CASE says = "changes_requested" -> Goto(t, Done(f))
              [] says = "blocked" -> Goto(t, [f EXCEPT !.pc = "fail"])
              [] says = "approved" ->
                   IF job'.status = "holistic_reviewing" THEN Return(t)
                   ELSE Goto(t, [f EXCEPT !.pc = "publish"])
  OBVIOUS
<1>2. Stores(RecordHolisticReview(Holistic, sha, says, content), t, next)
  BY <1>f, <1>s, <1>b, <1>h, <1>n DEF JobVerdict
<1>3. RecordHolisticReview(Holistic, sha, says, content) => Tame
  BY Types, PublicationTame
<1>4. thread' = next => StackOn
  <2>1. Fit(Done(f)) /\ Fit([f EXCEPT !.pc = "fail"]) /\ Fit([f EXCEPT !.pc = "publish"])
    BY <1>1, DoneSound, PcSound, Callable DEF Fit
  <2>2. \/ next = Return(t)
        \/ \E g \in {Done(f), [f EXCEPT !.pc = "fail"], [f EXCEPT !.pc = "publish"]} :
              next = Goto(t, g)
    BY <1>n, <1>v DEF Verdicts
  <2> QED BY <2>1, <2>2, GotoOn, ReturnOn
<1> QED BY <1>2, <1>3, <1>4, StoringPlain

LEMMA FailOwn ==
  ASSUME Undisturbed, NEW t \in Busy, Fail(t)
  PROVE  OwnInv'
<1>f. PICK f : f = Top(t)
  OBVIOUS
<1>1. Stores(FailJob, t, Goto(t, Done(f)))
  BY <1>f DEF Fail
<1>2. FailJob => Tame
  BY Types, PublicationTame
<1>3. thread' = Goto(t, Done(f)) => StackOn
  BY DoneSound, GotoOn DEF Fit
<1> QED BY <1>1, <1>2, <1>3, StoringPlain

LEMMA RecordMergedOwn ==
  ASSUME Undisturbed, NEW t \in Busy, RecordMerged(t)
  PROVE  OwnInv'
<1>f. PICK f : f = Top(t)
  OBVIOUS
<1>1. Stores(RecordMerge, t, Goto(t, Done(f)))
  BY <1>f DEF RecordMerged
<1>2. RecordMerge => Tame
  BY Types, PublicationTame
<1>3. thread' = Goto(t, Done(f)) => StackOn
  BY DoneSound, GotoOn DEF Fit
<1> QED BY <1>1, <1>2, <1>3, StoringPlain

LEMMA PublishOwn ==
  ASSUME Undisturbed, NEW t \in Busy, Publish(t)
  PROVE  OwnInv'
<1>f. PICK f : f = Top(t)
  OBVIOUS
<1>1. f \in Frame /\ f.pc = "publish" /\ f.publish = "no" /\ UNCHANGED pubVars
  BY <1>f, TopSound DEF Publish, At, Heading
<1>2. HubOn /\ (pr' # "none" => pr # "none")
  BY <1>1, SameHubOn
<1>h. PICK h : h = [f EXCEPT !.sha = job.integrationSHA]
  OBVIOUS
<1>3. CASE Moves(t, Goto(t, Done(h)))
  BY <1>2, <1>3, DoneSound, MovingOn DEF Fit
<1>4. CASE Moves(t, Return(t))
  BY <1>2, <1>4, MovingBack
<1>5. CASE Publishable /\ \E p \in {"gate", "open"} : Moves(t, Goto(t, [h EXCEPT !.pc = p]))
  <2>1. PICK p \in {"gate", "open"} : Moves(t, Goto(t, [h EXCEPT !.pc = p]))
    BY <1>5
  <2>g. PICK g : g = [h EXCEPT !.pc = p]
    OBVIOUS
  <2>2. g.pc = p /\ g.publish = "no" /\ g.sha = job.integrationSHA
    BY <1>1, <1>h, <2>g DEF Frame
  <2>3. HeadOK(job.integrationSHA)
    <3>1. job.status = "ready_to_publish" \/ job.mergeState = "open"
      BY <1>5 DEF Publishable
    <3>2. OwnInv /\ JobPart /\ CIPart
      BY DEF Undisturbed, OwnInv
    <3> QED BY <3>1, <3>2, WholeHead DEF JobPart, CIPart, Whole, Offered
  <2>4. Sound(g)
    BY <2>2, <2>3 DEF Sound
  <2> QED BY <1>2, <2>1, <2>g, <2>4, MovingOn DEF Fit
<1> QED BY <1>f, <1>h, <1>3, <1>4, <1>5 DEF Publish

LEMMA PassGateOwn ==
  ASSUME Undisturbed, NEW t \in Busy, PassGate(t)
  PROVE  OwnInv'
<1>f. PICK f : f = Top(t)
  OBVIOUS
<1>1. f \in Frame /\ f.pc = "gate" /\ f.publish = "no" /\ HeadOK(f.sha) /\ UNCHANGED pubVars
  BY <1>f, TopSound DEF PassGate, At, Heading, Sound
<1>2. HubOn /\ (pr' # "none" => pr # "none")
  BY <1>1, SameHubOn
<1>p. PICK p : p = Gate(f)
  OBVIOUS
<1>3. CASE Moves(t, Return(t))
  BY <1>2, <1>3, MovingBack
<1>4. CASE p # "error" /\ Moves(t, Goto(t, [f EXCEPT !.pc = p]))
  <2>1. p = "recordmerge" \/ (p = "gatechecks" /\ pushed = f.sha)
    BY <1>p, <1>4 DEF Gate
  <2>g. PICK g : g = [f EXCEPT !.pc = p]
    OBVIOUS
  <2>2. g.pc = p /\ g.publish = "no" /\ g.sha = f.sha
    BY <1>1, <2>g DEF Frame
  <2>3. Sound(g)
    BY <1>1, <2>1, <2>2 DEF Sound
  <2> QED BY <1>2, <1>4, <2>g, <2>3, MovingOn DEF Fit
<1> QED BY <1>f, <1>p, <1>3, <1>4 DEF PassGate

LEMMA GateChecksOwn ==
  ASSUME Undisturbed, NEW t \in Busy, GateChecks(t)
  PROVE  OwnInv'
<1>f. PICK f : f = Top(t)
  OBVIOUS
<1>1. /\ f \in Frame /\ f.pc = "gatechecks" /\ f.publish = "no" /\ HeadOK(f.sha)
      /\ (pushed = f.sha \/ Answered(f.sha)) /\ UNCHANGED pubVars
  BY <1>f, TopSound DEF GateChecks, At, Heading, Sound
<1>2. HubOn /\ (pr' # "none" => pr # "none")
  BY <1>1, SameHubOn
<1>3. CASE Moves(t, Return(t))
  BY <1>2, <1>3, MovingBack
<1>4. CASE checks[f.sha] = "passed" /\ Moves(t, Goto(t, [f EXCEPT !.pc = "mergepr"]))
  <2>g. PICK g : g = [f EXCEPT !.pc = "mergepr"]
    OBVIOUS
  <2>2. g.pc = "mergepr" /\ g.publish = "no" /\ g.sha = f.sha
    BY <1>1, <2>g DEF Frame
  <2>3. Sound(g)
    BY <1>1, <1>4, <2>2 DEF Sound
  <2> QED BY <1>2, <1>4, <2>g, <2>3, MovingOn DEF Fit
<1> QED BY <1>f, <1>3, <1>4 DEF GateChecks, Successful

LEMMA MergePROwn ==
  ASSUME Undisturbed, NEW t \in Busy, MergePR(t)
  PROVE  OwnInv'
<1>f. PICK f : f = Top(t)
  OBVIOUS
<1>1. f \in Frame /\ f.pc = "mergepr" /\ f.publish = "no"
  BY <1>f, TopSound DEF MergePR, At, Heading
<1>2. HubOn /\ (pr' # "none" => pr # "none")
  BY DEF MergePR, HubOn
<1>3. CASE Moves(t, Goto(t, [f EXCEPT !.pc = "recordmerge"]))
  <2>1. Fit([f EXCEPT !.pc = "recordmerge"])
    BY <1>1, PcSound, Callable DEF Fit
  <2> QED BY <1>2, <1>3, <2>1, MovingOn
<1>4. CASE Moves(t, Return(t))
  BY <1>2, <1>4, MovingBack
<1> QED BY <1>f, <1>3, <1>4 DEF MergePR

\* Nobody asks for another review while nobody has pushed.
LEMMA RereviewOwn ==
  ASSUME Undisturbed, NEW t \in Busy
  PROVE  ~Rereview(t)
BY TopSound DEF Rereview, At, Sound

----------------------------------------------------------------------------
(* The plan, the integration of a task, and its tests. *)

LEMMA AwaitCIOwn ==
  ASSUME Undisturbed, NEW t \in Busy, AwaitCI(t), UNCHANGED pubVars
  PROVE  OwnInv'
<1>f. PICK f : f = Top(t)
  OBVIOUS
<1>1. f \in Frame /\ HeadOK(f.sha) /\ f.sha # NoSHA /\ pr # "none"
  BY <1>f, TopSound DEF AwaitCI, At, Good, Sound
<1>2. Stores(StartCI(f.sha), t, Goto(t, Done(f)))
  BY <1>f DEF AwaitCI, Stores
<1>3. /\ UNCHANGED <<record, remote, queue, merged>>
      /\ RunsTame /\ HubOn /\ (pr' # "none" => pr # "none") /\ BranchOn
      /\ \/ StartCI(f.sha) /\ thread' = Goto(t, Done(f))
         \/ OwnInv'
  BY <1>2, StoringOn
<1>4. CASE StartCI(f.sha) /\ thread' = Goto(t, Done(f))
  <2>1. StackOn
    BY <1>4, DoneSound, GotoOn DEF Fit
  <2>2. CASE UNCHANGED storeVars
    BY <1>3, <2>1, <2>2, SameTame, PlainStep
  <2>3. CASE ~UNCHANGED storeVars
    <3>1. /\ job.status \in Whole /\ job' = [job EXCEPT !.status = "awaiting_ci"]
          /\ ci' = [head |-> f.sha, state |-> "pending", print |-> NoPrint]
          /\ UNCHANGED <<planned, task>>
      BY <1>4, <2>3 DEF StartCI, Whole
    <3>2. TasksTamed /\ TasksOn
      <4>1. \A k \in PlanKeys : Tamed(task[k], task'[k])
        BY <3>1 DEF Tamed, Fixed, Begins
      <4> QED BY <3>1, <4>1, TamedOn DEF TasksTamed, Tamed
    <3>3. StackPart' /\ TaskPart'
      BY <1>3, <2>1, <3>2, StackStays, TaskStays
    <3>4. JobPart'
      <4>1. job'.integrationSHA = job.integrationSHA
        BY <3>1, Types DEF Job
      <4> QED BY <1>3, <3>1, <3>2, <4>1, JobStays
    <3>5. CIPart'
      <4>1. HeadOK(f.sha)'
        BY <1>1, <1>3, <3>2, Staying DEF Stays
      <4>2. ci'.head = f.sha /\ ci'.state = "pending"
        BY <3>1
      <4>3. HeadOK(ci.head)'
        BY <4>1, <4>2 DEF HeadOK, Answered
      <4>4. pr' # "none"
        BY <1>1, <1>3 DEF HubOn
      <4> QED BY <4>2, <4>3, <4>4 DEF CIPart
    <3>6. ReviewPart'
      BY <1>3, <3>2, ReviewStays DEF RunsTame
    <3> QED BY <3>3, <3>4, <3>5, <3>6 DEF OwnInv
  <2> QED BY <2>2, <2>3
<1> QED BY <1>3, <1>4

\* The first plan: nothing has been merged, tested or published.
LEMMA SubmitOwn ==
  ASSUME Undisturbed, NEW n \in Keys, NEW deps, SubmitPlan(n, deps), StackOn,
         UNCHANGED <<record, remote, queue, merged>>, UNCHANGED pubVars
  PROVE  OwnInv'
<1>0. StackPart /\ TaskPart /\ JobPart /\ CIPart /\ ReviewPart
  BY DEF Undisturbed, OwnInv
<1>1. /\ planned = 0 /\ PlanKeys = {} /\ job' = [job EXCEPT !.status = "planned"]
      /\ task' = [k \in Keys |-> IF k <= n THEN NewTask(deps[k]) ELSE NoTask]
      /\ UNCHANGED ci /\ planned' = n
  BY DEF SubmitPlan, PlanKeys
<1>2. /\ job'.status = "planned" /\ job'.integrationSHA = job.integrationSHA
      /\ job'.pullRequest = job.pullRequest /\ job'.mergeState = job.mergeState
  BY <1>1, Types DEF Job
<1>3. ~AllTasksIntegrated(task)
  BY <1>1 DEF AllTasksIntegrated
<1>4. \A h : ~HeadOK(h)
  BY <1>1, <1>3 DEF HeadOK, Answered
<1>5. pr = "none"
  BY <1>0, <1>4 DEF JobPart
<1>6. HubOn /\ pr' = pr /\ BranchOn /\ RunsTame /\ Local' = Local
  BY SameHubOn, SameBranch, QuietRuns DEF pubVars, hubVars, Local
<1>7. TasksOn
  BY <1>1, <1>3 DEF TasksOn
<1>8. StackPart'
  BY <1>6, <1>7, StackStays
<1>9. TaskPart'
  <2> SUFFICES ASSUME NEW k \in PlanKeys'
               PROVE  /\ merged'[k] = NoSHA
                      /\ task'[k].status = "planned" /\ ~task'[k].remediation
    BY DEF TaskPart
  <2>1. k \in Keys /\ k <= n
    BY <1>1, StoreAssumption DEF PlanKeys, Keys
  <2>2. merged[k] = NoSHA
    BY <1>1, <2>1 DEF Undisturbed, JobInv, RunsInv, GitKept
  <2>3. PICK D : D = deps[k]
    OBVIOUS
  <2>4. task'[k] = NewTask(D)
    BY <1>1, <2>1, <2>3
  <2>5. task'[k].status = "planned" /\ ~task'[k].remediation
    BY <2>4 DEF NewTask, NoTask
  <2> QED BY <2>2, <2>5
<1>10. JobPart'
  BY <1>0, <1>1, <1>2, <1>5, <1>6 DEF JobPart, Whole
<1>11. CIPart'
  BY <1>1, <1>2, <1>6, <1>7, CIStays DEF Offered
<1>12. ReviewPart'
  BY <1>6, <1>7, ReviewStays DEF RunsTame
<1> QED BY <1>8, <1>9, <1>10, <1>11, <1>12 DEF OwnInv

LEMMA ApplyPlanOwn ==
  ASSUME Undisturbed, NEW t \in Busy, ApplyPlan(t), UNCHANGED pubVars
  PROVE  OwnInv'
<1>f. PICK f : f = Top(t)
  OBVIOUS
<1>1. f \in Frame /\ f.pc = "apply" /\ f.publish = "no"
      /\ UNCHANGED <<record, remote, queue, merged>>
  BY <1>f, TopSound DEF ApplyPlan, At, Heading, gitVars, historyVars
<1>2. CASE FailJob /\ thread' = Goto(t, Done(f))
  <2>1. Tame /\ Fit(Done(f))
    BY <1>2, Types, PublicationTame, DoneSound DEF Fit
  <2> QED BY <1>1, <1>2, <2>1, GoOn
<1>x. PICK X : X = Ready(planned', task')
  OBVIOUS
<1>g. PICK g : g = Continue([f EXCEPT !.todo = X])
  OBVIOUS
<1>3. Sound(g)
  BY <1>1, <1>g, ContinueSound
<1>4. CASE UNCHANGED storeVars /\ thread' = Goto(t, g)
  BY <1>1, <1>3, <1>4, StayOn
<1>5. CASE /\ \E n \in budget.plans : \E deps \in [1..n -> SUBSET (1..n)] : SubmitPlan(n, deps)
           /\ thread' = Goto(t, g)
  <2>0. PICK n \in budget.plans : \E deps : SubmitPlan(n, deps)
    BY <1>5
  <2>1. PICK deps : SubmitPlan(n, deps)
    BY <2>0
  <2>2. n \in Keys
    BY DEF Undisturbed, JobInv, RunsInv, Scenario
  <2>3. StackOn
    BY <1>3, <1>5, GotoOn DEF Fit
  <2> QED BY <1>1, <2>1, <2>2, <2>3, SubmitOwn
<1> QED BY <1>f, <1>x, <1>g, <1>2, <1>4, <1>5 DEF ApplyPlan

\* What RecordIntegration does to the tasks.
LEMMA IntegrationTamed ==
  ASSUME Undisturbed, NEW k \in PlanKeys, merged[k] # NoSHA, NEW sha, RecordIntegration(k, sha)
  PROVE  /\ TasksTamed /\ Finished(task'[k]) /\ UNCHANGED ci
         /\ \A j \in PlanKeys : Finished(task[j]) => Finished(task'[j])
         /\ job'.integrationSHA = sha /\ job'.pullRequest = job.pullRequest
         /\ job'.mergeState = job.mergeState
         /\ \/ job'.status = "holistic_reviewing" /\ AllTasksIntegrated(task')
            \/ job'.status = job.status
<1>t. /\ task \in [Keys -> Task] /\ k \in Keys /\ PlanKeys \subseteq Keys /\ job \in Job
  BY Types, PlanKeysType DEF StoreTypeOK
<1>1. /\ task[k].status = "integrating" /\ UNCHANGED <<ci, planned>>
      /\ job' = [job EXCEPT !.integrationSHA = sha,
                            !.status = IF AllTasksIntegrated(task')
                                       THEN "holistic_reviewing" ELSE @]
  BY DEF RecordIntegration
<1>m. PICK mid : mid = [task EXCEPT ![k].status = "integrated"]
  OBVIOUS
<1>2. \A j \in Keys : task'[j] = mid[j] \/ /\ mid[j].status = "approved"
                                           /\ task'[j] = [mid[j] EXCEPT !.status = "integration_eligible"]
  BY <1>m DEF RecordIntegration
<1>3. /\ mid[k] = [task[k] EXCEPT !.status = "integrated"]
      /\ \A j \in Keys : j # k => mid[j] = task[j]
  BY <1>t, <1>m
<1>4. task[k] \in Task /\ mid[k].status = "integrated" /\ SameCore([mid[k] EXCEPT !.status = "integrating"], task[k])
  BY <1>t, <1>1, <1>3 DEF SameCore, Task
<1>5. task'[k] = mid[k]
  BY <1>t, <1>2, <1>4
<1>6. /\ task'[k].status = "integrated" /\ Fixed(task[k], task'[k]) /\ task'[k].print = task[k].print
  BY <1>t, <1>3, <1>4, <1>5 DEF Fixed, Task
<1>7. ASSUME NEW j \in PlanKeys, j # k
      PROVE  /\ Fixed(task[j], task'[j]) /\ task'[j].print = task[j].print
             /\ \/ task'[j].status = task[j].status
                \/ task[j].status = "approved" /\ task'[j].status = "integration_eligible"
  <2>1. task[j] \in Task /\ mid[j] = task[j]
    BY <1>t, <1>3, <1>7
  <2>2. CASE task'[j] = task[j]
    BY <2>2 DEF Fixed
  <2>3. CASE task[j].status = "approved" /\ task'[j] = [task[j] EXCEPT !.status = "integration_eligible"]
    BY <2>1, <2>3 DEF Fixed, Task
  <2> QED BY <1>t, <1>2, <2>1, <2>2, <2>3
<1>8. TasksTamed
  BY <1>1, <1>6, <1>7 DEF TasksTamed, Begins
<1>9. /\ Finished(task'[k])
      /\ \A j \in PlanKeys : Finished(task[j]) => Finished(task'[j])
  BY <1>6, <1>7 DEF Finished
<1>10. /\ job'.integrationSHA = sha /\ job'.pullRequest = job.pullRequest
       /\ job'.mergeState = job.mergeState
       /\ \/ job'.status = "holistic_reviewing" /\ AllTasksIntegrated(task')
          \/ job'.status = job.status
  BY <1>t, <1>1 DEF Job
<1> QED BY <1>1, <1>8, <1>9, <1>10

LEMMA IntegratedOwn ==
  ASSUME Undisturbed, NEW t \in Busy, Integrated(t), UNCHANGED pubVars
  PROVE  OwnInv'
<1>f. PICK f : f = Top(t)
  OBVIOUS
<1> DEFINE k == f.item.key
<1>1. /\ f \in Frame /\ f.pc = "merged" /\ f.publish = "no" /\ k \in PlanKeys
      /\ merged[k] # NoSHA /\ (task[k].status = "integrating" => f.sha = Local)
  BY <1>f, TopSound DEF Integrated, At, Good, Sound, Heading
<1>s. PICK tasks : tasks = task'
  OBVIOUS
<1>j. PICK j : j = job'
  OBVIOUS
<1>g. PICK g : g = Pick(f, tasks, j)
  OBVIOUS
<1>2. Stores(RecordIntegration(k, f.sha), t, Goto(t, g))
  BY <1>f, <1>s, <1>j, <1>g DEF Integrated, Stores
<1>3. /\ UNCHANGED <<record, remote, queue, merged>>
      /\ RunsTame /\ HubOn /\ (pr' # "none" => pr # "none") /\ BranchOn
      /\ \/ RecordIntegration(k, f.sha) /\ thread' = Goto(t, g)
         \/ OwnInv'
  BY <1>2, StoringOn
<1>4. CASE RecordIntegration(k, f.sha) /\ thread' = Goto(t, g)
  <2>0. JobPart
    BY DEF Undisturbed, OwnInv
  <2>1. task[k].status = "integrating" /\ f.sha = Local /\ ~Finished(task[k])
    BY <1>1, <1>4 DEF RecordIntegration, Finished
  <2>2. /\ TasksTamed /\ Finished(task'[k]) /\ UNCHANGED ci
        /\ \A i \in PlanKeys : Finished(task[i]) => Finished(task'[i])
        /\ job'.integrationSHA = Local /\ job'.pullRequest = job.pullRequest
        /\ job'.mergeState = job.mergeState
        /\ \/ job'.status = "holistic_reviewing" /\ AllTasksIntegrated(task')
           \/ job'.status = job.status
    BY <1>1, <1>4, <2>1, IntegrationTamed
  <2>3. TasksOn /\ planned' = planned /\ PlanKeys' = PlanKeys /\ Local' = Local
    BY <1>3, <2>2, TamedOn DEF TasksTamed, PlanKeys, Local
  <2>4. ~AllTasksIntegrated(task)
    BY <1>1, <2>1 DEF AllTasksIntegrated
  <2>5. job'.status \in Whole => AllTasksIntegrated(task)'
    BY <2>0, <2>2, <2>3, <2>4 DEF JobPart, AllTasksIntegrated
  <2>6. pr' # "none" => AllTasksIntegrated(task)'
    <3> SUFFICES ASSUME pr # "none" PROVE AllTasksIntegrated(task)'
      BY <1>3
    <3>1. planned \in Nat /\ k \in 1..planned
      BY <1>1, Types DEF StoreTypeOK, PlanKeys
    <3>2. \A i \in PlanKeys : i = k \/ Finished(task[i])
      BY <2>0, <2>1, <3>1 DEF JobPart, PlanKeys
    <3> QED BY <2>2, <2>3, <3>1, <3>2 DEF AllTasksIntegrated
  <2>7. AllTasksIntegrated(task)' => HeadOK(Local)'
    BY DEF HeadOK
  <2>8. JobPart'
    <3>1. HeadOK(Local)' => HeadOK(job.integrationSHA)'
      BY <2>2, <2>3 DEF HeadOK, Answered
    <3> QED BY <2>2, <2>3, <2>5, <2>6, <2>7, <3>1 DEF JobPart, AllTasksIntegrated
  <2>9. StackOn
    <3>1. g.pc \in Simple /\ (g.publish # "no" => /\ g.pc \in Heading /\ g.sha = Local
                                                  /\ job'.status = "holistic_reviewing")
      BY <1>1, <1>g, <1>j, <2>2, PickCall
    <3>2. job'.status = "holistic_reviewing" => HeadOK(Local)'
      BY <2>5, <2>7 DEF Whole
    <3>3. g.publish # "no" => g.pc \in Heading /\ HeadOK(g.sha)'
      BY <2>3, <3>1, <3>2 DEF HeadOK, Answered
    <3>4. Sound(g)'
      BY <3>1, <3>3, SimpleSound
    <3> QED BY <1>4, <3>4, GotoOn DEF Fit
  <2>10. StackPart' /\ TaskPart'
    BY <1>3, <2>2, <2>3, <2>9, StackStays, TaskStays
  <2>11. CIPart'
    <3>1. Offered' => Offered
      BY <2>2 DEF Offered
    <3> QED BY <1>3, <2>2, <2>3, <3>1, CIStays
  <2>12. ReviewPart'
    BY <1>3, <2>3, ReviewStays DEF RunsTame
  <2> QED BY <2>8, <2>10, <2>11, <2>12 DEF OwnInv
<1> QED BY <1>3, <1>4

LEMMA MergeAndPushOwn ==
  ASSUME Undisturbed, NEW t \in Busy, MergeAndPush(t)
  PROVE  OwnInv'
<1>f. PICK f : f = Top(t)
  OBVIOUS
<1> DEFINE k == f.item.key
           S == {j \in Keys : merged[j] # NoSHA /\ j # k}
<1>1. /\ f \in Frame /\ f.pc = "merge" /\ f.publish = "no" /\ k \in PlanKeys /\ k \in Keys
      /\ tree[k].head # NoSHA /\ Placed(k)
  BY <1>f, TopSound, Types, PlanKeysType DEF MergeAndPush, Merge, At, Good, Sound, Heading
<1>g. PICK g : g = [f EXCEPT !.pc = "merged", !.sha = MergeCommit(k)]
  OBVIOUS
<1>2. /\ merged' = [merged EXCEPT ![k] = tree[k].head]
      /\ thread' = Goto(t, g) /\ UNCHANGED storeVars
      /\ UNCHANGED <<record, remote, queue, pr, checks>>
  BY <1>f, <1>g DEF MergeAndPush, Merge
<1>3. g.pc = "merged" /\ g.publish = "no" /\ g.sha = MergeCommit(k) /\ g.item = f.item
  BY <1>1, <1>g DEF Frame
<1>m. merged \in [Keys -> SHAs \union {NoSHA}]
  BY DEF Undisturbed, JobInv, RunsInv, GitKept
<1>4. /\ merged'[k] # NoSHA
      /\ \A j \in Keys : j # k => merged'[j] = merged[j]
  BY <1>1, <1>2, <1>m
<1>5. Local' = MergeCommit(k)
  <2>1. {j \in Keys : merged'[j] # NoSHA} = S \union {k}
    BY <1>1, <1>4
  <2>2. IsFiniteSet(Keys)
    BY StoreAssumption, FS_Interval DEF Keys
  <2>3. IsFiniteSet(S) /\ k \notin S
    BY <2>2, FS_Subset
  <2>4. Cardinality(S \union {k}) = Cardinality(S) + 1 /\ Cardinality(S) \in Nat
    BY <2>3, FS_AddElement, FS_CardinalityType
  <2>5. Local' = Cardinality(S \union {k})
    BY <2>1 DEF Local
  <2> QED BY <2>4, <2>5 DEF MergeCommit
<1>6. merged[k] # NoSHA => Local' = Local
  <2>1. merged[k] # NoSHA => {j \in Keys : merged'[j] # NoSHA} = {j \in Keys : merged[j] # NoSHA}
    BY <1>1, <1>4
  <2> QED BY <2>1 DEF Local
<1>7. Finished(task[k]) => merged[k] # NoSHA
  BY <1>1 DEF Placed, Begins, Finished, Undisturbed, OwnInv, TaskPart
<1>8. BranchOn
  <2>1. AllTasksIntegrated(task) => Local' = Local
    BY <1>1, <1>6, <1>7 DEF AllTasksIntegrated
  <2>2. ASSUME NEW j \in PlanKeys, Placed(j), merged[j] # NoSHA, task[j].status = "integrating"
        PROVE  Local' = Local
    <3>1. j = k \/ j < k \/ k < j
      BY <1>1, Types DEF StoreTypeOK, PlanKeys
    <3>2. k \in Nat /\ j \in Nat /\ 1 <= k /\ 1 <= j
      BY <1>1, Types DEF StoreTypeOK, PlanKeys
    <3>3. ~(j < k)
      <4>1. j < k => Finished(task[j])
        BY <1>1, <3>2 DEF Placed, IntegrationPrerequisitesMet
      <4> QED BY <2>2, <4>1 DEF Finished
    <3>4. k < j => Finished(task[k])
      BY <2>2, <3>2 DEF Placed, IntegrationPrerequisitesMet
    <3> QED BY <1>6, <1>7, <2>2, <3>1, <3>3, <3>4
  <2> QED BY <1>4, <2>1, <2>2 DEF BranchOn
<1>9. HubOn
  <2>1. pushed' \in {pushed, Local'}
    <3>1. pushed' = pushed \/ pushed' = Top(t).sha'
      BY DEF MergeAndPush
    <3>2. thread'[t] = <<g>> \o Tail(thread[t])
      BY <1>2 DEF Goto, Busy, Undisturbed, JobInv, RunsInv
    <3>3. Top(t)' = g
      <4>1. thread[t] \in Seq(Frames) /\ thread[t] # <<>>
        BY DEF Busy, Undisturbed, JobInv, RunsInv
      <4>2. PICK s : s = Tail(thread[t])
        OBVIOUS
      <4>3. s \in Seq(Frames)
        BY <4>1, <4>2
      <4> QED BY <3>2, <4>2, <4>3 DEF Top
    <3> QED BY <1>3, <1>5, <3>1, <3>3
  <2> QED BY <1>2, <2>1 DEF HubOn
<1>10. Tame /\ TasksTamed /\ TasksOn /\ RunsTame
  BY <1>2, SameTame, TameTasks, TamedOn, QuietRuns
<1>11. Stays
  BY <1>8, <1>9, <1>10, Staying
<1>12. StackOn
  <2>1. Placed(k)'
    BY <1>1, <1>11 DEF Stays
  <2>2. Sound(g)'
    BY <1>3, <1>4, <1>5, <2>1 DEF Sound
  <2> QED BY <1>2, <2>2, GotoOn DEF Fit
<1>13. StackPart'
  BY <1>8, <1>9, <1>10, <1>12, StackStays
<1>14. TaskPart'
  <2>1. \A j \in PlanKeys : merged'[j] # NoSHA => merged[j] # NoSHA \/ Placed(j)
    BY <1>1, <1>4, PlanKeysType, Types
  <2> QED BY <1>8, <1>9, <1>10, <2>1, TaskStays
<1>15. JobPart'
  <2>0. JobPart /\ TaskPart /\ PlanKeys' = PlanKeys
    BY <1>2 DEF Undisturbed, OwnInv, storeVars, PlanKeys
  <2>1. job'.status \in Whole => AllTasksIntegrated(task)'
    BY <1>2, <2>0 DEF JobPart, storeVars, AllTasksIntegrated, PlanKeys
  <2>2. (\A j \in PlanKeys : merged'[j] # NoSHA => task[j].status = "integrated")
           => job.integrationSHA = Local'
    <3> SUFFICES ASSUME \A j \in PlanKeys : merged'[j] # NoSHA => task[j].status = "integrated"
                 PROVE  job.integrationSHA = Local'
      OBVIOUS
    <3>1. merged[k] # NoSHA
      BY <1>1, <1>4, <2>0 DEF TaskPart
    <3>2. \A j \in PlanKeys : merged[j] # NoSHA => merged'[j] # NoSHA
      BY <1>8, PlanKeysType, Types DEF BranchOn
    <3> QED BY <1>6, <2>0, <3>1, <3>2 DEF JobPart
  <2>h. PICK h : h = job.integrationSHA
    OBVIOUS
  <2>3. pr' # "none" => /\ \A j \in PlanKeys : j < planned => Finished(task[j])
                        /\ HeadOK(h)'
    BY <1>2, <1>11, <2>0, <2>h DEF JobPart, Stays
  <2>4. HeadOK(h)' => HeadOK(job.integrationSHA)'
    BY <1>2, <2>h DEF storeVars, HeadOK, Answered
  <2> QED BY <1>2, <2>0, <2>1, <2>2, <2>3, <2>4 DEF JobPart, storeVars
<1>16. CIPart'
  BY <1>2, <1>8, <1>9, <1>10, CIStays DEF storeVars, Offered
<1>17. ReviewPart'
  BY <1>8, <1>9, <1>10, ReviewStays DEF RunsTame
<1> QED BY <1>13, <1>14, <1>15, <1>16, <1>17 DEF OwnInv

----------------------------------------------------------------------------
(* Steps of others. *)

LEMMA SoundFrames ==
  ASSUME Undisturbed
  PROVE  /\ thread \in [Threads -> Seq(Frames)]
         /\ \A f : Stacked(thread, f) => Sound(f)
BY DEF Undisturbed, JobInv, RunsInv, OwnInv, StackPart, Stacked

LEMMA SameOn == Undisturbed /\ UNCHANGED thread => StackOn
BY SoundFrames DEF StackOn, Fit, Stacked

\* A goroutine is given a call.
LEMMA EntryOn ==
  ASSUME Undisturbed, NEW u, NEW g, Sound(g), thread' = [thread EXCEPT ![u] = <<g>>]
  PROVE  StackOn
<1> SUFFICES ASSUME NEW f, Stacked(thread', f) PROVE Sound(f)
  BY DEF StackOn, Fit
<1>1. PICK v \in Threads : \E i \in DOMAIN thread'[v] : f = thread'[v][i]
  BY DEF Stacked
<1>2. CASE v = u
  <2>1. thread'[v] = <<g>>
    BY <1>2, SoundFrames
  <2> QED BY <1>1, <2>1
<1>3. CASE v # u
  <2>1. thread'[v] = thread[v]
    BY <1>3, SoundFrames
  <2> QED BY <1>1, <2>1, SoundFrames DEF Stacked
<1> QED BY <1>2, <1>3

LEMMA WatchOn ==
  ASSUME Undisturbed, NEW d, thread' = Watch(thread, d)
  PROVE  StackOn
<1>1. thread \in [Threads -> Seq(Frames)]
  BY SoundFrames
<1>2. ASSUME NEW f, Stacked(thread', f) PROVE f = Call("poll", d) \/ Stacked(thread, f)
  <2>1. Stacked(Watch(thread, d), f)
    BY <1>2
  <2> QED BY <1>1, <2>1, WatchStacked
<1> QED BY <1>2, SoundFrames, CallSound, Callable DEF StackOn, Fit

\* The record of a run becomes "running" or stays, its agent starts or goes on.
LEMMA HolisticType ==
  ASSUME Undisturbed
  PROVE  /\ record \in [Runs -> Records] /\ remote \in [Runs -> Remote] /\ Holistic \in Runs
         /\ remote[Holistic].status # "ended" => remote[Holistic].says = "nothing"
BY RunTypes DEF Undisturbed, JobInv, RunsInv, RunsKept

\* A run begins, or it does not.
LEMMA BegunLooked ==
  ASSUME Undisturbed, NEW d,
         remote' = remote \/ remote' = [remote EXCEPT ![d].status = "running"]
  PROVE  Looked' => Looked /\ remote'[Holistic].saw = remote[Holistic].saw
<1>1. CASE remote'[Holistic] = remote[Holistic]
  BY <1>1 DEF Looked
<1>2. CASE d = Holistic /\ remote' = [remote EXCEPT ![d].status = "running"]
  <2>1. /\ remote'[Holistic].status = "running"
        /\ remote'[Holistic].says = remote[Holistic].says
        /\ remote'[Holistic].saw = remote[Holistic].saw
    BY <1>2, HolisticType DEF Remote
  <2> QED BY <2>1 DEF Looked
<1> QED BY <1>1, <1>2, HolisticType

LEMMA PlanOwn ==
  ASSUME Undisturbed, Plan, UNCHANGED pubVars
  PROVE  OwnInv'
<1>d. PICK d : d = Planner
  OBVIOUS
<1>1. Start(Operator, d, thread) /\ StartPlanning /\ UNCHANGED merged
  BY <1>d DEF Plan, gitVars, historyVars
<1>2. d # Holistic
  BY <1>d DEF Planner, Holistic
<1>3. Tame
  BY <1>1, Types, PublicationTame
<1>4. StackOn /\ RunsTame
  BY <1>1, <1>2, LaunchOn, OthersRun
<1> QED BY <1>1, <1>3, <1>4, SameHubOn, PlainStep

LEMMA ResumeOwn ==
  ASSUME Undisturbed, Resume, UNCHANGED pubVars
  PROVE  OwnInv'
<1>1. PICK e \in queue : Visit(e)
  BY DEF Resume, Reconcile
<1>d. PICK d : d = e.run
  OBVIOUS
<1>2. UNCHANGED storeVars /\ UNCHANGED merged /\ queue' = queue \ {e}
  BY <1>1 DEF Resume, Visit, gitVars, historyVars
<1>3. CASE UNCHANGED <<record, remote>>
  <2>1. Sound(Call("apply", d))
    BY CallSound, Callable
  <2>2. StackOn
    <3>1. \/ thread' = Watch(thread, d)
          \/ thread' = [thread EXCEPT ![Startup] = <<Call("apply", d)>>]
          \/ Launch(Startup, d, thread)
      BY <1>1, <1>d DEF Visit
    <3> QED BY <2>1, <3>1, WatchOn, EntryOn, LaunchOn
  <2>3. (Asked' => Asked) /\ (Looked' => Looked /\ remote'[Holistic].saw = remote[Holistic].saw)
    BY <1>2, <1>3 DEF Asked, Looked
  <2> QED BY <1>2, <2>2, <2>3, AskingStep
<1>4. CASE e.status = "starting" /\ Launch(Startup, d, thread)
  <2>1. StackOn
    BY <1>4, LaunchOn
  <2>2. Looked' => Looked /\ remote'[Holistic].saw = remote[Holistic].saw
    <3>1. remote' = remote \/ remote' = [remote EXCEPT ![d].status = "running"]
      BY <1>4 DEF Launch
    <3> QED BY <3>1, BegunLooked
  <2>3. Asked' => Asked
    <3>1. CASE d = Holistic
      BY <1>1, <1>d, <1>4, <3>1 DEF Asked
    <3>2. CASE d # Holistic
      <4>1. record'[Holistic] = record[Holistic] /\ remote'[Holistic] = remote[Holistic]
        BY <1>4, <3>2, HolisticType DEF Launch, Saved
      <4> QED BY <1>2, <4>1 DEF Asked
    <3> QED BY <3>1, <3>2
  <2> QED BY <1>2, <2>1, <2>2, <2>3, AskingStep
<1> QED BY <1>1, <1>d, <1>3, <1>4 DEF Visit

LEMMA FaultOwn ==
  ASSUME Undisturbed, NEW t \in Busy, Fault(t), UNCHANGED pubVars
  PROVE  OwnInv'
<1>1. UNCHANGED storeVars /\ UNCHANGED merged /\ thread' = Return(t)
  BY DEF Fault, LaunchFails, gitVars, historyVars
<1>2. StackOn
  BY <1>1, ReturnOn
<1>3. CASE UNCHANGED <<record, remote, queue>>
  BY <1>1, <1>3, StayBack
<1>4. CASE \E d : d # Holistic /\ LaunchFails(d, Return(t))
  <2>1. PICK d : d # Holistic /\ LaunchFails(d, Return(t))
    BY <1>4
  <2>2. /\ record'[Holistic] = record[Holistic] /\ remote'[Holistic] = remote[Holistic]
        /\ queue' = queue
    BY <2>1, HolisticType DEF LaunchFails, Saved
  <2>3. RunsTame
    BY <2>2 DEF RunsTame, Asked, Looked
  <2> QED BY <1>1, <1>2, <2>3, SameTame, SameHubOn, PlainStep
<1>5. \A k, n : Writer(k, n) # Holistic /\ Reviewer(k, n) # Holistic
  BY DEF Writer, Reviewer, Holistic
<1> QED BY <1>3, <1>4, <1>5 DEF Fault

LEMMA HubFaultOwn ==
  ASSUME Undisturbed, NEW t \in Busy, HubFault(t)
  PROVE  OwnInv'
<1>1. UNCHANGED storeVars /\ UNCHANGED merged /\ thread' = Return(t)
      /\ UNCHANGED <<pushed, checks>>
  BY DEF HubFault, LaunchFails, gitVars, historyVars, hubVars
<1>2. StackOn
  BY <1>1, ReturnOn
<1>3. CASE UNCHANGED <<record, remote, queue>> /\ (pr = pr' \/ (pr = "ready" /\ pr' = "merged"))
  <2>1. HubOn /\ (pr' # "none" => pr # "none")
    BY <1>1, <1>3 DEF HubOn
  <2> QED BY <1>1, <1>2, <1>3, <2>1, SameTame, QuietRuns, PlainStep
<1>4. CASE /\ At(t, "create") \/ At(t, "open")
           /\ Openable /\ pr' # "none" /\ UNCHANGED <<record, remote, queue>>
  <2>f. PICK f : f = Top(t)
    OBVIOUS
  <2>1. HeadOK(f.sha)
    BY <1>4, <2>f, TopSound DEF At, Good, Sound
  <2> QED BY <1>1, <1>2, <1>4, <2>f, <2>1, OpenOwn
<1>5. CASE At(t, "startreview") /\ LaunchFails(Holistic, Return(t)) /\ UNCHANGED hubVars
  <2>1. pr # "none" \/ AllTasksIntegrated(task)
    BY <1>5, TopSound DEF At, Sound
  <2>2. remote' = remote \/ remote' = [remote EXCEPT ![Holistic].status = "running"]
    BY <1>5 DEF LaunchFails
  <2>3. Looked' => Looked /\ remote'[Holistic].saw = remote[Holistic].saw
    BY <2>2, BegunLooked
  <2>4. UNCHANGED pubVars
    BY <1>5 DEF HubFault, pubVars
  <2> QED BY <1>1, <1>2, <2>1, <2>3, <2>4, AskingStep
<1>6. \/ UNCHANGED <<record, remote, queue>> /\ (pr = pr' \/ (pr = "ready" /\ pr' = "merged"))
      \/ /\ At(t, "create") \/ At(t, "open")
         /\ Openable /\ pr' # "none" /\ UNCHANGED <<record, remote, queue>>
      \/ At(t, "startreview") /\ LaunchFails(Holistic, Return(t)) /\ UNCHANGED hubVars
  BY DEF HubFault, hubVars
<1> QED BY <1>3, <1>4, <1>5, <1>6

LEMMA RestartOwn ==
  ASSUME Undisturbed, Restart, UNCHANGED hubVars
  PROVE  OwnInv'
<1>1. /\ thread' = [t \in Threads |-> <<>>] /\ UNCHANGED <<record, remote, merged>>
      /\ queue' = {[run |-> d, status |-> record[d]] : d \in Unapplied} /\ UNCHANGED storeVars
  BY DEF Restart, Crash, gitVars, historyVars
<1>2. StackOn
  BY <1>1 DEF StackOn, Stacked
<1>3. RunsTame
  BY <1>1 DEF RunsTame, Asked, Looked
<1>4. HubOn /\ (pr' # "none" => pr # "none")
  BY DEF hubVars, HubOn
<1> QED BY <1>1, <1>2, <1>3, <1>4, SameTame, PlainStep

\* The poller and the operator begin.
LEMMA BeginsOwn ==
  ASSUME Undisturbed, NEW u, NEW g, Sound(g), thread' = [thread EXCEPT ![u] = <<g>>],
         UNCHANGED <<storeVars, record, remote, queue, gitVars, hubVars>>
  PROVE  OwnInv'
<1>1. UNCHANGED storeVars /\ UNCHANGED merged /\ UNCHANGED <<record, remote, queue>>
  BY DEF gitVars, historyVars
<1>2. HubOn /\ (pr' # "none" => pr # "none")
  BY DEF hubVars, HubOn
<1>3. StackOn /\ Tame /\ RunsTame
  BY <1>1, EntryOn, SameTame, QuietRuns
<1> QED BY <1>1, <1>2, <1>3, PlainStep

LEMMA ResumeReviewOwn == Undisturbed /\ ResumeReview => OwnInv'
<1> SUFFICES ASSUME Undisturbed, ResumeReview PROVE OwnInv'
  OBVIOUS
<1>1. UNCHANGED <<storeVars, record, remote, queue, gitVars, hubVars>>
  BY DEF ResumeReview
<1>2. CASE UNCHANGED thread
  <2>1. UNCHANGED storeVars /\ UNCHANGED merged /\ UNCHANGED <<record, remote, queue>>
    BY <1>1 DEF gitVars, historyVars
  <2>2. HubOn /\ (pr' # "none" => pr # "none")
    BY <1>1 DEF hubVars, HubOn
  <2> QED BY <1>2, <2>1, <2>2, SameOn, SameTame, QuietRuns, PlainStep
<1>3. CASE job.status = "holistic_reviewing" /\ thread' = Polls("startreview", job.integrationSHA)
  <2>g. PICK g : g = [Call("startreview", NoRun) EXCEPT !.sha = job.integrationSHA]
    OBVIOUS
  <2>1. g.pc = "startreview" /\ g.publish = "no"
    BY <2>g DEF Call
  <2>2. AllTasksIntegrated(task)
    BY <1>3 DEF Undisturbed, OwnInv, JobPart, Whole
  <2>3. Sound(g)
    BY <2>1, <2>2 DEF Sound
  <2>4. thread' = [thread EXCEPT ![Startup] = <<g>>]
    BY <1>3, <2>g DEF Polls
  <2> QED BY <1>1, <2>3, <2>4, BeginsOwn
<1> QED BY <1>2, <1>3 DEF ResumeReview

LEMMA PollCIOwn == Undisturbed /\ PollCI => OwnInv'
<1> SUFFICES ASSUME Undisturbed, PollCI PROVE OwnInv'
  OBVIOUS
<1>1. UNCHANGED <<storeVars, record, remote, queue, gitVars, hubVars>>
  BY DEF PollCI, pubVars
<1>g. PICK g : g = [Call("checks", NoRun) EXCEPT !.sha = pushed]
  OBVIOUS
<1>2. g.pc = "checks" /\ g.publish = "no" /\ g.sha = pushed
  BY <1>g DEF Call
<1>3. HeadOK(pushed)
  <2>1. pushed = ci.head /\ ci.head # NoSHA
    BY Types DEF PollCI, StoreInv, HeadKnown
  <2> QED BY <2>1 DEF Undisturbed, OwnInv, CIPart
<1>4. Sound(g)
  BY <1>2, <1>3 DEF Sound
<1>5. thread' = [thread EXCEPT ![Startup] = <<g>>]
  BY <1>g DEF PollCI, Polls
<1> QED BY <1>1, <1>4, <1>5, BeginsOwn

LEMMA PublishApprovedOwn == Undisturbed /\ PublishApproved => OwnInv'
<1> SUFFICES ASSUME Undisturbed, PublishApproved PROVE OwnInv'
  OBVIOUS
<1>1. /\ UNCHANGED <<storeVars, record, remote, queue, gitVars, hubVars>>
      /\ thread' = [thread EXCEPT ![Operator] = <<Call("publish", NoRun)>>]
  BY DEF PublishApproved, pubVars
<1>2. Sound(Call("publish", NoRun))
  BY CallSound, Callable
<1> QED BY <1>1, <1>2, BeginsOwn

LEMMA HubAloneOwn ==
  ASSUME Undisturbed, UNCHANGED vars, HubOn, pr' # "none" => pr # "none"
  PROVE  OwnInv'
<1>1. UNCHANGED storeVars /\ UNCHANGED merged /\ UNCHANGED <<record, remote, queue>>
      /\ UNCHANGED thread
  BY DEF vars, dispatchVars
<1> QED BY <1>1, SameOn, SameTame, QuietRuns, PlainStep

LEMMA PromoteOwn == Undisturbed /\ Promote => OwnInv'
<1> SUFFICES ASSUME Undisturbed, Promote PROVE OwnInv'
  OBVIOUS
<1>1. UNCHANGED vars /\ HubOn /\ (pr' # "none" => pr # "none")
  BY DEF Promote, hubFree, HubOn
<1> QED BY <1>1, HubAloneOwn

LEMMA CompleteCheckOwn == Undisturbed /\ CompleteCheck => OwnInv'
<1> SUFFICES ASSUME Undisturbed, CompleteCheck PROVE OwnInv'
  OBVIOUS
<1>1. checks \in [SHAs -> {"pending", "passed"} \union Prints]
  BY DEF Undisturbed, JobInv, HubTypeOK
<1>2. PICK result : checks' = [checks EXCEPT ![pushed] = result]
  BY DEF CompleteCheck
<1>3. UNCHANGED vars /\ HubOn /\ (pr' # "none" => pr # "none")
  BY <1>1, <1>2 DEF CompleteCheck, hubFree, HubOn
<1> QED BY <1>3, HubAloneOwn

----------------------------------------------------------------------------
(* Agents. *)

\* Agents go on.
LEMMA AgentsOwn ==
  ASSUME Undisturbed, UNCHANGED storeVars, UNCHANGED merged, UNCHANGED pubVars,
         UNCHANGED thread, RunsTame
  PROVE  OwnInv'
BY SameOn, SameTame, SameHubOn, PlainStep

LEMMA AgentOwn ==
  ASSUME Undisturbed, NEW d \in Runs, Agent(d)
  PROVE  OwnInv'
<1>1. /\ UNCHANGED storeVars /\ UNCHANGED merged /\ UNCHANGED pubVars
      /\ UNCHANGED <<thread, record, queue>>
  BY DEF Agent, AgentActs, AgentEnds, Ends, gitVars, historyVars
<1>2. CASE d # Holistic
  <2>1. remote'[Holistic] = remote[Holistic]
    BY <1>2, HolisticType DEF Agent, AgentActs, AgentEnds, Acts, Ends
  <2>2. RunsTame
    BY <1>1, <2>1 DEF RunsTame, Asked, Looked
  <2> QED BY <1>1, <2>2, AgentsOwn
<1>3. CASE d = Holistic
  <2>1. d.role = "holistic" /\ d # Planner
    BY <1>3 DEF Holistic, Planner
  <2>2. Ends(d, "failed", "none")
    BY <2>1 DEF Agent, AgentActs, AgentEnds
  <2>3. remote'[d].status = "ended" /\ remote'[d].says = "failed"
        /\ remote[d].status # "absent"
    BY <1>3, <2>2, HolisticType DEF Ends, Remote
  <2>4. RunsTame
    BY <1>3, <2>3 DEF RunsTame, Asked, Looked, Verdicts
  <2> QED BY <1>1, <2>4, AgentsOwn
<1> QED BY <1>2, <1>3

LEMMA ReviewerEndsOwn == Undisturbed /\ ReviewerEnds => OwnInv'
<1> SUFFICES ASSUME Undisturbed, ReviewerEnds PROVE OwnInv'
  OBVIOUS
<1>1. PICK says, feedback : Ends(Holistic, says, feedback)
  BY DEF ReviewerEnds
<1>2. /\ UNCHANGED storeVars /\ UNCHANGED merged /\ UNCHANGED pubVars
      /\ UNCHANGED <<thread, record, queue>> /\ remote[Holistic].status = "acted"
  BY <1>1 DEF ReviewerEnds, Ends, gitVars, historyVars
<1>3. remote'[Holistic].saw = remote[Holistic].saw
  BY <1>1, HolisticType DEF Ends, Remote
<1>4. RunsTame
  BY <1>2, <1>3 DEF RunsTame, Asked, Looked
<1> QED BY <1>2, <1>4, AgentsOwn

\* The holistic reviewer reads the commit of the job.
LEMMA ReviewerActsOwn == Undisturbed /\ ReviewerActs => OwnInv'
<1> SUFFICES ASSUME Undisturbed, ReviewerActs PROVE OwnInv'
  OBVIOUS
<1>1. /\ UNCHANGED storeVars /\ UNCHANGED merged /\ UNCHANGED pubVars
      /\ UNCHANGED <<thread, record, queue>> /\ remote[Holistic].status = "running"
  BY DEF ReviewerActs, Acts, gitVars, historyVars
<1>h. PICK h : h = job.integrationSHA
  OBVIOUS
<1>2. remote'[Holistic].saw = h
  BY <1>h, HolisticType DEF ReviewerActs, Acts, Remote
<1>3. Tame /\ HubOn /\ (pr' # "none" => pr # "none") /\ BranchOn /\ StackOn
  BY <1>1, SameTame, SameHubOn, SameBranch, SameOn
<1>4. TasksTamed /\ TasksOn
  BY <1>3, TameTasks, TamedOn
<1>5. Stays
  BY <1>3, <1>4, Staying
<1>6. StackPart' /\ TaskPart'
  BY <1>1, <1>3, <1>4, StackStays, TaskStays
<1>7. JobPart'
  BY <1>1, <1>3, <1>4, JobStays DEF storeVars
<1>8. CIPart'
  BY <1>1, <1>3, <1>4, CIStays DEF storeVars, Offered
<1>9. ReviewPart'
  <2>1. pr # "none" \/ AllTasksIntegrated(task)
    BY <1>1 DEF Undisturbed, OwnInv, ReviewPart, Asked
  <2>2. HeadOK(h)
    BY <1>h, <2>1, WholeHead DEF Undisturbed, OwnInv, JobPart
  <2>3. HeadOK(h)' /\ (pr' # "none" \/ AllTasksIntegrated(task)')
    BY <1>5, <2>1, <2>2 DEF Stays
  <2>4. HeadOK(remote[Holistic].saw)'
    BY <1>2, <2>3 DEF HeadOK, Answered
  <2> QED BY <2>3, <2>4 DEF ReviewPart
<1> QED BY <1>6, <1>7, <1>8, <1>9 DEF OwnInv

----------------------------------------------------------------------------
(* Every step. *)

LEMMA HandlerOwn ==
  ASSUME Undisturbed, NEW t \in Busy, HandlerStep(t), UNCHANGED pubVars
  PROVE  OwnInv'
<1>1. CASE (Observe(t) \/ Mark(t)) /\ UNCHANGED <<storeVars, gitVars, budget>>
  BY <1>1, ObserveOwn
<1>2. CASE ApplyPlan(t) \/ ApplyWriter(t) \/ ApplyReview(t)
  BY <1>2, ApplyPlanOwn, ApplyWriterOwn, ApplyReviewOwn
<1>3. CASE Base(t) \/ StartWriterRun(t) \/ Work(t)
  BY <1>3, BaseOwn, StartWriterRunOwn, WorkOwn
<1>4. CASE Commit(t) \/ Complete(t) \/ NoChanges(t)
  BY <1>4, CommitOwn, CompleteOwn, NoChangesOwn
<1>5. CASE StartReviewerRun(t) \/ OwnReview(t)
  BY <1>5, StartReviewerRunOwn, OwnReviewOwn
<1>6. CASE FileReport(t) \/ Verdict(t) \/ Block(t)
  BY <1>6, FileReportOwn, VerdictOwn, BlockOwn
<1>7. CASE Integrate(t) \/ Begin(t) \/ Integrated(t)
  BY <1>7, IntegrateOwn, BeginOwn, IntegratedOwn
<1>8. CASE AwaitCI(t) \/ Reset(t)
  BY <1>8, AwaitCIOwn, ResetOwn
<1> QED BY <1>1, <1>2, <1>3, <1>4, <1>5, <1>6, <1>7, <1>8 DEF HandlerStep

LEMMA PublishingOwn ==
  ASSUME Undisturbed, NEW t \in Busy, PublicationStep(t)
  PROVE  OwnInv'
<1>1. CASE HandlerStep(t) /\ UNCHANGED pubVars
  BY <1>1, HandlerOwn
<1>2. CASE MergeAndPush(t)
  BY <1>2, MergeAndPushOwn
<1>3. CASE PushBranch(t) \/ CreateDraft(t) \/ RecordDraft(t) \/ GetDraft(t)
  BY <1>3, PushBranchOwn, CreateDraftOwn, RecordDraftOwn, GetDraftOwn
<1>4. CASE ReadChecks(t) \/ Remediate(t) \/ StartReview(t) \/ OwnJobReview(t)
  BY <1>4, ReadChecksOwn, RemediateOwn, StartReviewOwn, OwnJobReviewOwn
<1>5. CASE ApplyHolistic(t) \/ JobVerdict(t) \/ Fail(t)
  BY <1>5, ApplyHolisticOwn, JobVerdictOwn, FailOwn
<1>6. CASE Publish(t) \/ CreateReady(t) \/ RecordReady(t) \/ PassGate(t) \/ GateChecks(t)
  BY <1>6, PublishOwn, CreateReadyOwn, RecordReadyOwn, PassGateOwn, GateChecksOwn
<1>7. CASE MergePR(t) \/ RecordMerged(t) \/ Rereview(t)
  BY <1>7, MergePROwn, RecordMergedOwn, RereviewOwn
<1> QED BY <1>1, <1>2, <1>3, <1>4, <1>5, <1>6, <1>7 DEF PublicationStep

LEMMA PushedByOthers == JobInv /\ Push => pushed' \in Foreign
<1> SUFFICES ASSUME JobInv, Push PROVE pushed' \in Foreign
  OBVIOUS
<1>1. /\ pushed' = MaxSHA - budget.pushes + 1 /\ budget.pushes > 0
      /\ budget.pushes \in Nat /\ budget.pushes <= MaxPushes
  BY DEF Push, JobInv, RunsInv, HubTypeOK, Scenario
<1>2. MaxSHA \in Nat /\ MaxPushes \in Nat /\ MaxPushes <= MaxSHA
  BY StoreAssumption, PushesAssumption
<1> QED BY <1>1, <1>2 DEF Foreign, SHAs

LEMMA OwnNext ==
  ASSUME Undisturbed, [PublicationNext]_allVars
  PROVE  OwnInv'
<1>1. CASE \E t \in Busy : PublicationStep(t)
  BY <1>1, PublishingOwn
<1>2. CASE (Plan \/ Resume) /\ UNCHANGED pubVars
  BY <1>2, PlanOwn, ResumeOwn
<1>3. CASE ResumeReview \/ PollCI \/ PublishApproved
  BY <1>3, ResumeReviewOwn, PollCIOwn, PublishApprovedOwn
<1>4. ~AskRereview /\ ~Push
  BY PushedByOthers DEF AskRereview, Undisturbed
<1>5. CASE Promote \/ CompleteCheck
  BY <1>5, PromoteOwn, CompleteCheckOwn
<1>6. CASE ReviewerActs \/ ReviewerEnds \/ \E d \in Runs : Agent(d)
  BY <1>6, ReviewerActsOwn, ReviewerEndsOwn, AgentOwn
<1>7. CASE Incident
  BY <1>4, <1>7, HubFaultOwn, FaultOwn, RestartOwn DEF Incident
<1>8. CASE UNCHANGED allVars
  BY <1>8, SameHubOn, HubAloneOwn DEF allVars
<1> QED BY <1>1, <1>2, <1>3, <1>4, <1>5, <1>6, <1>7, <1>8 DEF PublicationNext

----------------------------------------------------------------------------
(* What is merged. *)

\* A branch others have pushed to is never taken back.
LEMMA ForeignStays ==
  ASSUME JobInv, [PublicationNext]_allVars, pushed \in Foreign
  PROVE  pushed' \in Foreign
<1>1. UNCHANGED pushed \/ Push
  <2>1. CASE \E t \in Busy : PublicationStep(t)
    BY <2>1 DEF PublicationStep, MergeAndPush, PushBranch, CreateDraft, Open, RecordDraft,
                GetDraft, ReadChecks, Remediate, StartReview, OwnJobReview, ApplyHolistic,
                JobVerdict, Fail, Publish, CreateReady, RecordReady, PassGate, GateChecks,
                MergePR, RecordMerged, Rereview, Stores, pubVars, hubVars
  <2>2. CASE ~\E t \in Busy : PublicationStep(t)
    BY <2>2 DEF PublicationNext, ResumeReview, PollCI, PublishApproved, AskRereview, Promote,
                CompleteCheck, ReviewerActs, ReviewerEnds, Agent, Incident, HubFault,
                pubVars, hubVars, allVars
  <2> QED BY <2>1, <2>2
<1> QED BY <1>1, PushedByOthers

\* A check that has completed is not taken back, a merge is made by MergePR.
LEMMA HubNext ==
  ASSUME JobInv, [PublicationNext]_allVars
  PROVE  /\ \A s \in SHAs : checks[s] # "pending" => checks'[s] = checks[s]
         /\ \/ UNCHANGED mergedHead
            \/ /\ \E t \in Busy : At(t, "mergepr")
               /\ mergedHead' = pushed /\ UNCHANGED <<checks, remote>>
<1>1. CASE \E t \in Busy : PublicationStep(t)
  BY <1>1 DEF PublicationStep, MergeAndPush, PushBranch, CreateDraft, Open, RecordDraft,
              GetDraft, ReadChecks, Remediate, StartReview, OwnJobReview, ApplyHolistic,
              JobVerdict, Fail, Publish, CreateReady, RecordReady, PassGate, GateChecks,
              MergePR, RecordMerged, Rereview, Stores, Moves, pubVars, hubVars
<1>2. CASE CompleteCheck
  BY <1>2 DEF CompleteCheck, JobInv, HubTypeOK
<1>3. CASE \E t \in Busy : HubFault(t)
  BY <1>3 DEF HubFault, hubVars
<1>4. CASE ~(\E t \in Busy : PublicationStep(t) \/ HubFault(t)) /\ ~CompleteCheck
  BY <1>4 DEF PublicationNext, ResumeReview, PollCI, PublishApproved, AskRereview, Promote,
              ReviewerActs, ReviewerEnds, Agent, Incident, Push, pubVars, hubVars, allVars
<1> QED BY <1>1, <1>2, <1>3, <1>4

\* MergePR is called for a commit that passed and that the reviewer read, or one that
\* came after a failed one it had read.
LEMMA MergesOwn ==
  ASSUME JobInv, OwnInv, NEW t \in Busy, At(t, "mergepr"), pushed \in OwnCommits
  PROVE  /\ checks[pushed] = "passed"
         /\ \/ pushed = remote[Holistic].saw
            \/ remote[Holistic].saw \in SHAs /\ checks[remote[Holistic].saw] \in Prints
<1>f. PICK f : f = Top(t)
  OBVIOUS
<1>1. /\ f.pc = "mergepr" /\ Good(f) /\ Sound(f)
  <2>1. Good(f)
    BY <1>f, TopFrame DEF JobInv
  <2>2. thread[t] \in Seq(Frames) /\ thread[t] # <<>> /\ t \in Threads
    BY DEF JobInv, RunsInv, Busy
  <2>3. 1 \in DOMAIN thread[t] /\ f = thread[t][1]
    BY <1>f, <2>2 DEF Top
  <2>4. Sound(f)
    BY <2>2, <2>3 DEF OwnInv, StackPart
  <2> QED BY <1>f, <2>1, <2>4 DEF At, Top
<1>2. ASSUME NEW h, Answered(h) PROVE h \in SHAs /\ checks[h] \in Prints
  <2>1. PICK k \in PlanKeys : task[k].remediation /\ task[k].base = h
    BY <1>2 DEF Answered
  <2>2. checks[h] \in Prints
    BY <2>1 DEF OwnInv, TaskPart
  <2>3. h # NoSHA /\ h \in SHAs
    BY <2>1, PlanKeysType DEF JobInv, RunsInv, StoreInv, RepairsCounted, StoreTypeOK, Task
  <2> QED BY <2>2, <2>3
<1>3. HeadOK(f.sha) /\ (pushed = f.sha \/ Answered(f.sha)) /\ (f.sha # NoSHA => checks[f.sha] = "passed")
  BY <1>1 DEF Sound
<1>4. pushed \in SHAs /\ pushed # NoSHA
  BY DEF OwnCommits, SHAs, NoSHA
<1>5. f.sha # NoSHA
  BY <1>2, <1>3, <1>4 DEF SHAs, NoSHA
<1>6. ~Answered(f.sha)
  BY <1>2, <1>3, <1>5, PrintsAssumption
<1>7. pushed = Local /\ checks[pushed] = "passed"
  BY <1>3, <1>5, <1>6 DEF HeadOK
<1>8. HeadOK(remote[Holistic].saw)
  BY <1>1 DEF Good, OwnInv, ReviewPart, Looked, Verdicts
<1> QED BY <1>2, <1>7, <1>8 DEF HeadOK

LEMMA MergedNext ==
  ASSUME JobInv, RunsOn, MergedPart, pushed \notin Foreign => OwnInv, [PublicationNext]_allVars
  PROVE  MergedPart'
<1> SUFFICES ASSUME mergedHead' \in OwnCommits
             PROVE  /\ checks'[mergedHead'] = "passed"
                    /\ \/ mergedHead' = remote'[Holistic].saw
                       \/ /\ remote'[Holistic].saw \in SHAs
                          /\ checks'[remote'[Holistic].saw] \in Prints
  BY DEF MergedPart, OwnCommits, Foreign, SHAs
<1>1. CASE UNCHANGED mergedHead
  <2>1. /\ mergedHead \in SHAs /\ mergedHead # NoSHA /\ checks[mergedHead] = "passed"
        /\ \/ mergedHead = remote[Holistic].saw
           \/ remote[Holistic].saw \in SHAs /\ checks[remote[Holistic].saw] \in Prints
    BY <1>1 DEF MergedPart, OwnCommits, SHAs, NoSHA
  <2>2. remote'[Holistic] = remote[Holistic]
    <3>1. remote[Holistic].says = "approved"
      BY <2>1 DEF JobInv, JobReviewed
    <3> QED BY <3>1, RunTypes DEF JobInv, RunsInv, RunsKept, RunsOn
  <2> QED BY <1>1, <2>1, <2>2, HubNext, PrintsAssumption
<1>2. CASE /\ \E t \in Busy : At(t, "mergepr")
           /\ mergedHead' = pushed /\ UNCHANGED <<checks, remote>>
  <2>1. pushed \in OwnCommits /\ pushed \notin Foreign
    BY <1>2 DEF OwnCommits
  <2> QED BY <1>2, <2>1, MergesOwn
<1> QED BY <1>1, <1>2, HubNext

----------------------------------------------------------------------------
(* The gate. *)

GateInv == (pushed \notin Foreign => OwnInv) /\ MergedPart

LEMMA GateInit == PublicationInit => GateInv
<1> SUFFICES ASSUME PublicationInit PROVE GateInv
  OBVIOUS
<1>1. /\ planned = 0 /\ PlanKeys = {} /\ job.status = "created" /\ job.integrationSHA = NoSHA
      /\ ~job.pullRequest /\ job.mergeState = "not_requested" /\ ci = NoCI
      /\ \A k \in Keys : merged[k] = NoSHA
      /\ pr = "none" /\ mergedHead = NoSHA /\ queue = {}
      /\ \A t \in Threads : thread[t] = <<>>
      /\ remote[Holistic] = NoRemote /\ record[Holistic] = "none"
  BY RunTypes DEF PublicationInit, Init, Create, DispatchInit, PlanKeys
<1>2. Local = NoSHA
  <2>1. {k \in Keys : merged[k] # NoSHA} = {}
    BY <1>1
  <2> QED BY <2>1, FS_EmptySet DEF Local, NoSHA
<1>3. StackPart
  BY <1>1 DEF StackPart
<1>4. TaskPart /\ JobPart
  BY <1>1, <1>2 DEF TaskPart, JobPart, Whole
<1>5. CIPart
  BY <1>1 DEF CIPart, Offered, NoCI
<1>6. ReviewPart
  BY <1>1 DEF ReviewPart, Asked, Looked, NoRemote, Verdicts
<1>7. MergedPart
  BY <1>1 DEF MergedPart, OwnCommits, SHAs, NoSHA
<1> QED BY <1>3, <1>4, <1>5, <1>6, <1>7 DEF GateInv, OwnInv

LEMMA GateNext ==
  JobInv /\ GateInv /\ [PublicationNext]_allVars /\ [Steady]_storeVars => GateInv'
<1> SUFFICES ASSUME JobInv, GateInv, [PublicationNext]_allVars, [Steady]_storeVars
             PROVE  GateInv'
  OBVIOUS
<1>1. JobInv' /\ RunsOn
  BY NextJob DEF JobKept
<1>2. Steady
  BY DEF Steady, storeVars
<1>3. ASSUME pushed' \notin Foreign PROVE OwnInv'
  <2>1. pushed \notin Foreign
    BY <1>3, ForeignStays
  <2>2. Undisturbed
    BY <1>1, <1>2, <1>3, <2>1 DEF Undisturbed, GateInv
  <2> QED BY <2>2, OwnNext
<1>4. MergedPart'
  BY <1>1, MergedNext DEF GateInv
<1>5. (pushed \notin Foreign)' => OwnInv'
  BY <1>3 DEF Foreign, SHAs
<1> QED BY <1>4, <1>5 DEF GateInv

\* The commit of every call, of the CI record, of the job and of the holistic reviewer
\* is the whole of the tasks or a failed one being repaired, until somebody else pushes.
THEOREM GateInvariant == PublicationSpec /\ SettledStays => []GateInv
BY GateInit, GateNext, JobInvariant, PTL DEF PublicationSpec, SettledStays

\* MergePR (publishApprovedJob) merges no commit of the program's that has not passed CI,
\* also when tasks repair what failed and polls, crashes and answers come in between.
THEOREM OnlyPassedHeadsMerge == PublicationSpec /\ SettledStays => []MergedHeadPassed
<1>1. GateInv => MergedHeadPassed
  BY DEF GateInv, MergedPart, MergedHeadPassed
<1> QED BY <1>1, GateInvariant, PTL

\* And the commit it merges is the one the holistic reviewer had before it, unless that
\* one had not passed CI or somebody else pushed: the approval is not of another commit.
THEOREM OnlyReviewedHeadsMerge == PublicationSpec /\ SettledStays => []MergedAfterReview
<1>1. JobInv /\ GateInv => MergedAfterReview
  <2> SUFFICES ASSUME JobInv, GateInv, mergedHead # NoSHA
               PROVE  /\ remote[Holistic].says = "approved"
                      /\ \/ mergedHead \in Foreign \union {remote[Holistic].saw}
                         \/ checks[remote[Holistic].saw] # "passed"
    BY DEF MergedAfterReview
  <2>1. mergedHead \in Foreign \/ mergedHead \in OwnCommits
    BY DEF JobInv, HubTypeOK, OwnCommits
  <2> QED BY <2>1, PrintsAssumption DEF GateInv, MergedPart, JobInv, JobReviewed
<1> QED BY <1>1, GateInvariant, JobInvariant, PTL
=============================================================================
