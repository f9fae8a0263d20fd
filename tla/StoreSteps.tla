----------------------------- MODULE StoreSteps -----------------------------
(***************************************************************************)
(* What one operation of the job store does to the tasks and to the commit *)
(* under test, for every caller: the lemmas the proofs about the handlers  *)
(* of TaskRuns and Publication rest on.  Nothing here depends on the order *)
(* in which operations are called.                                         *)
(*                                                                         *)
(* StoreInv is kept by every operation alone.  Quiet says what an          *)
(* operation may change of a task unless it is the one made for it.        *)
(***************************************************************************)
EXTENDS PipelineStore, FiniteSetTheorems, TLAPS

ApprovedStatuses == {"approved", "integration_eligible", "integrating", "integrated"}

\* A review in progress has no verdict, approved work has an approval.
Sane(t) ==
    /\ t.status = "reviewing" => t.verdict = "pending"
    /\ t.status \in ApprovedStatuses => t.verdict = "approved"

\* A job that waits for CI or a holistic review has a commit to be tested.
HeadKnown ==
    /\ \/ job.status \in {"holistic_reviewing", "awaiting_ci"}
       \/ ci.head # NoSHA
       \/ HasIntegratedTask(task)
       => job.integrationSHA # NoSHA
    /\ job.status = "awaiting_ci" \/ ci.state # "none" => ci.head # NoSHA

Repairs(print) == {k \in PlanKeys : task[k].remediation /\ task[k].print = print}

\* Every repair of a failure answers one record of it, and the latest record is
\* still to be answered while the head has no repair of its own.
RepairsCounted(print) ==
    /\ Cardinality(Repairs(print)) <= 2
    /\ Cardinality(Repairs(print)) <= failures[print]
    /\ ci.state = "failed" /\ ci.print = print /\ RemediationFor(print) = {}
          => Cardinality(Repairs(print)) < failures[print]

StoreInv ==
    /\ \A k \in PlanKeys : Sane(task[k])
    /\ HeadKnown
    /\ \A k \in PlanKeys : task[k].remediation => task[k].base # NoSHA
    /\ \A print \in Prints : RepairsCounted(print)

\* Work on a task has begun.
Begun(t) == t.status \notin {"planned", "blocked"} \/ t.verdict # "pending"

\* What no operation changes of a task.
Fixed(t, u) ==
    /\ u.deps = t.deps /\ u.remediation = t.remediation
    /\ t.base # NoSHA => u.base = t.base

\* A verdict stays with its reviewer or goes, no task begins or finishes.
Quiet(t, u) ==
    /\ u.verdict # "pending" => u.verdict = t.verdict /\ u.reviewerRun = t.reviewerRun
    /\ Begun(u) => Begun(t)
    /\ Finished(u) => Finished(t)

\* The plan only grows, and a commit to be tested is there to stay.
Onward ==
    /\ planned <= planned'
    /\ \A k \in PlanKeys : k \in PlanKeys' /\ Fixed(task[k], task'[k])
    /\ \A k \in PlanKeys' \ PlanKeys : /\ task'[k].status = "planned"
                                       /\ task'[k].verdict = "pending"
                                       /\ task'[k].deps \subseteq PlanKeys'
    /\ job.integrationSHA # NoSHA => job'.integrationSHA # NoSHA

AllQuiet == \A k \in PlanKeys : Quiet(task[k], task'[k])

QuietBut(k) == \A j \in PlanKeys \ {k} : Quiet(task[j], task'[j])

----------------------------------------------------------------------------
LEMMA PlanKeysType ==
  ASSUME StoreTypeOK
  PROVE  /\ PlanKeys \subseteq Keys
         /\ \A k \in PlanKeys : task[k] \in Task
         /\ IsFiniteSet(PlanKeys)
<1>1. planned \in Nat /\ MaxTasks \in Nat /\ planned <= MaxTasks
  BY StoreAssumption DEF StoreTypeOK
<1>2. PlanKeys \subseteq Keys
  BY <1>1 DEF PlanKeys, Keys
<1>3. IsFiniteSet(PlanKeys)
  BY <1>1, FS_Interval DEF PlanKeys
<1> QED BY <1>2, <1>3 DEF StoreTypeOK

LEMMA InitStoreInv == Create => StoreInv
<1> SUFFICES ASSUME Create PROVE StoreInv
  OBVIOUS
<1>1. PlanKeys = {}
  BY DEF Create, PlanKeys
<1>2. HeadKnown
  BY <1>1 DEF HeadKnown, Create, HasIntegratedTask, NoCI
<1>3. \A print \in Prints : RepairsCounted(print)
  <2> TAKE print \in Prints
  <2>1. Repairs(print) = {} /\ RemediationFor(print) = {}
    BY <1>1 DEF Repairs, RemediationFor
  <2>2. Cardinality(Repairs(print)) = 0
    BY <2>1, FS_EmptySet
  <2> QED BY <2>2 DEF RepairsCounted, Create, NoCI
<1> QED BY <1>1, <1>2, <1>3 DEF StoreInv

\* Repairs are counted as before by an operation that changes neither them nor CI.
LEMMA SameRepairs ==
  ASSUME StoreTypeOK, StoreInv, UNCHANGED <<ci, failures, planned>>,
         \A k \in PlanKeys : /\ Fixed(task[k], task'[k])
                             /\ task'[k].print = task[k].print
  PROVE  /\ \A k \in PlanKeys' : task'[k].remediation => task'[k].base # NoSHA
         /\ \A print \in Prints : RepairsCounted(print)'
<1>1. PlanKeys' = PlanKeys
  BY DEF PlanKeys
<1>2. \A k \in PlanKeys' : task'[k].remediation => task'[k].base # NoSHA
  BY <1>1 DEF StoreInv, Fixed
<1>3. \A print \in Prints : RepairsCounted(print)'
  <2> TAKE print \in Prints
  <2>1. Repairs(print)' = Repairs(print)
    BY <1>1 DEF Repairs, Fixed
  <2>2. RemediationFor(print)' = RemediationFor(print)
    BY <1>1 DEF RemediationFor, Fixed, StoreInv
  <2>3. RepairsCounted(print)
    BY DEF StoreInv
  <2> QED BY <2>1, <2>2, <2>3 DEF RepairsCounted
<1> QED BY <1>2, <1>3

LEMMA UnchangedStore ==
  ASSUME StoreTypeOK, StoreInv, UNCHANGED storeVars
  PROVE  StoreInv' /\ Onward /\ AllQuiet
<1> USE DEF storeVars
<1>1. PlanKeys' = PlanKeys /\ planned \in Nat
  BY DEF PlanKeys, StoreTypeOK
<1>2. \A k \in PlanKeys : Fixed(task[k], task'[k]) /\ Quiet(task[k], task'[k])
  BY DEF Fixed, Quiet
<1>3. StoreInv'
  BY <1>1, <1>2, SameRepairs DEF StoreInv, HeadKnown, HasIntegratedTask
<1> QED BY <1>1, <1>2, <1>3 DEF Onward, AllQuiet

\* An operation on the tasks of the plan as they are.
LEMMA TasksStep ==
  ASSUME StoreTypeOK, StoreInv, UNCHANGED <<ci, failures, planned>>,
         \A k \in PlanKeys : /\ Fixed(task[k], task'[k])
                             /\ task'[k].print = task[k].print
                             /\ Sane(task'[k]),
         HeadKnown', job.integrationSHA # NoSHA => job'.integrationSHA # NoSHA
  PROVE  StoreInv' /\ Onward
<1>1. PlanKeys' = PlanKeys /\ planned \in Nat
  BY DEF PlanKeys, StoreTypeOK
<1>2. StoreInv'
  BY <1>1, SameRepairs DEF StoreInv
<1> QED BY <1>1, <1>2 DEF Onward

\* An operation on the job alone.
LEMMA JobStep ==
  ASSUME StoreTypeOK, StoreInv, UNCHANGED <<ci, failures, planned, task>>,
         job'.integrationSHA # NoSHA \/ job'.integrationSHA = job.integrationSHA,
         job'.status \in {"holistic_reviewing", "awaiting_ci"} =>
            job.status \in {"holistic_reviewing", "awaiting_ci"} \/ job'.integrationSHA # NoSHA,
         job'.status = "awaiting_ci" => job.status = "awaiting_ci"
  PROVE  StoreInv' /\ Onward /\ AllQuiet
<1>1. PlanKeys' = PlanKeys
  BY DEF PlanKeys
<1>2. \A k \in PlanKeys : /\ Fixed(task[k], task'[k]) /\ Quiet(task[k], task'[k])
                          /\ task'[k].print = task[k].print
                          /\ Sane(task'[k])
  BY DEF Fixed, Quiet, StoreInv
<1>3. HeadKnown'
  BY <1>1 DEF HeadKnown, HasIntegratedTask, StoreInv
<1> QED BY <1>2, <1>3, TasksStep DEF AllQuiet, StoreInv, HeadKnown

\* An operation that replaces one task and integrates none.
LEMMA OneTaskStep ==
  ASSUME StoreTypeOK, StoreInv, NEW k \in PlanKeys, NEW u,
         task' = [task EXCEPT ![k] = u], UNCHANGED <<ci, failures, planned>>,
         Fixed(task[k], u), u.print = task[k].print, Sane(u),
         u.status = "integrated" => task[k].status = "integrated",
         job'.integrationSHA = job.integrationSHA,
         job'.status \in {"holistic_reviewing", "awaiting_ci"} =>
            job.status \in {"holistic_reviewing", "awaiting_ci"} \/ HasIntegratedTask(task),
         job'.status = "awaiting_ci" => job.status = "awaiting_ci"
  PROVE  StoreInv' /\ Onward /\ QuietBut(k) /\ task'[k] = u
<1>1. PlanKeys' = PlanKeys /\ task \in [Keys -> Task] /\ PlanKeys \subseteq Keys
  BY PlanKeysType DEF PlanKeys, StoreTypeOK
<1>2. task'[k] = u /\ \A j \in PlanKeys \ {k} : task'[j] = task[j]
  BY <1>1
<1>3. \A j \in PlanKeys : /\ Fixed(task[j], task'[j])
                          /\ task'[j].print = task[j].print
                          /\ Sane(task'[j])
  BY <1>2 DEF Fixed, StoreInv
<1>4. QuietBut(k)
  BY <1>2 DEF QuietBut, Quiet
<1>5. HasIntegratedTask(task)' => HasIntegratedTask(task)
  BY <1>1, <1>2 DEF HasIntegratedTask
<1>6. HeadKnown'
  BY <1>5 DEF StoreInv, HeadKnown
<1> QED BY <1>2, <1>3, <1>4, <1>6, TasksStep DEF StoreInv

----------------------------------------------------------------------------
(* Planning. *)

LEMMA StartPlanningStep ==
  ASSUME StoreTypeOK, StoreInv, StartPlanning
  PROVE  StoreInv' /\ Onward /\ AllQuiet
<1>1. job'.status = "planning" /\ job'.integrationSHA = job.integrationSHA
  BY DEF StartPlanning, StoreTypeOK, Job
<1> QED BY <1>1, JobStep DEF StartPlanning

LEMMA SubmitPlanStep ==
  ASSUME StoreTypeOK, StoreInv, NEW n \in Keys, NEW deps \in [1..n -> SUBSET (1..n)],
         SubmitPlan(n, deps)
  PROVE  StoreInv' /\ Onward /\ AllQuiet
<1>1. /\ planned = 0 /\ planned' = n /\ PlanKeys = {} /\ PlanKeys' = 1..n /\ n \in Nat
      /\ 1..n \subseteq Keys
  BY StoreAssumption DEF SubmitPlan, PlanKeys, Keys
<1>2. \A k \in 1..n : /\ task'[k].status = "planned" /\ task'[k].verdict = "pending"
                      /\ task'[k].deps = deps[k] /\ task'[k].remediation = FALSE
  <2> TAKE k \in 1..n
  <2>1. task'[k] = NewTask(deps[k])
    BY <1>1 DEF SubmitPlan
  <2> QED BY <2>1 DEF NewTask, NoTask
<1>3. \A k \in PlanKeys' : Sane(task'[k]) /\ task'[k].status # "integrated"
                           /\ ~task'[k].remediation
  BY <1>1, <1>2 DEF Sane, ApprovedStatuses
<1>4. HeadKnown'
  <2>1. job'.status = "planned" /\ job'.integrationSHA = job.integrationSHA
    BY DEF SubmitPlan, StoreTypeOK, Job
  <2>2. ~HasIntegratedTask(task)'
    BY <1>3 DEF HasIntegratedTask
  <2> QED BY <2>1, <2>2 DEF HeadKnown, StoreInv, SubmitPlan
<1>5. \A print \in Prints : RepairsCounted(print)'
  <2> TAKE print \in Prints
  <2>1. Repairs(print) = {} /\ RemediationFor(print) = {}
    BY <1>1 DEF Repairs, RemediationFor
  <2>2. Repairs(print)' = {}
    BY <1>3 DEF Repairs
  <2>3. RepairsCounted(print)
    BY DEF StoreInv
  <2> QED BY <2>1, <2>2, <2>3 DEF RepairsCounted, SubmitPlan
<1>6. Onward
  <2>1. job'.integrationSHA = job.integrationSHA
    BY DEF SubmitPlan, StoreTypeOK, Job
  <2>2. \A k \in PlanKeys' : task'[k].deps \subseteq PlanKeys'
    BY <1>1, <1>2
  <2> QED BY <1>1, <1>2, <2>1, <2>2 DEF Onward
<1> QED BY <1>1, <1>3, <1>4, <1>5, <1>6 DEF StoreInv, AllQuiet

----------------------------------------------------------------------------
(* Writer work. *)

LEMMA RecordTaskBaseStep ==
  ASSUME StoreTypeOK, StoreInv, NEW k \in PlanKeys, NEW sha \in SHAs,
         RecordTaskBase(k, sha)
  PROVE  StoreInv' /\ Onward /\ AllQuiet
<1> DEFINE u == [task[k] EXCEPT !.base = sha]
<1>1. task[k] \in Task /\ k \in Keys
  BY PlanKeysType
<1>2. sha # NoSHA
  BY DEF SHAs, NoSHA
<1>3. /\ u.deps = task[k].deps /\ u.remediation = task[k].remediation
      /\ u.base = sha /\ u.print = task[k].print /\ u.status = task[k].status
      /\ u.verdict = task[k].verdict /\ u.reviewerRun = task[k].reviewerRun
  BY <1>1 DEF Task
<1>4. task' = [task EXCEPT ![k] = u] /\ task[k].base \in {NoSHA, sha}
      /\ UNCHANGED <<job, ci, failures, planned>>
  BY DEF RecordTaskBase
<1> HIDE DEF u
<1>5. Fixed(task[k], u) /\ Sane(u) /\ Quiet(task[k], u)
  BY <1>3, <1>4 DEF Fixed, Sane, Quiet, StoreInv, Begun, Finished
<1>6. StoreInv' /\ Onward /\ QuietBut(k) /\ task'[k] = u
  BY <1>3, <1>4, <1>5, OneTaskStep
<1> QED BY <1>5, <1>6 DEF AllQuiet, QuietBut

LEMMA StartTaskWorkStep ==
  ASSUME StoreTypeOK, StoreInv, NEW k \in PlanKeys, NEW run, StartTaskWork(k, run)
  PROVE  /\ StoreInv' /\ Onward /\ QuietBut(k)
         /\ \/ Quiet(task[k], task'[k])
            \/ ~Finished(task'[k]) /\ task'[k].verdict = "pending"
<1>1. CASE UNCHANGED storeVars
  BY <1>1, UnchangedStore DEF AllQuiet, QuietBut
<1>2. CASE ~UNCHANGED storeVars
  <2> DEFINE u == Started(task[k], run)
  <2>1. task[k] \in Task
    BY PlanKeysType
  <2>2. /\ u.deps = task[k].deps /\ u.remediation = task[k].remediation
        /\ u.base = task[k].base /\ u.print = task[k].print /\ u.status = "working"
        /\ u.verdict = "pending"
    BY <2>1 DEF Task, Started
  <2>3. task' = [task EXCEPT ![k] = u] /\ UNCHANGED <<ci, failures, planned>>
        /\ job' = [job EXCEPT !.status = "working"]
    BY <1>2 DEF StartTaskWork
  <2> HIDE DEF u
  <2>4. job'.status = "working" /\ job'.integrationSHA = job.integrationSHA
    BY <2>3 DEF StoreTypeOK, Job
  <2>5. Fixed(task[k], u) /\ Sane(u)
    BY <2>2 DEF Fixed, Sane, ApprovedStatuses
  <2> QED BY <2>2, <2>3, <2>4, <2>5, OneTaskStep DEF Finished
<1> QED BY <1>1, <1>2

LEMMA RecordWriterCompletionStep ==
  ASSUME StoreTypeOK, StoreInv, NEW k \in PlanKeys, NEW run, NEW sha,
         RecordWriterCompletion(k, run, sha)
  PROVE  StoreInv' /\ Onward /\ AllQuiet
<1>1. CASE UNCHANGED storeVars
  BY <1>1, UnchangedStore
<1>2. CASE ~UNCHANGED storeVars
  <2> DEFINE u == [task[k] EXCEPT !.status = "reviewing", !.commit = sha,
                                  !.verdict = "pending"]
  <2>1. task[k] \in Task
    BY PlanKeysType
  <2>2. /\ u.deps = task[k].deps /\ u.remediation = task[k].remediation
        /\ u.base = task[k].base /\ u.print = task[k].print /\ u.status = "reviewing"
        /\ u.verdict = "pending"
    BY <2>1 DEF Task
  <2>3. task' = [task EXCEPT ![k] = u] /\ UNCHANGED <<ci, failures, planned>>
        /\ job' = [job EXCEPT !.status = "reviewing"] /\ task[k].status = "working"
    BY <1>2 DEF RecordWriterCompletion
  <2> HIDE DEF u
  <2>4. job'.status = "reviewing" /\ job'.integrationSHA = job.integrationSHA
    BY <2>3 DEF StoreTypeOK, Job
  <2>5. Fixed(task[k], u) /\ Sane(u) /\ Quiet(task[k], u)
    BY <2>2, <2>3 DEF Fixed, Sane, ApprovedStatuses, Quiet, Begun, Finished
  <2>6. StoreInv' /\ Onward /\ QuietBut(k) /\ task'[k] = u
    BY <2>2, <2>3, <2>4, <2>5, OneTaskStep
  <2> QED BY <2>5, <2>6 DEF AllQuiet, QuietBut
<1> QED BY <1>1, <1>2

LEMMA RecordNoChangesStep ==
  ASSUME StoreTypeOK, StoreInv, NEW k \in PlanKeys, NEW run, RecordNoChanges(k, run)
  PROVE  /\ StoreInv' /\ Onward /\ QuietBut(k)
         /\ \/ Quiet(task[k], task'[k])
            \/ /\ task[k].status = "working" /\ task'[k].verdict = task[k].verdict
               /\ task'[k].reviewerRun = task[k].reviewerRun
<1>1. CASE UNCHANGED storeVars
  BY <1>1, UnchangedStore DEF AllQuiet, QuietBut
<1>2. CASE ~UNCHANGED storeVars
  <2> DEFINE u == [task[k] EXCEPT !.status = "no_changes"]
  <2>1. task[k] \in Task /\ task \in [Keys -> Task] /\ PlanKeys \subseteq Keys
    BY PlanKeysType DEF StoreTypeOK
  <2>2. /\ u.deps = task[k].deps /\ u.remediation = task[k].remediation
        /\ u.base = task[k].base /\ u.print = task[k].print /\ u.status = "no_changes"
        /\ u.verdict = task[k].verdict /\ u.reviewerRun = task[k].reviewerRun
    BY <2>1 DEF Task
  <2>3. /\ task' = [task EXCEPT ![k] = u] /\ UNCHANGED <<ci, failures, planned>>
        /\ task[k].status = "working"
        /\ job' = IF ~AllTasksIntegrated(task') THEN job
                  ELSE [job EXCEPT !.status =
                          IF HasIntegratedTask(task') THEN "holistic_reviewing"
                          ELSE "no_changes"]
    BY <1>2 DEF RecordNoChanges
  <2> HIDE DEF u
  <2>4. HasIntegratedTask(task') => HasIntegratedTask(task)
    <3>1. \A j \in PlanKeys : task'[j] = IF j = k THEN u ELSE task[j]
      BY <2>1, <2>3
    <3> QED BY <3>1, <2>2 DEF HasIntegratedTask
  <2>5. /\ job'.integrationSHA = job.integrationSHA
        /\ \/ job'.status = job.status \/ job'.status = "no_changes"
           \/ job'.status = "holistic_reviewing" /\ HasIntegratedTask(task)
    BY <2>3, <2>4 DEF StoreTypeOK, Job
  <2>6. Fixed(task[k], u) /\ Sane(u)
    BY <2>2 DEF Fixed, Sane, ApprovedStatuses
  <2>7. StoreInv' /\ Onward /\ QuietBut(k) /\ task'[k] = u
    BY <2>2, <2>3, <2>5, <2>6, OneTaskStep
  <2> QED BY <2>2, <2>3, <2>7
<1> QED BY <1>1, <1>2

LEMMA RetryWriterStep ==
  ASSUME StoreTypeOK, StoreInv, NEW k \in PlanKeys, NEW run, RetryWriter(k, run)
  PROVE  StoreInv' /\ Onward /\ AllQuiet /\ task[k].status = "working"
<1> DEFINE u == [task[k] EXCEPT !.writerRun = NoRun, !.status = "planned"]
<1>1. task[k] \in Task
  BY PlanKeysType
<1>2. /\ u.deps = task[k].deps /\ u.remediation = task[k].remediation
      /\ u.base = task[k].base /\ u.print = task[k].print /\ u.status = "planned"
      /\ u.verdict = task[k].verdict /\ u.reviewerRun = task[k].reviewerRun
  BY <1>1 DEF Task
<1>3. /\ task' = [task EXCEPT ![k] = u] /\ UNCHANGED <<ci, failures, planned>>
      /\ job' = [job EXCEPT !.status = "planned"] /\ task[k].status = "working"
  BY DEF RetryWriter
<1> HIDE DEF u
<1>4. job'.status = "planned" /\ job'.integrationSHA = job.integrationSHA
  BY <1>3 DEF StoreTypeOK, Job
<1>5. Fixed(task[k], u) /\ Sane(u) /\ Quiet(task[k], u)
  BY <1>2, <1>3 DEF Fixed, Sane, ApprovedStatuses, Quiet, Begun, Finished
<1>6. StoreInv' /\ Onward /\ QuietBut(k) /\ task'[k] = u
  BY <1>2, <1>3, <1>4, <1>5, OneTaskStep
<1> QED BY <1>3, <1>5, <1>6 DEF AllQuiet, QuietBut

LEMMA BlockTaskStep ==
  ASSUME StoreTypeOK, StoreInv, NEW k \in PlanKeys, BlockTask(k)
  PROVE  StoreInv' /\ Onward /\ AllQuiet
<1> DEFINE u == IF task[k].status = "blocked" THEN task[k]
                ELSE [task[k] EXCEPT !.status = "blocked", !.print = NoPrint]
<1>1. task[k] \in Task /\ task \in [Keys -> Task] /\ PlanKeys \subseteq Keys
      /\ IsFiniteSet(PlanKeys) /\ planned \in Nat
  BY PlanKeysType DEF StoreTypeOK
<1>2. /\ u.deps = task[k].deps /\ u.remediation = task[k].remediation
      /\ u.base = task[k].base /\ u.status = "blocked"
      /\ u.verdict = task[k].verdict /\ u.reviewerRun = task[k].reviewerRun
      /\ u.print \in {task[k].print, NoPrint}
  BY <1>1 DEF Task
<1>3. task' = [task EXCEPT ![k] = u] /\ UNCHANGED <<job, ci, failures, planned>>
  BY DEF BlockTask
<1> HIDE DEF u
<1>4. \A j \in PlanKeys : task'[j] = IF j = k THEN u ELSE task[j]
  BY <1>1, <1>3
<1>5. PlanKeys' = PlanKeys
  BY <1>3 DEF PlanKeys
<1>6. \A j \in PlanKeys : /\ Fixed(task[j], task'[j]) /\ Sane(task'[j])
                          /\ Quiet(task[j], task'[j])
  BY <1>2, <1>4 DEF Fixed, Sane, ApprovedStatuses, Quiet, Begun, Finished, StoreInv
<1>7. HeadKnown'
  <2>1. HasIntegratedTask(task)' => HasIntegratedTask(task)
    BY <1>2, <1>4, <1>5 DEF HasIntegratedTask
  <2> QED BY <1>3, <2>1 DEF HeadKnown, StoreInv
<1>8. \A print \in Prints : RepairsCounted(print)'
  <2> TAKE print \in Prints
  <2>1. RepairsCounted(print) /\ print # NoPrint
    BY StoreAssumption DEF StoreInv
  <2>2. IsFiniteSet(Repairs(print))
    BY <1>1, FS_Subset DEF Repairs
  <2>3. CASE u.print = task[k].print
    <3>1. Repairs(print)' = Repairs(print) /\ RemediationFor(print)' = RemediationFor(print)
      BY <1>2, <1>3, <1>4, <1>5, <2>3 DEF Repairs, RemediationFor
    <3> QED BY <1>3, <2>1, <3>1 DEF RepairsCounted
  <2>4. CASE u.print # task[k].print
    <3>1. Repairs(print)' = Repairs(print) \ {k}
      BY <1>2, <1>4, <1>5, <2>1, <2>4 DEF Repairs
    <3>2. CASE k \in Repairs(print)
      <4>1. /\ Cardinality(Repairs(print)') = Cardinality(Repairs(print)) - 1
            /\ Cardinality(Repairs(print)) \in Nat
        BY <2>2, <3>1, <3>2, FS_RemoveElement, FS_CardinalityType
      <4>2. failures[print] \in Nat
        BY DEF StoreTypeOK
      <4> QED BY <1>3, <2>1, <4>1, <4>2 DEF RepairsCounted
    <3>3. CASE k \notin Repairs(print)
      <4>1. Repairs(print)' = Repairs(print)
        BY <3>1, <3>3
      <4>2. RemediationFor(print)' = RemediationFor(print)
        BY <1>2, <1>3, <1>4, <1>5, <2>1, <2>4, <3>3 DEF Repairs, RemediationFor
      <4> QED BY <1>3, <2>1, <4>1, <4>2 DEF RepairsCounted
    <3> QED BY <3>2, <3>3
  <2> QED BY <2>3, <2>4
<1>9. \A j \in PlanKeys' : task'[j].remediation => task'[j].base # NoSHA
  BY <1>5, <1>6 DEF StoreInv, Fixed
<1> QED BY <1>1, <1>3, <1>5, <1>6, <1>7, <1>8, <1>9 DEF StoreInv, Onward, AllQuiet

----------------------------------------------------------------------------
(* Task review. *)

LEMMA OwnStep ==
  ASSUME NEW t \in Task, t.verdict = "pending", NEW run
  PROVE  /\ Own(t, run).deps = t.deps /\ Own(t, run).remediation = t.remediation
         /\ Own(t, run).base = t.base /\ Own(t, run).print = t.print
         /\ Own(t, run).status = t.status /\ Own(t, run).verdict = "pending"
         /\ Own(t, run).history = t.history
BY DEF Own, Task

LEMMA StartReviewerStep ==
  ASSUME StoreTypeOK, StoreInv, NEW k \in PlanKeys, NEW run, StartReviewer(k, run)
  PROVE  StoreInv' /\ Onward /\ AllQuiet
<1>1. CASE UNCHANGED storeVars
  BY <1>1, UnchangedStore
<1>2. CASE ~UNCHANGED storeVars
  <2> DEFINE u == Own(task[k], run)
  <2>1. task[k] \in Task /\ task[k].verdict = "pending" /\ task[k].status = "reviewing"
    BY PlanKeysType DEF StoreInv, Sane, StartReviewer
  <2>2. /\ u.deps = task[k].deps /\ u.remediation = task[k].remediation
        /\ u.base = task[k].base /\ u.print = task[k].print /\ u.status = "reviewing"
        /\ u.verdict = "pending"
    BY <2>1, OwnStep
  <2>3. task' = [task EXCEPT ![k] = u] /\ UNCHANGED <<job, ci, failures, planned>>
    BY <1>2 DEF StartReviewer
  <2> HIDE DEF u
  <2>4. Fixed(task[k], u) /\ Sane(u) /\ Quiet(task[k], u)
    BY <2>1, <2>2 DEF Fixed, Sane, ApprovedStatuses, Quiet, Begun, Finished
  <2>5. StoreInv' /\ Onward /\ QuietBut(k) /\ task'[k] = u
    BY <2>2, <2>3, <2>4, OneTaskStep
  <2> QED BY <2>4, <2>5 DEF AllQuiet, QuietBut
<1> QED BY <1>1, <1>2

LEMMA RecordReviewReportStep ==
  ASSUME StoreTypeOK, StoreInv, NEW k \in PlanKeys, NEW run, NEW verdict, NEW feedback,
         RecordReviewReport(k, run, verdict, feedback)
  PROVE  StoreInv' /\ Onward /\ AllQuiet
<1> DEFINE report == [run |-> run, verdict |-> verdict, feedback |-> feedback,
                      commit |-> task[k].commit]
           a == Adopt(task[k], run)
           u == File(a, report)
<1>1. task[k] \in Task /\ Sane(task[k])
  BY PlanKeysType DEF StoreInv
<1>2. /\ a.deps = task[k].deps /\ a.remediation = task[k].remediation
      /\ a.base = task[k].base /\ a.print = task[k].print /\ a.status = task[k].status
      /\ a.verdict = task[k].verdict
      /\ a.verdict # "pending" => a.reviewerRun = task[k].reviewerRun
  BY <1>1, OwnStep DEF Adopt, Sane
<1>3. /\ u.deps = a.deps /\ u.remediation = a.remediation
      /\ u.base = a.base /\ u.print = a.print /\ u.status = a.status
      /\ u.verdict = a.verdict /\ u.reviewerRun = a.reviewerRun
  BY <1>1 DEF File, Adopt, Own, Task
<1>4. task' = [task EXCEPT ![k] = u] /\ UNCHANGED <<job, ci, failures, planned>>
  BY DEF RecordReviewReport
<1> HIDE DEF u, a
<1>5. Fixed(task[k], u) /\ Sane(u) /\ Quiet(task[k], u)
  BY <1>1, <1>2, <1>3 DEF Fixed, Sane, Quiet, Begun, Finished
<1>6. StoreInv' /\ Onward /\ QuietBut(k) /\ task'[k] = u
  BY <1>2, <1>3, <1>4, <1>5, OneTaskStep
<1> QED BY <1>5, <1>6 DEF AllQuiet, QuietBut

\* The verdict of a review is the one of the run that gives it.
LEMMA RecordReviewStep ==
  ASSUME StoreTypeOK, StoreInv, NEW k \in PlanKeys, NEW run \in Runs,
         NEW verdict \in Verdicts, RecordReview(k, run, verdict)
  PROVE  /\ StoreInv' /\ Onward /\ QuietBut(k)
         /\ task'[k].verdict = verdict /\ task'[k].reviewerRun = run
         /\ Begun(task[k])
         /\ Finished(task'[k]) => Finished(task[k])
<1>1. CASE task[k].status # "reviewing"
  <2>1. /\ UNCHANGED storeVars
        /\ task[k].verdict = verdict /\ task[k].reviewerRun = run
    BY <1>1 DEF RecordReview
  <2> QED BY <2>1, UnchangedStore DEF AllQuiet, QuietBut, Begun, Verdicts, storeVars
<1>2. CASE task[k].status = "reviewing"
  <2> DEFINE a == Adopt(task[k], run)
             o == IF a.reviewerRun = NoRun THEN Own(a, run) ELSE a
             u == [o EXCEPT !.verdict = verdict, !.status = ReviewedStatus(k, verdict)]
  <2>1. task[k] \in Task /\ Sane(task[k]) /\ task[k].status = "reviewing"
    BY <1>2, PlanKeysType DEF StoreInv, RecordReview
  <2>2. /\ task' = [task EXCEPT ![k] = u] /\ o.reviewerRun = run
        /\ UNCHANGED <<job, ci, failures, planned>>
    BY <1>2 DEF RecordReview
  <2>3. /\ u.deps = task[k].deps /\ u.remediation = task[k].remediation
        /\ u.base = task[k].base /\ u.print = task[k].print
        /\ u.verdict = verdict /\ u.status = ReviewedStatus(k, verdict)
        /\ u.reviewerRun = o.reviewerRun
    BY <2>1 DEF Adopt, Own, Task
  <2> HIDE DEF u, o, a
  <2>4. /\ u.status \in {"changes_requested", "blocked", "approved", "integration_eligible"}
        /\ u.status \in ApprovedStatuses => verdict = "approved"
    BY <2>3 DEF ReviewedStatus, Verdicts, ApprovedStatuses
  <2>5. Fixed(task[k], u) /\ Sane(u) /\ ~Finished(u) /\ u.status # "integrated"
    BY <2>3, <2>4 DEF Fixed, Sane, ApprovedStatuses, Finished
  <2>6. StoreInv' /\ Onward /\ QuietBut(k) /\ task'[k] = u
    BY <2>2, <2>3, <2>5, OneTaskStep
  <2> QED BY <2>1, <2>2, <2>3, <2>5, <2>6 DEF Begun
<1> QED BY <1>1, <1>2

----------------------------------------------------------------------------
(* Integration. *)

\* Only approved work is integrated.
LEMMA StartIntegrationStep ==
  ASSUME StoreTypeOK, StoreInv, NEW k \in PlanKeys, StartIntegration(k)
  PROVE  StoreInv' /\ Onward /\ AllQuiet /\ task[k].verdict = "approved" /\ Begun(task[k])
<1> DEFINE u == [task[k] EXCEPT !.status = "integrating"]
<1>1. task[k] \in Task /\ task[k].verdict = "approved"
  BY PlanKeysType DEF StoreInv, Sane, ApprovedStatuses, StartIntegration
<1>2. /\ u.deps = task[k].deps /\ u.remediation = task[k].remediation
      /\ u.base = task[k].base /\ u.print = task[k].print /\ u.status = "integrating"
      /\ u.verdict = task[k].verdict /\ u.reviewerRun = task[k].reviewerRun
  BY <1>1 DEF Task
<1>3. /\ task' = [task EXCEPT ![k] = u] /\ UNCHANGED <<ci, failures, planned>>
      /\ job' = [job EXCEPT !.status = "integrating"]
      /\ task[k].status = "integration_eligible"
  BY DEF StartIntegration
<1> HIDE DEF u
<1>4. job'.status = "integrating" /\ job'.integrationSHA = job.integrationSHA
  BY <1>3 DEF StoreTypeOK, Job
<1>5. Fixed(task[k], u) /\ Sane(u) /\ Quiet(task[k], u)
  BY <1>1, <1>2, <1>3 DEF Fixed, Sane, ApprovedStatuses, Quiet, Begun, Finished
<1>6. StoreInv' /\ Onward /\ QuietBut(k) /\ task'[k] = u
  BY <1>2, <1>3, <1>4, <1>5, OneTaskStep
<1> QED BY <1>1, <1>3, <1>5, <1>6 DEF AllQuiet, QuietBut, Begun

LEMMA RecordIntegrationStep ==
  ASSUME StoreTypeOK, StoreInv, NEW k \in PlanKeys, NEW sha \in SHAs,
         RecordIntegration(k, sha)
  PROVE  /\ StoreInv' /\ Onward /\ QuietBut(k)
         /\ Begun(task[k]) /\ job'.integrationSHA = sha
         /\ task'[k].verdict = task[k].verdict
         /\ task'[k].reviewerRun = task[k].reviewerRun
<1> DEFINE merged(j) == IF j = k THEN [task[k] EXCEPT !.status = "integrated"] ELSE task[j]
<1>1. /\ task \in [Keys -> Task] /\ PlanKeys \subseteq Keys
      /\ \A j \in PlanKeys : task[j] \in Task /\ Sane(task[j])
  BY PlanKeysType DEF StoreTypeOK, StoreInv
<1>2. \A j \in PlanKeys : \/ task'[j] = merged(j)
                          \/ /\ task'[j] = [merged(j) EXCEPT !.status = "integration_eligible"]
                             /\ merged(j).status = "approved"
  BY <1>1 DEF RecordIntegration
<1>3. task[k].status = "integrating" /\ UNCHANGED <<ci, failures, planned>>
  BY DEF RecordIntegration
<1>4. \A j \in PlanKeys :
         /\ Fixed(task[j], task'[j]) /\ task'[j].print = task[j].print
         /\ task'[j].verdict = task[j].verdict /\ task'[j].reviewerRun = task[j].reviewerRun
         /\ \/ task'[j].status = task[j].status /\ j # k
            \/ /\ task'[j].status = "integration_eligible"
               /\ task[j].status = "approved" /\ j # k
            \/ task'[j].status = "integrated" /\ j = k
  <2> TAKE j \in PlanKeys
  <2> DEFINE m == merged(j)
  <2>1. /\ m \in Task
        /\ m.deps = task[j].deps /\ m.remediation = task[j].remediation
        /\ m.base = task[j].base /\ m.print = task[j].print
        /\ m.verdict = task[j].verdict /\ m.reviewerRun = task[j].reviewerRun
        /\ m.status = IF j = k THEN "integrated" ELSE task[j].status
    BY <1>1 DEF Task, TaskStatuses
  <2>2. \/ task'[j] = m
        \/ task'[j] = [m EXCEPT !.status = "integration_eligible"] /\ m.status = "approved"
    BY <1>2
  <2> HIDE DEF m
  <2>3. CASE task'[j] = m
    BY <2>1, <2>3 DEF Fixed
  <2>4. CASE task'[j] = [m EXCEPT !.status = "integration_eligible"] /\ m.status = "approved"
    <3>1. /\ task'[j].deps = m.deps /\ task'[j].remediation = m.remediation
          /\ task'[j].base = m.base /\ task'[j].print = m.print
          /\ task'[j].verdict = m.verdict /\ task'[j].reviewerRun = m.reviewerRun
          /\ task'[j].status = "integration_eligible"
      BY <2>1, <2>4 DEF Task
    <3> QED BY <2>1, <2>4, <3>1 DEF Fixed
  <2> QED BY <2>2, <2>3, <2>4
<1>5. \A j \in PlanKeys : Sane(task'[j])
  <2>1. task[k].verdict = "approved"
    BY <1>1, <1>3 DEF Sane, ApprovedStatuses
  <2> QED BY <1>1, <1>4, <2>1 DEF Sane, ApprovedStatuses
<1>6. QuietBut(k)
  BY <1>4 DEF QuietBut, Quiet, Begun, Finished
<1>7. job'.integrationSHA = sha /\ sha # NoSHA
  BY DEF RecordIntegration, StoreTypeOK, Job, SHAs, NoSHA
<1>8. HeadKnown'
  <2>1. job'.status # "awaiting_ci" \/ job.status = "awaiting_ci"
    BY DEF RecordIntegration, StoreTypeOK, Job
  <2> QED BY <1>3, <1>7, <2>1 DEF HeadKnown, StoreInv
<1> QED BY <1>3, <1>4, <1>5, <1>6, <1>7, <1>8, TasksStep DEF Begun

----------------------------------------------------------------------------
(* Holistic review, publication and failure. *)

LEMMA StartHolisticReviewerStep ==
  ASSUME StoreTypeOK, StoreInv, NEW run, NEW sha, StartHolisticReviewer(run, sha)
  PROVE  StoreInv' /\ Onward /\ AllQuiet
<1>1. job'.status = job.status /\ job'.integrationSHA = job.integrationSHA
  BY DEF StartHolisticReviewer, StoreTypeOK, Job
<1> QED BY <1>1, JobStep DEF StartHolisticReviewer

LEMMA RecordHolisticReviewStep ==
  ASSUME StoreTypeOK, StoreInv, NEW run, NEW sha, NEW verdict, NEW content,
         RecordHolisticReview(run, sha, verdict, content)
  PROVE  StoreInv' /\ Onward /\ AllQuiet
<1>1. CASE UNCHANGED storeVars
  BY <1>1, UnchangedStore
<1>2. CASE ~UNCHANGED storeVars
  <2>1. /\ job'.status \in {job.status, "ready_to_publish"}
        /\ job'.integrationSHA = job.integrationSHA
        /\ UNCHANGED <<ci, failures, planned, task>>
    BY <1>2 DEF RecordHolisticReview, StoreTypeOK, Job
  <2> QED BY <2>1, JobStep
<1> QED BY <1>1, <1>2

LEMMA StartHolisticRereviewStep ==
  ASSUME StoreTypeOK, StoreInv, NEW sha \in SHAs, StartHolisticRereview(sha)
  PROVE  StoreInv' /\ Onward /\ AllQuiet
<1>1. CASE UNCHANGED storeVars
  BY <1>1, UnchangedStore
<1>2. CASE ~UNCHANGED storeVars
  <2>1. /\ job'.status = "holistic_reviewing"
        /\ job'.integrationSHA = sha
        /\ UNCHANGED <<ci, failures, planned, task>>
    BY <1>2 DEF StartHolisticRereview, StoreTypeOK, Job
  <2>2. sha # NoSHA
    BY DEF SHAs, NoSHA
  <2> QED BY <2>1, <2>2, JobStep
<1> QED BY <1>1, <1>2

LEMMA RecordPullRequestStep ==
  ASSUME StoreTypeOK, StoreInv, RecordPullRequest
  PROVE  StoreInv' /\ Onward /\ AllQuiet
<1>1. /\ job'.status = job.status /\ job'.integrationSHA = job.integrationSHA
      /\ UNCHANGED <<ci, failures, planned, task>>
  BY DEF RecordPullRequest, StoreTypeOK, Job, storeVars
<1> QED BY <1>1, JobStep

LEMMA RecordMergeStep ==
  ASSUME StoreTypeOK, StoreInv, RecordMerge
  PROVE  StoreInv' /\ Onward /\ AllQuiet
<1>1. /\ job'.status \in {job.status, "published"}
      /\ job'.integrationSHA = job.integrationSHA
      /\ UNCHANGED <<ci, failures, planned, task>>
  BY DEF RecordMerge, StoreTypeOK, Job, storeVars
<1> QED BY <1>1, JobStep

LEMMA FailJobStep ==
  ASSUME StoreTypeOK, StoreInv, FailJob
  PROVE  StoreInv' /\ Onward /\ AllQuiet
<1>1. job'.status = "failed" /\ job'.integrationSHA = job.integrationSHA
  BY DEF FailJob, StoreTypeOK, Job
<1> QED BY <1>1, JobStep DEF FailJob

----------------------------------------------------------------------------
(* Continuous integration. *)

LEMMA SamePlan ==
  ASSUME StoreTypeOK, StoreInv, UNCHANGED <<planned, task>>,
         job.integrationSHA = job'.integrationSHA
  PROVE  /\ Onward /\ AllQuiet
         /\ PlanKeys' = PlanKeys
         /\ HasIntegratedTask(task)' = HasIntegratedTask(task)
         /\ \A print : Repairs(print)' = Repairs(print)
         /\ \A k \in PlanKeys' : Sane(task'[k])
                                 /\ (task'[k].remediation => task'[k].base # NoSHA)
<1>1. PlanKeys' = PlanKeys /\ planned \in Nat
  BY DEF PlanKeys, StoreTypeOK
<1> QED BY <1>1 DEF Onward, AllQuiet, Fixed, Quiet, HasIntegratedTask, Repairs, StoreInv

LEMMA StartCIStep ==
  ASSUME StoreTypeOK, StoreInv, NEW sha \in SHAs, StartCI(sha)
  PROVE  StoreInv' /\ Onward /\ AllQuiet
<1>1. CASE UNCHANGED storeVars
  BY <1>1, UnchangedStore
<1>2. CASE ~UNCHANGED storeVars
  <2>1. /\ job'.status = "awaiting_ci" /\ job'.integrationSHA = job.integrationSHA
        /\ ci'.head = sha /\ ci'.state = "pending" /\ UNCHANGED <<failures, planned, task>>
        /\ job.status \in {"holistic_reviewing", "awaiting_ci"} /\ sha # NoSHA
    BY <1>2 DEF StartCI, StoreTypeOK, Job, SHAs, NoSHA
  <2>2. HeadKnown'
    BY <2>1 DEF HeadKnown, StoreInv
  <2>3. \A print \in Prints : RepairsCounted(print)'
    BY <2>1, SamePlan DEF RepairsCounted, StoreInv
  <2> QED BY <2>1, <2>2, <2>3, SamePlan DEF StoreInv
<1> QED BY <1>1, <1>2

LEMMA RecordCIStep ==
  ASSUME StoreTypeOK, StoreInv, NEW sha \in SHAs, NEW state \in CIStates, NEW print,
         RecordCI(sha, state, print)
  PROVE  StoreInv' /\ Onward /\ AllQuiet
<1>1. CASE UNCHANGED storeVars
  BY <1>1, UnchangedStore
<1>2. CASE ~UNCHANGED storeVars
  <2>0. sha # NoSHA
    BY DEF SHAs, NoSHA
  <2>1. /\ ci.head = sha
        /\ ci'.head = sha /\ ci'.state = state /\ ci'.print = print
        /\ failures' = IF state = "failed" /\ print # NoPrint
                       THEN [failures EXCEPT ![print] = @ + 1] ELSE failures
        /\ UNCHANGED <<planned, task>>
    BY <1>2 DEF RecordCI, StoreTypeOK, CI
  <2>2. /\ job'.integrationSHA = job.integrationSHA
        /\ job'.status \in {job.status, "holistic_reviewing", "failed"}
    BY <1>2 DEF RecordCI, CIStatus, CIStates, StoreTypeOK, Job
  <2>3. HeadKnown'
    BY <2>0, <2>1, <2>2, SamePlan DEF HeadKnown, StoreInv
  <2>4. \A p \in Prints : RepairsCounted(p)'
    <3> TAKE p \in Prints
    <3>1. RepairsCounted(p) /\ failures[p] \in Nat /\ p # NoPrint /\ DOMAIN failures = Prints
      BY StoreAssumption DEF StoreInv, StoreTypeOK
    <3>2. Repairs(p)' = Repairs(p)
      BY <2>1, <2>2, SamePlan
    <3>3. Cardinality(Repairs(p)) \in Nat
      BY PlanKeysType, FS_Subset, FS_CardinalityType DEF Repairs
    <3>4. CASE state = "failed" /\ print = p
      <4>1. failures'[p] = failures[p] + 1
        BY <2>1, <3>1, <3>4
      <4> QED BY <3>1, <3>2, <3>3, <4>1 DEF RepairsCounted
    <3>5. CASE ~(state = "failed" /\ print = p)
      <4>1. failures'[p] = failures[p]
        BY <2>1, <3>1, <3>5
      <4> QED BY <2>1, <3>1, <3>2, <3>5, <4>1 DEF RepairsCounted
    <3> QED BY <3>4, <3>5
  <2> QED BY <2>1, <2>2, <2>3, <2>4, SamePlan DEF StoreInv
<1> QED BY <1>1, <1>2

\* A remediation task is added: the record it answers had no repair yet.
LEMMA StartCIRemediationStep ==
  ASSUME StoreTypeOK, StoreInv, NEW print \in Prints, StartCIRemediation(print)
  PROVE  StoreInv' /\ Onward /\ AllQuiet
<1>1. CASE UNCHANGED storeVars
  BY <1>1, UnchangedStore
<1>2. CASE FailJob
  BY <1>2, FailJobStep
<1>3. CASE ~UNCHANGED storeVars /\ ~FailJob
  <2> DEFINE n == planned + 1
  <2>1. /\ failures[print] < SameFailures /\ RemediationFor(print) = {}
        /\ planned < MaxTasks /\ planned' = n
        /\ task' = [task EXCEPT ![n] = Remediation(ci.head, print)]
        /\ job' = Remediating /\ UNCHANGED <<ci, failures>>
        /\ ci.state = "failed" /\ ci.print = print
    BY <1>3 DEF StartCIRemediation
  <2>2. /\ planned \in Nat /\ MaxTasks \in Nat /\ n \in Keys /\ n \notin PlanKeys
        /\ PlanKeys' = PlanKeys \union {n} /\ PlanKeys \subseteq Keys
        /\ task \in [Keys -> Task] /\ IsFiniteSet(PlanKeys)
    BY <2>1, StoreAssumption, PlanKeysType DEF PlanKeys, Keys, StoreTypeOK
  <2>3. /\ task'[n] = Remediation(ci.head, print)
        /\ \A j \in PlanKeys : task'[j] = task[j]
    BY <2>1, <2>2
  <2>4. ci.head # NoSHA
    BY <2>1 DEF StoreInv, HeadKnown
  <2>5. /\ task'[n].status = "planned" /\ task'[n].verdict = "pending"
        /\ task'[n].deps = {} /\ task'[n].remediation = TRUE
        /\ task'[n].base = ci.head /\ task'[n].print = print
    BY <2>3 DEF Remediation, NewTask, NoTask
  <2>6. /\ job'.status = "ci_remediating" /\ job'.integrationSHA = job.integrationSHA
    BY <2>1 DEF Remediating, StoreTypeOK, Job
  <2>7. HeadKnown'
    BY <2>1, <2>4, <2>6 DEF HeadKnown, StoreInv
  <2>8. \A p \in Prints : RepairsCounted(p)'
    <3> TAKE p \in Prints
    <3>1. RepairsCounted(p) /\ failures[p] \in Nat
      BY DEF StoreInv, StoreTypeOK
    <3>2. CASE p # print
      <4>1. Repairs(p)' = Repairs(p)
        BY <2>2, <2>3, <2>5, <3>2 DEF Repairs
      <4> QED BY <2>1, <3>1, <3>2, <4>1 DEF RepairsCounted
    <3>3. CASE p = print
      <4>1. IsFiniteSet(Repairs(p)) /\ n \notin Repairs(p)
        BY <2>2, FS_Subset DEF Repairs
      <4>2. Repairs(p)' = Repairs(p) \union {n}
        BY <2>2, <2>3, <2>5, <3>3 DEF Repairs
      <4>3. /\ Cardinality(Repairs(p)') = Cardinality(Repairs(p)) + 1
            /\ Cardinality(Repairs(p)) \in Nat
        BY <4>1, <4>2, FS_AddElement, FS_CardinalityType
      <4>4. Cardinality(Repairs(p)) < failures[p] /\ failures[p] < 3
        BY <2>1, <3>1, <3>3 DEF RepairsCounted, SameFailures
      <4>5. RemediationFor(p)' # {}
        <5>1. n \in RemediationFor(p)'
          BY <2>1, <2>2, <2>5, <3>3 DEF RemediationFor
        <5> QED BY <5>1
      <4> QED BY <2>1, <3>1, <4>3, <4>4, <4>5 DEF RepairsCounted
    <3> QED BY <3>2, <3>3
  <2>9. \A k \in PlanKeys' : Sane(task'[k]) /\ (task'[k].remediation => task'[k].base # NoSHA)
    BY <2>2, <2>3, <2>4, <2>5 DEF Sane, ApprovedStatuses, StoreInv
  <2>10. Onward
    <3>1. \A k \in PlanKeys' \ PlanKeys : k = n
      BY <2>2
    <3> QED BY <2>1, <2>2, <2>3, <2>5, <2>6, <3>1 DEF Onward, Fixed
  <2>11. AllQuiet
    BY <2>3 DEF AllQuiet, Quiet
  <2> QED BY <2>7, <2>8, <2>9, <2>10, <2>11 DEF StoreInv
<1> QED BY <1>1, <1>2, <1>3

----------------------------------------------------------------------------
(* Every operation called with arguments of its types is a step of JobStore, *)
(* so that what JobStoreProofs says of its steps can be cited.               *)

Store == INSTANCE JobStoreProofs

LEMMA StoreTypeStep == StoreTypeOK /\ [Store!Next]_storeVars => StoreTypeOK'
<1>1. Store!StoreAssumption
  BY StoreAssumption DEF Store!StoreAssumption
<1>2. Store!TypeOK <=> StoreTypeOK
  BY DEF Store!TypeOK, Store!StoreTypeOK, StoreTypeOK, Job, Store!Job, CI,
       Store!CI, Task, Store!Task, SHAs, Store!SHAs, NoSHA, Store!NoSHA, Keys,
       Store!Keys, JobStatuses, Store!JobStatuses, TaskStatuses,
       Store!TaskStatuses, Verdicts, Store!Verdicts, MergeStates,
       Store!MergeStates, CIStates, Store!CIStates, Report, Store!Report
<1>3. (Store!TypeOK <=> StoreTypeOK)'
  BY DEF Store!TypeOK, Store!StoreTypeOK, StoreTypeOK, Job, Store!Job, CI,
       Store!CI, Task, Store!Task, SHAs, Store!SHAs, NoSHA, Store!NoSHA, Keys,
       Store!Keys, JobStatuses, Store!JobStatuses, TaskStatuses,
       Store!TaskStatuses, Verdicts, Store!Verdicts, MergeStates,
       Store!MergeStates, CIStates, Store!CIStates, Report, Store!Report
<1> QED BY <1>1, <1>2, <1>3, Store!NextTypeOK DEF Store!NextTypeOK, Store!storeVars, storeVars

\* What is reviewed or approved has been since the review of that very commit began,
\* and a task that is new in the plan is neither.
LEMMA CommitsPinned ==
  ASSUME StoreTypeOK, [Store!Next]_storeVars, NEW k \in PlanKeys',
         task'[k].status \in ApprovedStatuses \union {"reviewing"}
  PROVE  /\ k \in PlanKeys
         /\ \/ /\ task[k].status \in ApprovedStatuses \union {"reviewing"}
               /\ task'[k].commit = task[k].commit
            \/ task[k].status # "reviewing" /\ task'[k].status = "reviewing"
<1>1. Store!StoreAssumption
  BY StoreAssumption DEF Store!StoreAssumption
<1>2. Store!TypeOK
  BY DEF Store!TypeOK, Store!StoreTypeOK, StoreTypeOK, Job, Store!Job, CI,
       Store!CI, Task, Store!Task, SHAs, Store!SHAs, NoSHA, Store!NoSHA, Keys,
       Store!Keys, JobStatuses, Store!JobStatuses, TaskStatuses,
       Store!TaskStatuses, Verdicts, Store!Verdicts, MergeStates,
       Store!MergeStates, CIStates, Store!CIStates, Report, Store!Report
<1>3. /\ Store!AllPinned
      /\ \A j \in Store!PlanKeys' \ Store!PlanKeys : task'[j].status = "planned"
  BY <1>1, <1>2, Store!NextPins, Store!PlanGrows DEF Store!storeVars, storeVars
<1>4. k \in PlanKeys
  BY <1>3 DEF Store!PlanKeys, PlanKeys, ApprovedStatuses
<1>5. Store!Pins(task[k], task'[k])
  BY <1>3, <1>4 DEF Store!AllPinned, Store!PlanKeys, PlanKeys
<1> QED BY <1>4, <1>5 DEF Store!Pins, Store!Submitted, Store!Approved, ApprovedStatuses

LEMMA StoreTypeInit == Create => StoreTypeOK
BY StoreAssumption DEF Create, StoreTypeOK, Job, JobStatuses, MergeStates, NoSHA, NoCI, CI,
   Task, NoTask, TaskStatuses

LEMMA StartPlanningNext == StartPlanning => Store!Next
BY DEF StartPlanning, Store!StartPlanning, Store!Planning, Store!Guarded,
       Store!Next

LEMMA SubmitPlanNext ==
  ASSUME NEW n \in Keys, NEW deps \in [1..n -> SUBSET (1..n)], SubmitPlan(n, deps)
  PROVE  Store!Next
BY DEF SubmitPlan, Store!SubmitPlan, ValidPlan, Store!ValidPlan, Keys,
       Store!Keys, NewTask, Store!NewTask, NoTask, Store!NoTask, NoSHA,
       Store!NoSHA, Store!Planning, Store!Guarded, Store!Next

LEMMA RecordTaskBaseNext ==
  ASSUME NEW k \in PlanKeys, NEW sha \in SHAs, RecordTaskBase(k, sha)
  PROVE  Store!Next
BY DEF RecordTaskBase, Store!RecordTaskBase, PlanKeys, Store!PlanKeys, SHAs,
       Store!SHAs, NoSHA, Store!NoSHA, Store!Writing, Store!Guarded, Store!Next

LEMMA StartTaskWorkNext ==
  ASSUME NEW k \in PlanKeys, NEW run \in Runs, task[k].writerAttempts < MaxAttempts,
         StartTaskWork(k, run)
  PROVE  Store!Next
BY DEF StartTaskWork, Store!StartTaskWork, Started, Store!Started, PlanKeys,
       Store!PlanKeys, storeVars, Store!storeVars, Store!Writing, Store!Guarded,
       Store!Next

LEMMA RecordWriterCompletionNext ==
  ASSUME NEW k \in PlanKeys, NEW run \in Runs, NEW sha \in SHAs,
         RecordWriterCompletion(k, run, sha)
  PROVE  Store!Next
BY DEF RecordWriterCompletion, Store!RecordWriterCompletion, PlanKeys,
       Store!PlanKeys, SHAs, Store!SHAs, storeVars, Store!storeVars,
       Store!Writing, Store!Guarded, Store!Next

LEMMA RecordNoChangesNext ==
  ASSUME NEW k \in PlanKeys, NEW run \in Runs, RecordNoChanges(k, run)
  PROVE  Store!Next
BY DEF RecordNoChanges, Store!RecordNoChanges, PlanKeys, Store!PlanKeys,
       AllTasksIntegrated, Store!AllTasksIntegrated, Finished, Store!Finished,
       HasIntegratedTask, Store!HasIntegratedTask, storeVars, Store!storeVars,
       Store!Writing, Store!Guarded, Store!Next

LEMMA RetryWriterNext ==
  ASSUME NEW k \in PlanKeys, NEW run \in Runs, RetryWriter(k, run)
  PROVE  Store!Next
BY DEF RetryWriter, Store!RetryWriter, PlanKeys, Store!PlanKeys, Store!Writing,
       Store!Guarded, Store!Next

LEMMA BlockTaskNext ==
  ASSUME NEW k \in PlanKeys, BlockTask(k)
  PROVE  Store!Next
BY DEF BlockTask, Store!BlockTask, PlanKeys, Store!PlanKeys, Store!Next

LEMMA StartReviewerNext ==
  ASSUME NEW k \in PlanKeys, NEW run \in Runs, StartReviewer(k, run)
  PROVE  Store!Next
BY DEF StartReviewer, Store!StartReviewer, Own, Store!Own, PlanKeys,
       Store!PlanKeys, storeVars, Store!storeVars, Store!Reviewing,
       Store!Guarded, Store!Next

LEMMA RecordReviewReportNext ==
  ASSUME NEW k \in PlanKeys, NEW run \in Runs, NEW verdict \in Verdicts, NEW feedback \in Feedbacks,
         RecordReviewReport(k, run, verdict, feedback)
  PROVE  Store!Next
<1>1. Store!RecordReviewReport(k, run, verdict, feedback)
  BY DEF RecordReviewReport, Store!RecordReviewReport, Adopt, Store!Adopt, Own,
         Store!Own, File, Store!File
<1>2. k \in Store!PlanKeys /\ verdict \in Store!Verdicts
  BY DEF PlanKeys, Store!PlanKeys, Verdicts, Store!Verdicts
<1> QED BY <1>1, <1>2 DEF Store!Reviewing, Store!Guarded, Store!Next

LEMMA RecordReviewNext ==
  ASSUME NEW k \in PlanKeys, NEW run \in Runs, NEW verdict \in Verdicts,
         RecordReview(k, run, verdict)
  PROVE  Store!Next
BY DEF RecordReview, Store!RecordReview, Adopt, Store!Adopt, Own, Store!Own,
       ReviewedStatus, Store!ReviewedStatus, IntegrationPrerequisitesMet,
       Store!IntegrationPrerequisitesMet, Finished, Store!Finished, PlanKeys,
       Store!PlanKeys, Verdicts, Store!Verdicts, storeVars, Store!storeVars,
       Store!Reviewing, Store!Guarded, Store!Next

LEMMA StartIntegrationNext ==
  ASSUME NEW k \in PlanKeys, StartIntegration(k)
  PROVE  Store!Next
BY DEF StartIntegration, Store!StartIntegration, IntegrationPrerequisitesMet,
       Store!IntegrationPrerequisitesMet, Finished, Store!Finished, PlanKeys,
       Store!PlanKeys, Store!Integrating, Store!Guarded, Store!Next

LEMMA RecordIntegrationNext ==
  ASSUME NEW k \in PlanKeys, NEW sha \in SHAs, RecordIntegration(k, sha)
  PROVE  Store!Next
BY DEF RecordIntegration, Store!RecordIntegration, IntegrationPrerequisitesMet,
       Store!IntegrationPrerequisitesMet, AllTasksIntegrated,
       Store!AllTasksIntegrated, Finished, Store!Finished, PlanKeys,
       Store!PlanKeys, Keys, Store!Keys, SHAs, Store!SHAs, Store!Integrating,
       Store!Guarded, Store!Next

LEMMA StartHolisticReviewerNext ==
  ASSUME NEW run \in Runs, NEW sha \in SHAs, StartHolisticReviewer(run, sha)
  PROVE  Store!Next
BY DEF StartHolisticReviewer, Store!StartHolisticReviewer, PlanKeys,
       Store!PlanKeys, AllTasksIntegrated, Store!AllTasksIntegrated, Finished,
       Store!Finished, SHAs, Store!SHAs, Store!Publishing, Store!Guarded,
       Store!Next

LEMMA RecordHolisticReviewNext ==
  ASSUME NEW run \in Runs, NEW sha \in SHAs, NEW verdict \in Verdicts, NEW content \in BOOLEAN,
         RecordHolisticReview(run, sha, verdict, content)
  PROVE  Store!Next
<1>1. Store!RecordHolisticReview(run, sha, verdict, content)
  BY DEF RecordHolisticReview, Store!RecordHolisticReview, PlanKeys, Store!PlanKeys,
         AllTasksIntegrated, Store!AllTasksIntegrated, Finished, Store!Finished,
         storeVars, Store!storeVars
<1>2. run \in Runs /\ sha \in Store!SHAs /\ verdict \in Store!Verdicts
  BY DEF SHAs, Store!SHAs, Verdicts, Store!Verdicts
<1> QED BY <1>1, <1>2 DEF Store!Publishing, Store!Guarded, Store!Next

LEMMA StartHolisticRereviewNext ==
  ASSUME NEW sha \in SHAs, StartHolisticRereview(sha)
  PROVE  Store!Next
BY DEF StartHolisticRereview, Store!StartHolisticRereview, SHAs, Store!SHAs,
       NoSHA, Store!NoSHA, storeVars, Store!storeVars, Store!Publishing,
       Store!Guarded, Store!Next

LEMMA RecordPullRequestNext == RecordPullRequest => Store!Next
BY DEF RecordPullRequest, Store!RecordPullRequest, storeVars, Store!storeVars,
       Store!Publishing, Store!Guarded, Store!Next

LEMMA RecordMergeNext == RecordMerge => Store!Next
BY DEF RecordMerge, Store!RecordMerge, storeVars, Store!storeVars,
       Store!Publishing, Store!Guarded, Store!Next

LEMMA FailJobNext == FailJob => Store!Next
BY DEF FailJob, Store!FailJob, Store!Publishing, Store!Guarded, Store!Next

LEMMA StartCINext ==
  ASSUME NEW sha \in SHAs, StartCI(sha)
  PROVE  Store!Next
BY DEF StartCI, Store!StartCI, SHAs, Store!SHAs, storeVars, Store!storeVars,
       Store!CIPolling, Store!Guarded, Store!Next

LEMMA StartCIRemediationNext ==
  ASSUME NEW print \in Prints, StartCIRemediation(print)
  PROVE  Store!Next
BY DEF StartCIRemediation, Store!StartCIRemediation, SameFailures,
       Store!SameFailures, FailJob, Store!FailJob, RemediationFor,
       Store!RemediationFor, Remediation, Store!Remediation, Remediating,
       Store!Remediating, NewTask, Store!NewTask, NoTask, Store!NoTask, NoSHA,
       Store!NoSHA, PlanKeys, Store!PlanKeys, storeVars, Store!storeVars,
       Store!CIPolling, Store!Guarded, Store!Next

LEMMA RecordCINext ==
  ASSUME NEW sha \in SHAs, NEW state, NEW print,
         \/ state \in {"pending", "passed"} /\ print = NoPrint
         \/ state = "failed" /\ print \in Prints /\ failures[print] < MaxFailures,
         RecordCI(sha, state, print)
  PROVE  Store!Next
BY DEF RecordCI, Store!RecordCI, CIStatus, Store!CIStatus, SHAs, Store!SHAs,
       storeVars, Store!storeVars, Store!CIResults, Store!Next
============================================================================
