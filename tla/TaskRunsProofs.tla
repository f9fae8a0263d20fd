--------------------------- MODULE TaskRunsProofs ---------------------------
(***************************************************************************)
(* What the handlers keep, for any number of tasks, attempts, crashes,     *)
(* failing calls and retries.                                              *)
(*                                                                         *)
(* The argument: a call that is still to come carries the evidence for     *)
(* what it will write.  Good says which evidence, for every call a         *)
(* goroutine may have on its stack; none of it is ever taken back, so the  *)
(* steps of other goroutines do not disturb it, and a crash only discards  *)
(* calls.  Evidence is what the tasks themselves have to show.             *)
(***************************************************************************)
EXTENDS TaskRuns, StoreSteps, WellFoundedInduction

\* A run that may be started, watched and applied.
Known(d) == d \in Runs /\ (d.role \in {"writer", "reviewer"} => d.key \in PlanKeys)

\* A reviewer of task k has approved.
Approver(k) ==
    \E d \in Runs : d.role = "reviewer" /\ d.key = k /\ remote[d].says = "approved"

\* A task whose writer may start.
Startable(k) == \A d \in task[k].deps : Delivered(d)

ToStart(i) == i.key \in PlanKeys /\ Startable(i.key)

\* The last two conjuncts are about calls of module Publication.
Good(f) ==
    /\ \A i \in f.todo : ToStart(i)
    /\ f.publish # "no" => f.sha # NoSHA /\ job.integrationSHA # NoSHA
    /\ f.pc = "poll" => Known(f.run)
    /\ f.pc = "apply" => Known(f.run) /\ remote[f.run].status = "ended"
    /\ f.pc \in {"base", "writer", "work"} => ToStart(f.item)
    /\ f.pc = "work" => /\ tree[f.item.key].head # NoSHA
                        /\ Writer(f.item.key, f.item.attempt) \in Runs
    /\ f.pc \in {"tree", "complete", "nochanges"} => Known(f.run) /\ f.run.role = "writer"
    /\ f.pc = "tree" => tree[f.run.key].head # NoSHA
    /\ f.pc = "nochanges" => remote[f.run].says = "no_changes"
    /\ f.pc \in {"review", "own", "begin", "merge", "merged", "retry"} => f.item.key \in PlanKeys
    /\ f.pc = "own" => Reviewer(f.item.key, f.item.attempt) \in Runs
    /\ f.pc \in {"report", "verdict", "block"} => Known(f.run) /\ f.run.role = "reviewer"
    /\ f.pc \in {"report", "verdict"} => /\ remote[f.run].says \in Verdicts
                                         /\ remote[f.run].feedback \in Feedbacks
    /\ f.pc \in {"merge", "merged"} => Approver(f.item.key)
    /\ f.pc = "merge" => tree[f.item.key].head # NoSHA
    /\ f.pc = "merged" => merged[f.item.key] # NoSHA
    /\ f.pc \in {"complete", "merged", "ci", "checks", "remediate", "rereview"} => f.sha # NoSHA
    /\ f.pc \in {"draft", "create", "record", "get"} => f.publish # "no"
    /\ f.pc = "retry" => f.run \in Runs
    /\ f.pc = "jobverdict" => remote[Holistic].says \in Verdicts
    /\ f.pc \in {"open", "opened", "gate", "gatechecks", "mergepr"}
          => remote[Holistic].says = "approved"

Frames == {f \in Frame : Good(f)}

Listed == [run: Runs, status: {"starting", "running", "ended"}]

\* The dispatcher's records and AgentFoundry's.
RunsKept ==
    /\ record \in [Runs -> Records]
    /\ remote \in [Runs -> Remote]
    /\ \A d \in Runs :
          /\ record[d] \in {"starting", "running", "ended"} => Known(d)
          /\ record[d] = "ended" => remote[d].status = "ended"
          /\ remote[d].status # "absent" => Known(d)
          /\ remote[d].status # "ended" => remote[d].says = "nothing"
          /\ d.role \in {"reviewer", "holistic"} /\ remote[d].status = "ended"
                => remote[d].says \in Verdicts \union {"failed"}
          /\ d.role = "reviewer" /\ remote[d].says \in Verdicts
                => remote[d].feedback \in Feedbacks
    /\ queue \subseteq Listed
    /\ \A e \in queue : Known(e.run) /\ (e.status = "ended" => remote[e.run].status = "ended")

\* What task k has to show.
Evidence(k) ==
    /\ task[k].verdict # "pending" =>
          LET d == task[k].reviewerRun
          IN /\ d \in Runs /\ d.role = "reviewer" /\ d.key = k
             /\ remote[d].says = task[k].verdict
    /\ Begun(task[k]) => tree[k].head # NoSHA
    /\ Finished(task[k]) => Delivered(k)
    /\ tree[k].head # NoSHA => Startable(k)
    /\ merged[k] # NoSHA => Approver(k)
    /\ task[k].deps \subseteq PlanKeys

GitKept ==
    /\ tree \in [Keys -> Tree]
    /\ merged \in [Keys -> SHAs \union {NoSHA}]
    /\ \A k \in Keys \ PlanKeys : tree[k].head = NoSHA /\ merged[k] = NoSHA

RunsInv ==
    /\ StoreTypeOK /\ StoreInv
    /\ RunsKept
    /\ GitKept
    /\ \A k \in PlanKeys : Evidence(k)
    /\ thread \in [Threads -> Seq(Frames)]
    /\ adopted \subseteq Keys
    /\ budget \in Scenario

----------------------------------------------------------------------------
(* Call stacks. *)

LEMMA NatMin ==
  ASSUME NEW S \in SUBSET Nat, S # {}
  PROVE  \E m \in S : \A n \in S : m <= n
<1>1. IsWellFoundedOn(OpToRel(<, Nat), Nat)
  BY NatLessThanWellFounded
<1>2. PICK m \in S : \A n \in S : ~(<<n, m>> \in OpToRel(<, Nat))
  BY <1>1, WFMin
<1>3. \A n \in S : ~(n < m)
  BY <1>2, Zenon DEF OpToRel
<1> QED BY <1>3

LEMMA TopIn ==
  ASSUME NEW S, thread \in [Threads -> Seq(S)], NEW t \in Busy
  PROVE  t \in Threads /\ thread[t] # <<>> /\ Top(t) \in S /\ Tail(thread[t]) \in Seq(S)
BY DEF Busy, Top

LEMMA GotoIn ==
  ASSUME NEW S, thread \in [Threads -> Seq(S)], NEW t \in Busy, NEW f \in S
  PROVE  Goto(t, f) \in [Threads -> Seq(S)]
<1>1. <<f>> \o Tail(thread[t]) \in Seq(S)
  BY TopIn
<1> QED BY <1>1 DEF Goto

LEMMA ReturnIn ==
  ASSUME NEW S, thread \in [Threads -> Seq(S)], NEW t \in Busy
  PROVE  Return(t) \in [Threads -> Seq(S)]
BY TopIn DEF Return

LEMMA WatchIn ==
  ASSUME NEW S, NEW threads \in [Threads -> Seq(S)], NEW d, Call("poll", d) \in S
  PROVE  Watch(threads, d) \in [Threads -> Seq(S)]
<1>1. <<Call("poll", d)>> \in Seq(S)
  OBVIOUS
<1> QED BY <1>1 DEF Watch

\* A bigger set of frames.
LEMMA StacksIn ==
  ASSUME NEW S, NEW T, S \subseteq T, NEW threads \in [Threads -> Seq(S)]
  PROVE  threads \in [Threads -> Seq(T)]
<1>1. \A s \in Seq(S) : s \in Seq(T)
  OBVIOUS
<1> QED BY <1>1

LEMMA CallType ==
  ASSUME NEW pc \in Calls, NEW d \in Runs \union {NoRun}
  PROVE  /\ Call(pc, d) \in Frame
         /\ Call(pc, d).pc = pc /\ Call(pc, d).run = d /\ Call(pc, d).todo = {}
         /\ Call(pc, d).publish = "no"
BY DEF Call, Frame, NoItem, Item, NoSHA

LEMMA RunTypes ==
  /\ Holistic \in Runs /\ Planner \in Runs
  /\ \A d \in Runs : d.role \in {"writer", "reviewer"} => d.key \in Keys
  /\ Holistic.role = "holistic"
BY RunsAssumption DEF Dispatches, Holistic, Planner

----------------------------------------------------------------------------
(* Evidence stays: the plan grows, answers and commits are there to stay. *)

RunsOn == \A d \in Runs : remote[d].status = "ended" => remote'[d] = remote[d]

GitOn ==
    \A k \in Keys : /\ tree[k].head # NoSHA => tree'[k].head # NoSHA
                    /\ merged[k] # NoSHA => merged'[k] # NoSHA

LEMMA AnswersStay ==
  ASSUME RunsInv, Onward, RunsOn, GitOn
  PROVE  /\ PlanKeys \subseteq PlanKeys' /\ PlanKeys \subseteq Keys
         /\ \A d \in Runs : remote[d].says # "nothing" => remote'[d] = remote[d]
         /\ \A d : Known(d) => Known(d)'
         /\ \A k : Approver(k) => Approver(k)'
         /\ \A k \in Keys : Delivered(k) => Delivered(k)'
         /\ \A k \in PlanKeys : task'[k].deps = task[k].deps /\ task[k].deps \subseteq PlanKeys
         /\ \A k \in PlanKeys : Startable(k) => Startable(k)'
<1>1. PlanKeys \subseteq PlanKeys' /\ PlanKeys \subseteq Keys
  BY PlanKeysType DEF RunsInv, Onward
<1>2. \A d \in Runs : remote[d].says # "nothing" => remote'[d] = remote[d]
  BY DEF RunsInv, RunsKept, RunsOn
<1>3. \A d : Known(d) => Known(d)'
  BY <1>1 DEF Known
<1>4. \A k : Approver(k) => Approver(k)'
  BY <1>2 DEF Approver
<1>5. \A k \in Keys : Delivered(k) => Delivered(k)'
  BY <1>2 DEF Delivered, GitOn
<1>6. \A k \in PlanKeys : task'[k].deps = task[k].deps /\ task[k].deps \subseteq PlanKeys
  BY DEF Onward, Fixed, RunsInv, Evidence
<1>7. \A k \in PlanKeys : Startable(k) => Startable(k)'
  BY <1>1, <1>5, <1>6 DEF Startable
<1> QED BY <1>1, <1>2, <1>3, <1>4, <1>5, <1>6, <1>7

LEMMA ToStartStays ==
  ASSUME RunsInv, Onward, RunsOn, GitOn, NEW i, ToStart(i)
  PROVE  ToStart(i)'
BY AnswersStay DEF ToStart, Startable

LEMMA FramesStay ==
  ASSUME RunsInv, Onward, RunsOn, GitOn
  PROVE  Frames \subseteq Frames'
<1> SUFFICES ASSUME NEW f \in Frames PROVE Good(f)'
  BY DEF Frames
<1> USE AnswersStay
<1>1. Good(f)
  BY DEF Frames
<1>2. \A i \in f.todo : ToStart(i)'
  BY <1>1, ToStartStays DEF Good
<1>3. f.pc \in {"base", "writer", "work"} => ToStart(f.item)'
  BY <1>1, ToStartStays DEF Good
<1>4. f.publish # "no" => f.sha # NoSHA /\ job'.integrationSHA # NoSHA
  BY <1>1 DEF Good, Onward
<1>5. f.pc = "apply" => Known(f.run)' /\ remote'[f.run].status = "ended"
  BY <1>1 DEF Good, RunsOn, Known
<1>6. /\ f.pc = "work" => tree'[f.item.key].head # NoSHA
      /\ f.pc = "tree" => tree'[f.run.key].head # NoSHA
  BY <1>1 DEF Good, GitOn, ToStart, Known
<1>7. f.pc = "nochanges" => remote'[f.run].says = "no_changes"
  BY <1>1 DEF Good, Known
<1>8. f.pc \in {"report", "verdict"} => /\ remote'[f.run].says \in Verdicts
                                        /\ remote'[f.run].feedback \in Feedbacks
  BY <1>1 DEF Good, Known, Verdicts
<1>9. /\ f.pc = "merge" => tree'[f.item.key].head # NoSHA
      /\ f.pc = "merged" => merged'[f.item.key] # NoSHA
  BY <1>1 DEF Good, GitOn
<1>10. /\ f.pc = "jobverdict" => remote'[Holistic].says \in Verdicts
       /\ f.pc \in {"open", "opened", "gate", "gatechecks", "mergepr"}
             => remote'[Holistic].says = "approved"
  BY <1>1, RunTypes DEF Good, Verdicts
<1> QED BY <1>1, <1>2, <1>3, <1>4, <1>5, <1>6, <1>7, <1>8, <1>9, <1>10 DEF Good

\* The evidence of a task an operation was not made for.
LEMMA QuietEvidence ==
  ASSUME RunsInv, Onward, RunsOn, GitOn, NEW k \in PlanKeys, Quiet(task[k], task'[k]),
         tree'[k].head # NoSHA => Startable(k)',
         merged'[k] # NoSHA => Approver(k)'
  PROVE  Evidence(k)'
<1> USE AnswersStay
<1>1. Evidence(k)
  BY DEF RunsInv
<1>2. task'[k].verdict # "pending" =>
          LET d == task'[k].reviewerRun
          IN /\ d \in Runs /\ d.role = "reviewer" /\ d.key = k
             /\ remote'[d].says = task'[k].verdict
  <2>1. task[k].verdict # "nothing"
    BY DEF RunsInv, StoreTypeOK, Task, Verdicts
  <2> QED BY <1>1, <2>1 DEF Evidence, Quiet
<1>3. Begun(task'[k]) => tree'[k].head # NoSHA
  BY <1>1 DEF Evidence, Quiet, GitOn
<1>4. Finished(task'[k]) => Delivered(k)'
  BY <1>1 DEF Evidence, Quiet
<1> QED BY <1>1, <1>2, <1>3, <1>4 DEF Evidence

\* A task that is new in the plan.
LEMMA NewEvidence ==
  ASSUME Onward, NEW k \in PlanKeys' \ PlanKeys, tree'[k].head = NoSHA, merged'[k] = NoSHA
  PROVE  Evidence(k)'
<1>1. /\ task'[k].status = "planned" /\ task'[k].verdict = "pending"
      /\ task'[k].deps \subseteq PlanKeys'
  BY DEF Onward
<1> QED BY <1>1 DEF Evidence, Begun, Finished

----------------------------------------------------------------------------
(* A step keeps the invariant when its own task and frame have evidence. *)

GitSteady(k) ==
    /\ tree'[k].head # NoSHA => tree[k].head # NoSHA \/ Startable(k)
    /\ merged'[k] # NoSHA => merged[k] # NoSHA \/ Approver(k)

LEMMA KeptStep ==
  ASSUME RunsInv, StoreTypeOK', StoreInv', Onward, RunsOn, GitOn, RunsKept', GitKept',
         adopted' \subseteq Keys, budget' \in Scenario,
         \A k \in Keys \ PlanKeys : tree'[k] = tree[k] /\ merged'[k] = merged[k],
         \A k \in PlanKeys : (Quiet(task[k], task'[k]) /\ GitSteady(k)) \/ Evidence(k)',
         thread' \in [Threads -> Seq(Frames')]
  PROVE  RunsInv'
<1>1. ASSUME NEW k \in PlanKeys' PROVE Evidence(k)'
  <2>1. CASE k \in PlanKeys /\ Evidence(k)'
    BY <2>1
  <2>2. CASE k \in PlanKeys /\ Quiet(task[k], task'[k]) /\ GitSteady(k)
    <3>1. Evidence(k)
      BY <2>2 DEF RunsInv
    <3>2. /\ tree'[k].head # NoSHA => Startable(k)'
          /\ merged'[k] # NoSHA => Approver(k)'
      BY <2>2, <3>1, AnswersStay DEF Evidence, GitSteady
    <3> QED BY <2>2, <3>2, QuietEvidence
  <2>3. CASE k \notin PlanKeys
    <3>1. k \in Keys
      BY StoreAssumption DEF PlanKeys, Keys, StoreTypeOK
    <3>2. tree'[k].head = NoSHA /\ merged'[k] = NoSHA
      BY <2>3, <3>1 DEF RunsInv, GitKept
    <3> QED BY <2>3, <3>2, NewEvidence
  <2> QED BY <2>1, <2>2, <2>3
<1> QED BY <1>1 DEF RunsInv

\* A step that calls an operation of the job store, or none.
LEMMA StoreStep ==
  ASSUME RunsInv, StoreTypeOK', StoreInv', Onward,
         UNCHANGED <<record, remote, queue, tree, merged, budget>>, adopted' \subseteq Keys,
         \A k \in PlanKeys : Quiet(task[k], task'[k]) \/ Evidence(k)',
         thread' \in [Threads -> Seq(Frames')]
  PROVE  RunsInv'
<1>1. RunsOn /\ GitOn /\ \A k \in PlanKeys : GitSteady(k)
  BY DEF RunsOn, GitOn, GitSteady
<1>2. RunsKept'
  <2>1. record' = record /\ remote' = remote /\ queue' = queue /\ RunsKept
    BY DEF RunsInv
  <2> QED BY <1>1, <2>1, AnswersStay DEF RunsKept
<1>3. GitKept'
  BY <1>1, AnswersStay DEF GitKept, RunsInv
<1>4. budget' \in Scenario
  BY DEF RunsInv
<1> QED BY <1>1, <1>2, <1>3, <1>4, KeptStep

\* What every step does: it keeps the invariant, takes back no answer, and is an
\* operation of the job store or leaves its record alone.
Kept == RunsInv' /\ RunsOn /\ [Store!Next]_storeVars

\* A step that leaves the job store alone.
LEMMA RunStep ==
  ASSUME RunsInv, UNCHANGED storeVars, RunsOn, GitOn, RunsKept', GitKept',
         adopted' \subseteq Keys, budget' \in Scenario, \A k \in PlanKeys : GitSteady(k),
         \A k \in Keys \ PlanKeys : tree'[k] = tree[k] /\ merged'[k] = merged[k],
         thread' \in [Threads -> Seq(Frames')]
  PROVE  Kept
<1>1. StoreInv' /\ Onward /\ AllQuiet /\ StoreTypeOK'
  BY UnchangedStore DEF RunsInv, storeVars, StoreTypeOK
<1> QED BY <1>1, KeptStep DEF AllQuiet, Kept

\* Nothing changes but the call stacks.
LEMMA StackStep ==
  ASSUME RunsInv, UNCHANGED <<storeVars, record, remote, queue, gitVars, budget>>,
         thread' \in [Threads -> Seq(Frames)]
  PROVE  Kept
<1>1. StoreInv' /\ Onward /\ AllQuiet /\ StoreTypeOK'
  BY UnchangedStore DEF RunsInv, storeVars, StoreTypeOK
<1>2. RunsOn /\ GitOn /\ UNCHANGED <<tree, merged, adopted>>
  BY DEF RunsOn, GitOn, gitVars, historyVars
<1>3. thread' \in [Threads -> Seq(Frames')]
  BY <1>1, <1>2, FramesStay, StacksIn
<1>4. adopted' \subseteq Keys
  BY <1>2 DEF RunsInv
<1> QED BY <1>1, <1>2, <1>3, <1>4, StoreStep DEF AllQuiet, Kept

----------------------------------------------------------------------------
(* Starting runs. *)

LEMMA ItemType ==
  ASSUME NEW k \in Keys, NEW t \in Task
  PROVE  /\ ItemFor(k, t) \in Item
         /\ ItemFor(k, t).key = k
<1>1. t.writerAttempts + 1 \in Nat
  BY DEF Task
<1> QED BY <1>1 DEF ItemFor, Item

LEMMA NearestIn ==
  ASSUME NEW todo \in SUBSET Item, todo # {}
  PROVE  Nearest(todo) \in todo
<1> DEFINE S == {i.key : i \in todo}
<1>1. S \in SUBSET Nat /\ S # {}
  BY DEF Item, Keys
<1>2. PICK m \in S : \A n \in S : m <= n
  BY <1>1, NatMin
<1>3. PICK i \in todo : i.key = m
  BY <1>2
<1>4. \A j \in todo : i.key <= j.key
  BY <1>2, <1>3
<1> QED BY <1>4 DEF Nearest

\* What follows startReadyWriters.
ContinueGood ==
    \A f \in Frame :
        /\ \A i \in f.todo : ToStart(i)
        /\ f.publish # "no" => f.sha # NoSHA /\ job.integrationSHA # NoSHA
        => Continue(f) \in Frames

LEMMA ContinueIn == ContinueGood
<1> SUFFICES ASSUME NEW f \in Frame, \A i \in f.todo : ToStart(i),
                    f.publish # "no" => f.sha # NoSHA /\ job.integrationSHA # NoSHA
             PROVE  Continue(f) \in Frames
  BY DEF ContinueGood
<1>1. CASE f.todo # {}
  <2> DEFINE i == Nearest(f.todo)
             g == [f EXCEPT !.pc = IF i.based THEN "writer" ELSE "base",
                            !.item = i, !.todo = @ \ {i}]
  <2>1. i \in f.todo /\ i \in Item
    BY <1>1, NearestIn DEF Frame
  <2>2. /\ g \in Frame /\ g.pc \in {"writer", "base"} /\ g.item = i
        /\ g.todo \subseteq f.todo /\ g.publish = f.publish /\ g.sha = f.sha
    BY <2>1 DEF Frame, Calls
  <2>3. Continue(f) = g
    BY <1>1 DEF Continue
  <2> HIDE DEF i, g
  <2>4. Good(g)
    BY <2>1, <2>2 DEF Good
  <2> QED BY <2>2, <2>3, <2>4 DEF Frames
<1>2. CASE f.todo = {} /\ f.publish # "no"
  <2> DEFINE g == [f EXCEPT !.pc = "draft"]
  <2>1. /\ g \in Frame /\ g.pc = "draft" /\ g.todo = f.todo /\ g.publish = f.publish
        /\ g.sha = f.sha
    BY DEF Frame, Calls
  <2>2. Continue(f) = g
    BY <1>2 DEF Continue
  <2> HIDE DEF g
  <2>3. Good(g)
    BY <1>2, <2>1 DEF Good
  <2> QED BY <2>1, <2>2, <2>3 DEF Frames
<1>3. CASE f.todo = {} /\ f.publish = "no"
  <2>1. Continue(f) = Call("mark", f.run)
    BY <1>3 DEF Continue, Done
  <2>2. f.run \in Runs \union {NoRun}
    BY DEF Frame
  <2>3. Call("mark", f.run) \in Frame /\ Good(Call("mark", f.run))
    BY <2>2, CallType DEF Good, Calls
  <2> QED BY <2>1, <2>3 DEF Frames
<1> QED BY <1>1, <1>2, <1>3 DEF Frame

LEMMA ContinueInNext == ContinueGood'
BY ContinueIn, PTL

DoneGood == \A f \in Frame : Done(f) \in Frames

LEMMA DoneIn == DoneGood
<1> SUFFICES ASSUME NEW f \in Frame PROVE Done(f) \in Frames
  BY DEF DoneGood
<1>1. f.run \in Runs \union {NoRun}
  BY DEF Frame
<1>2. Call("mark", f.run) \in Frame /\ Good(Call("mark", f.run))
  BY <1>1, CallType DEF Good, Calls
<1> QED BY <1>2 DEF Done, Frames

LEMMA DoneInNext == DoneGood'
BY DoneIn, PTL

ReadyGood ==
    /\ StoreTypeOK
    /\ \A k \in PlanKeys : /\ Finished(task[k]) => Delivered(k)
                           /\ task[k].deps \subseteq PlanKeys
    =>
        /\ Ready(planned, task) \subseteq Item
        /\ \A i \in Ready(planned, task) : ToStart(i)

LEMMA ReadyToStart == ReadyGood
<1> SUFFICES ASSUME StoreTypeOK, \A k \in PlanKeys : Finished(task[k]) => Delivered(k),
                    \A k \in PlanKeys : task[k].deps \subseteq PlanKeys
             PROVE  /\ Ready(planned, task) \subseteq Item
                    /\ \A i \in Ready(planned, task) : ToStart(i)
  BY DEF ReadyGood
<1>1. PlanKeys \subseteq Keys /\ \A k \in PlanKeys : task[k] \in Task
  BY PlanKeysType
<1>2. ASSUME NEW i \in Ready(planned, task) PROVE i \in Item /\ ToStart(i)
  <2>1. PICK k \in PlanKeys : /\ i = ItemOf(task, k)
                              /\ \A d \in task[k].deps : Finished(task[d])
    BY DEF Ready, PlanKeys
  <2>2. i \in Item /\ i.key = k
    BY <1>1, <2>1, ItemType DEF ItemOf
  <2>3. \A d \in task[k].deps : Delivered(d)
    BY <2>1
  <2> QED BY <2>2, <2>3 DEF ToStart, Startable
<1> QED BY <1>2

LEMMA ReadyToStartNext == ReadyGood'
BY ReadyToStart, PTL

\* What holds of the frames of every state holds of those of the next one.
CallsGood ==
    \A d : Known(d) =>
        /\ Call("poll", d) \in Frames
        /\ remote[d].status = "ended" => Call("apply", d) \in Frames

LEMMA CallsIn == CallsGood
<1> SUFFICES ASSUME NEW d, Known(d)
             PROVE  /\ Call("poll", d) \in Frames
                    /\ remote[d].status = "ended" => Call("apply", d) \in Frames
  BY DEF CallsGood
<1>1. d \in Runs \union {NoRun} /\ "poll" \in Calls /\ "apply" \in Calls
  BY DEF Known, Calls
<1>2. /\ Call("poll", d) \in Frame /\ Call("poll", d).pc = "poll"
      /\ Call("poll", d).run = d /\ Call("poll", d).todo = {} /\ Call("poll", d).publish = "no"
  BY <1>1, CallType
<1>3. /\ Call("apply", d) \in Frame /\ Call("apply", d).pc = "apply"
      /\ Call("apply", d).run = d /\ Call("apply", d).todo = {} /\ Call("apply", d).publish = "no"
  BY <1>1, CallType
<1> QED BY <1>2, <1>3 DEF Good, Frames

LEMMA CallsInNext == CallsGood'
BY CallsIn, PTL

\* AgentFoundry takes a run, or has it already.
LEMMA LaunchRuns ==
  ASSUME RunsInv, UNCHANGED planned, NEW t, NEW d, Known(d), NEW next,
         Launch(t, d, next), queue' \subseteq queue
  PROVE  RunsOn /\ RunsKept'
<1>1. RunsKept /\ d \in Runs /\ record' \in [Runs -> Records]
  BY DEF RunsInv, RunsKept, Known, Launch, Saved, Records
<1>2. \A c \in Runs : Known(c) => Known(c)'
  BY DEF Known, PlanKeys
<1>3. CASE remote[d].status = "absent"
  <2>1. /\ remote' = [remote EXCEPT ![d].status = "running"]
        /\ record' = [record EXCEPT ![d] = "running"]
    BY <1>3 DEF Launch, Saved
  <2>2. /\ remote' \in [Runs -> Remote]
        /\ remote'[d].status = "running" /\ remote'[d].says = remote[d].says
        /\ \A c \in Runs \ {d} : remote'[c] = remote[c]
    BY <1>1, <2>1 DEF RunsKept, Remote
  <2>3. \A c \in Runs : record'[c] = IF c = d THEN "running" ELSE record[c]
    BY <1>1, <2>1 DEF RunsKept
  <2>4. RunsOn
    BY <1>3, <2>2 DEF RunsOn
  <2>5. remote[d].says = "nothing"
    BY <1>1, <1>3 DEF RunsKept
  <2>6. \A c \in Runs :
          /\ record'[c] \in {"starting", "running", "ended"} => Known(c)'
          /\ record'[c] = "ended" => remote'[c].status = "ended"
          /\ remote'[c].status # "absent" => Known(c)'
          /\ remote'[c].status # "ended" => remote'[c].says = "nothing"
          /\ c.role \in {"reviewer", "holistic"} /\ remote'[c].status = "ended"
                => remote'[c].says \in Verdicts \union {"failed"}
          /\ c.role = "reviewer" /\ remote'[c].says \in Verdicts
                => remote'[c].feedback \in Feedbacks
    BY <1>1, <1>2, <1>3, <2>2, <2>3, <2>5 DEF RunsKept, Verdicts
  <2>7. \A e \in queue' : Known(e.run)' /\ (e.status = "ended" => remote'[e.run].status = "ended")
    BY <1>1, <1>2, <1>3, <2>2 DEF RunsKept, Known
  <2> QED BY <1>1, <2>2, <2>4, <2>6, <2>7 DEF RunsKept
<1>4. CASE remote[d].status # "absent"
  <2>1. /\ remote' = remote
        /\ \/ record' = [record EXCEPT ![d] = "running"]
           \/ record' = [record EXCEPT ![d] = "ended"] /\ remote[d].status = "ended"
    BY <1>4 DEF Launch, Saved
  <2>2. \A c \in Runs : \/ c = d /\ record'[c] = "running"
                        \/ c = d /\ record'[c] = "ended" /\ remote[c].status = "ended"
                        \/ record'[c] = record[c]
    BY <1>1, <2>1 DEF RunsKept
  <2>3. RunsOn
    BY <2>1 DEF RunsOn
  <2> QED BY <1>1, <1>2, <2>1, <2>2, <2>3 DEF RunsKept, Known
<1> QED BY <1>3, <1>4

LEMMA LaunchStacks ==
  ASSUME NEW t, NEW d, Known(d)', NEW next \in [Threads -> Seq(Frames')],
         Launch(t, d, next), remote[d].status = "ended" => remote' = remote
  PROVE  thread' \in [Threads -> Seq(Frames')]
<1>1. /\ Call("poll", d) \in Frames'
      /\ remote'[d].status = "ended" => Call("apply", d) \in Frames'
  BY CallsInNext DEF CallsGood
<1>2. CASE thread' = Watch(next, d)
  BY <1>1, <1>2, WatchIn
<1>3. CASE remote[d].status = "ended" /\ thread' = [next EXCEPT ![t] = <<Call("apply", d)>> \o @]
  <2>1. Call("apply", d) \in Frames'
    BY <1>1, <1>3
  <2>2. CASE t \in Threads
    <3>1. <<Call("apply", d)>> \o next[t] \in Seq(Frames')
      BY <2>1, <2>2
    <3> QED BY <1>3, <3>1
  <2>3. CASE t \notin Threads
    BY <1>3, <2>3
  <2> QED BY <2>2, <2>3
<1> QED BY <1>2, <1>3 DEF Launch

LEMMA StartRuns ==
  ASSUME RunsInv, UNCHANGED planned, NEW t, NEW d, Known(d), NEW next, Start(t, d, next)
  PROVE  RunsOn /\ RunsKept'
<1>1. CASE Launch(t, d, next)
  BY <1>1, LaunchRuns DEF Start
<1>2. CASE UNCHANGED <<record, remote>>
  <2>1. RunsKept /\ UNCHANGED <<record, remote, queue>>
    BY <1>2 DEF RunsInv, Start
  <2>2. \A c : Known(c) => Known(c)'
    BY DEF Known, PlanKeys
  <2> QED BY <2>1, <2>2 DEF RunsKept, RunsOn
<1> QED BY <1>1, <1>2 DEF Start

LEMMA StartStacks ==
  ASSUME NEW t, NEW d, Known(d)', NEW next \in [Threads -> Seq(Frames')],
         Start(t, d, next)
  PROVE  thread' \in [Threads -> Seq(Frames')]
<1>1. CASE Launch(t, d, next)
  <2>1. remote[d].status = "ended" => remote' = remote
    BY <1>1 DEF Launch
  <2> QED BY <1>1, <2>1, LaunchStacks
<1>2. CASE thread' = Watch(next, d)
  BY <1>2, CallsInNext, WatchIn DEF CallsGood
<1>3. CASE thread' = next
  BY <1>3
<1> QED BY <1>1, <1>2, <1>3 DEF Start

\* A launch that fails.
LEMMA LaunchFailsRuns ==
  ASSUME RunsInv, UNCHANGED storeVars, NEW d, Known(d), NEW next, LaunchFails(d, next)
  PROVE  RunsOn /\ RunsKept'
<1>1. RunsKept /\ d \in Runs /\ record' \in [Runs -> Records]
  BY DEF RunsInv, RunsKept, Known, LaunchFails, Saved, Records
<1>2. \A c : Known(c) => Known(c)'
  BY DEF Known, PlanKeys, storeVars
<1>3. /\ remote' \in [Runs -> Remote]
      /\ \A c \in Runs :
            \/ remote'[c] = remote[c]
            \/ /\ c = d /\ remote[c].status = "absent"
               /\ remote'[c].status = "running" /\ remote'[c].says = remote[c].says
  BY <1>1 DEF LaunchFails, RunsKept, Remote
<1>4. \A c \in Runs : record'[c] = IF c = d THEN "starting" ELSE record[c]
  BY <1>1 DEF LaunchFails, RunsKept, Saved
<1>5. RunsOn
  BY <1>3 DEF RunsOn
<1>6. \A c \in Runs :
        /\ record'[c] \in {"starting", "running", "ended"} => Known(c)'
        /\ record'[c] = "ended" => remote'[c].status = "ended"
        /\ remote'[c].status # "absent" => Known(c)'
        /\ remote'[c].status # "ended" => remote'[c].says = "nothing"
        /\ c.role \in {"reviewer", "holistic"} /\ remote'[c].status = "ended"
              => remote'[c].says \in Verdicts \union {"failed"}
        /\ c.role = "reviewer" /\ remote'[c].says \in Verdicts
              => remote'[c].feedback \in Feedbacks
  BY <1>1, <1>2, <1>3, <1>4 DEF RunsKept, Verdicts
<1>7. \A e \in queue : Known(e.run)' /\ (e.status = "ended" => remote'[e.run].status = "ended")
  BY <1>1, <1>2, <1>3 DEF RunsKept, Known
<1> QED BY <1>1, <1>3, <1>5, <1>6, <1>7 DEF RunsKept, LaunchFails

----------------------------------------------------------------------------
(* What the steps of a goroutine have in common. *)

LEMMA GotoKept ==
  ASSUME RunsInv, Onward, RunsOn, GitOn, NEW t \in Busy, NEW f \in Frames'
  PROVE  Goto(t, f) \in [Threads -> Seq(Frames')]
<1>1. thread \in [Threads -> Seq(Frames')]
  BY FramesStay, StacksIn DEF RunsInv
<1> QED BY <1>1, GotoIn

LEMMA ReturnKept ==
  ASSUME RunsInv, Onward, RunsOn, GitOn, NEW t \in Busy
  PROVE  Return(t) \in [Threads -> Seq(Frames')]
<1>1. thread \in [Threads -> Seq(Frames')]
  BY FramesStay, StacksIn DEF RunsInv
<1> QED BY <1>1, ReturnIn

LEMMA TryCases ==
  ASSUME NEW ACTION op, NEW t, NEW ACTION next, Try(op, t, next)
  PROVE  /\ UNCHANGED <<record, remote, queue, budget>>
         /\ \/ op /\ thread' = next
            \/ UNCHANGED storeVars /\ thread' = Return(t)
BY DEF Try

\* The innermost call of a goroutine has its evidence.
LEMMA TopFrame ==
  ASSUME RunsInv, NEW t \in Busy
  PROVE  Top(t) \in Frame /\ Good(Top(t))
<1>1. Top(t) \in Frames
  BY TopIn DEF RunsInv
<1> QED BY <1>1 DEF Frames

LEMMA Refused ==
  ASSUME RunsInv, NEW t \in Busy,
         UNCHANGED <<storeVars, record, remote, queue, gitVars, budget>>, thread' = Return(t)
  PROVE  Kept
BY StackStep, ReturnIn DEF RunsInv

\* A call that changes nothing but what comes next.
LEMMA Moved ==
  ASSUME RunsInv, NEW t \in Busy, NEW f \in Frames,
         UNCHANGED <<storeVars, record, remote, queue, gitVars, budget>>, thread' = Goto(t, f)
  PROVE  Kept
BY StackStep, GotoIn DEF RunsInv

\* An operation of the job store that has succeeded.
LEMMA StoreCall ==
  ASSUME RunsInv, Store!Next, StoreInv', Onward,
         UNCHANGED <<record, remote, queue, tree, merged, budget>>, adopted' \subseteq Keys,
         \A k \in PlanKeys : Quiet(task[k], task'[k]) \/ Evidence(k)',
         NEW t \in Busy, NEW f \in Frames', thread' = Goto(t, f)
  PROVE  Kept
<1>1. RunsOn /\ GitOn
  BY DEF RunsOn, GitOn
<1>2. StoreTypeOK'
  BY StoreTypeStep DEF RunsInv
<1>3. thread' \in [Threads -> Seq(Frames')]
  BY <1>1, GotoKept
<1> QED BY <1>2, <1>3, StoreStep DEF Kept, RunsOn

\* The same for one that is quiet.
LEMMA QuietCall ==
  ASSUME RunsInv, Store!Next, StoreInv', Onward, AllQuiet,
         UNCHANGED <<record, remote, queue, gitVars, budget>>,
         NEW t \in Busy, NEW f \in Frames', thread' = Goto(t, f)
  PROVE  Kept
<1>1. UNCHANGED <<tree, merged, adopted>> /\ adopted' \subseteq Keys
  BY DEF gitVars, historyVars, RunsInv
<1> QED BY <1>1, StoreCall DEF AllQuiet

\* The tasks that are ready after an operation may be started.
LEMMA ReadyKept ==
  ASSUME RunsInv, Onward, RunsOn, GitOn, StoreTypeOK',
         \A k \in PlanKeys : Quiet(task[k], task'[k]) \/ Evidence(k)'
  PROVE  /\ Ready(planned', task') \subseteq Item
         /\ \A i \in Ready(planned', task') : ToStart(i)'
         /\ \A k \in PlanKeys' : /\ Finished(task'[k]) => Delivered(k)'
                                 /\ task'[k].deps \subseteq PlanKeys'
<1>1. ASSUME NEW k \in PlanKeys'
      PROVE  (Finished(task'[k]) => Delivered(k)') /\ task'[k].deps \subseteq PlanKeys'
  <2>1. CASE k \in PlanKeys /\ Evidence(k)'
    BY <2>1 DEF Evidence
  <2>2. CASE k \in PlanKeys /\ Quiet(task[k], task'[k])
    <3>1. Evidence(k)
      BY <2>2 DEF RunsInv
    <3> QED BY <2>2, <3>1, AnswersStay DEF Evidence, Quiet
  <2>3. CASE k \notin PlanKeys
    <3>1. task'[k].status = "planned" /\ task'[k].deps \subseteq PlanKeys'
      BY <2>3 DEF Onward
    <3> QED BY <3>1 DEF Finished
  <2> QED BY <2>1, <2>2, <2>3
<1> QED BY <1>1, ReadyToStartNext DEF ReadyGood

LEMMA TodoKept ==
  ASSUME RunsInv, Onward, StoreTypeOK', UNCHANGED <<remote, tree, merged>>,
         \A k \in PlanKeys : Quiet(task[k], task'[k]),
         NEW f \in Frame, Good(f)
  PROVE  Continue([f EXCEPT !.todo = Ready(planned', task')]) \in Frames'
<1> DEFINE g == [f EXCEPT !.todo = Ready(planned', task')]
<1>1. RunsOn /\ GitOn
  BY DEF RunsOn, GitOn
<1>2. /\ Ready(planned', task') \subseteq Item
      /\ \A i \in Ready(planned', task') : ToStart(i)'
  BY <1>1, ReadyKept
<1>3. g \in Frame /\ g.todo = Ready(planned', task') /\ g.publish = f.publish /\ g.sha = f.sha
  BY <1>2 DEF Frame
<1>4. f.publish # "no" => f.sha # NoSHA /\ job'.integrationSHA # NoSHA
  BY DEF Good, Onward
<1> HIDE DEF g
<1>5. Continue(g) \in Frames'
  BY <1>2, <1>3, <1>4, ContinueInNext DEF ContinueGood
<1> QED BY <1>5 DEF g

----------------------------------------------------------------------------
(* Watching and applying. *)

LEMMA ObserveKept ==
  ASSUME RunsInv, NEW t \in Busy, Observe(t), UNCHANGED <<storeVars, gitVars, budget>>
  PROVE  Kept
<1> DEFINE d == Top(t).run
<1>1. /\ Known(d) /\ remote[d].status = "ended" /\ UNCHANGED <<remote, queue>>
      /\ record' = [record EXCEPT ![d] = "ended"] /\ thread' = Goto(t, Call("apply", d))
  BY TopFrame DEF Observe, At, Top, Good, Saved
<1> HIDE DEF d
<1>2. Onward /\ RunsOn /\ GitOn /\ UNCHANGED <<tree, merged, adopted>>
  BY <1>1, UnchangedStore DEF RunsInv, RunsOn, GitOn, gitVars, historyVars
<1>3. RunsKept'
  <2>1. \A c : Known(c) => Known(c)'
    BY DEF Known, PlanKeys, storeVars
  <2>2. RunsKept /\ d \in Runs
    BY <1>1 DEF RunsInv, Known
  <2>3. record' \in [Runs -> Records] /\ \A c \in Runs : c = d \/ record'[c] = record[c]
    BY <1>1, <2>2 DEF RunsKept, Records
  <2> QED BY <1>1, <2>1, <2>2, <2>3 DEF RunsKept
<1>4. thread' \in [Threads -> Seq(Frames')]
  BY <1>1, <1>2, CallsIn, FramesStay, GotoKept DEF CallsGood
<1> QED BY <1>2, <1>3, <1>4, RunStep DEF RunsInv, GitKept, GitSteady, PlanKeys, storeVars

LEMMA MarkKept ==
  ASSUME RunsInv, NEW t \in Busy, Mark(t), UNCHANGED <<storeVars, gitVars, budget>>
  PROVE  Kept
<1>1. /\ UNCHANGED <<remote, queue>> /\ thread' = Return(t)
      /\ \/ record' = record
         \/ record' = [record EXCEPT ![Top(t).run] = "applied"]
  BY DEF Mark, Saved
<1>2. Onward /\ RunsOn /\ GitOn /\ UNCHANGED <<tree, merged, adopted>>
  BY <1>1, UnchangedStore DEF RunsInv, RunsOn, GitOn, gitVars, historyVars
<1>3. RunsKept'
  <2>1. \A c : Known(c) => Known(c)'
    BY DEF Known, PlanKeys, storeVars
  <2>2. RunsKept
    BY DEF RunsInv
  <2>3. /\ record' \in [Runs -> Records]
        /\ \A c \in Runs : record'[c] = "applied" \/ record'[c] = record[c]
    BY <1>1, <2>2 DEF RunsKept, Records
  <2> QED BY <1>1, <2>1, <2>2, <2>3 DEF RunsKept
<1>4. thread' \in [Threads -> Seq(Frames')]
  BY <1>1, <1>2, ReturnKept
<1> QED BY <1>2, <1>3, <1>4, RunStep DEF RunsInv, GitKept, GitSteady, PlanKeys, storeVars

LEMMA ApplyPlanKept ==
  ASSUME RunsInv, NEW t \in Busy, ApplyPlan(t)
  PROVE  Kept
<1> DEFINE f == Top(t)
<1>1. f \in Frame /\ Good(f) /\ UNCHANGED <<record, remote, queue, gitVars, budget>>
  BY TopFrame DEF ApplyPlan
<1>2. CASE FailJob /\ thread' = Goto(t, Done(f))
  <2>1. Store!Next /\ StoreInv' /\ Onward /\ AllQuiet
    BY <1>2, FailJobStep, FailJobNext DEF RunsInv
  <2> QED BY <1>1, <1>2, <2>1, DoneInNext, QuietCall DEF DoneGood
<1> DEFINE g == [f EXCEPT !.todo = Ready(planned', task')]
<1>3. CASE /\ \E n \in budget.plans : \E deps \in [1..n -> SUBSET (1..n)] : SubmitPlan(n, deps)
           /\ thread' = Goto(t, Continue(g))
  <2>0. PICK n \in budget.plans : \E deps \in [1..n -> SUBSET (1..n)] : SubmitPlan(n, deps)
    BY <1>3
  <2>1. PICK deps \in [1..n -> SUBSET (1..n)] : SubmitPlan(n, deps)
    BY <2>0
  <2>a. n \in Keys
    BY DEF RunsInv, Scenario
  <2>2. Store!Next /\ StoreInv' /\ Onward /\ AllQuiet
    BY <2>1, <2>a, SubmitPlanStep, SubmitPlanNext DEF RunsInv
  <2>3. StoreTypeOK'
    BY <2>2, StoreTypeStep DEF RunsInv
  <2>4. Continue(g) \in Frames'
    BY <1>1, <2>2, <2>3, TodoKept DEF AllQuiet, gitVars, historyVars
  <2> QED BY <1>1, <1>3, <2>2, <2>4, QuietCall
<1>4. CASE UNCHANGED storeVars /\ thread' = Goto(t, Continue(g))
  <2>1. StoreInv' /\ Onward /\ AllQuiet /\ StoreTypeOK' /\ UNCHANGED <<tree, merged, adopted>>
    BY <1>1, <1>4, UnchangedStore DEF RunsInv, StoreTypeOK, storeVars, gitVars, historyVars
  <2>2. Continue(g) \in Frames'
    BY <1>1, <2>1, TodoKept DEF AllQuiet
  <2>3. thread' \in [Threads -> Seq(Frames')]
    BY <1>1, <1>4, <2>1, <2>2, GotoKept DEF RunsOn, GitOn
  <2> QED BY <1>1, <1>4, <2>1, <2>3, StoreStep DEF AllQuiet, RunsInv, Kept, RunsOn
<1> QED BY <1>1, <1>2, <1>3, <1>4 DEF ApplyPlan

LEMMA PcFrame ==
  ASSUME NEW f \in Frame, NEW p \in Calls, NEW g, g = [f EXCEPT !.pc = p]
  PROVE  /\ g \in Frame /\ g.pc = p /\ g.run = f.run /\ g.item = f.item /\ g.todo = f.todo
         /\ g.publish = f.publish /\ g.sha = f.sha
BY DEF Frame

----------------------------------------------------------------------------
(* startReadyWriters and startWriter. *)

LEMMA WorktreeKept ==
  ASSUME RunsInv, NEW k \in PlanKeys, Startable(k), tree' = Worktree(k), UNCHANGED historyVars
  PROVE  /\ GitOn /\ tree' \in [Keys -> Tree]
         /\ tree'[k].head \in SHAs /\ tree'[k].head # NoSHA
         /\ \A j \in PlanKeys : GitSteady(j)
         /\ \A j \in Keys \ PlanKeys : tree'[j] = tree[j] /\ merged'[j] = merged[j]
         /\ UNCHANGED <<merged, adopted>> /\ adopted' \subseteq Keys
<1>1. k \in Keys /\ tree \in [Keys -> Tree] /\ UNCHANGED <<merged, adopted>>
  BY PlanKeysType DEF RunsInv, GitKept, historyVars
<1>2. 1 \in SHAs
  BY StoreAssumption DEF SHAs
<1>3. /\ tree' \in [Keys -> Tree] /\ \A j \in Keys : j # k => tree'[j] = tree[j]
      /\ tree'[k].head = IF tree[k].head = NoSHA THEN 1 ELSE tree[k].head
  BY <1>1, <1>2 DEF Worktree, Tree
<1>4. tree'[k].head \in SHAs /\ tree'[k].head # NoSHA
  BY <1>1, <1>2, <1>3 DEF Tree, NoSHA
<1>5. GitOn
  BY <1>1, <1>3, <1>4 DEF GitOn
<1>6. \A j \in PlanKeys : GitSteady(j)
  BY <1>1, <1>3, PlanKeysType DEF GitSteady, RunsInv
<1>7. \A j \in Keys \ PlanKeys : tree'[j] = tree[j] /\ merged'[j] = merged[j]
  BY <1>1, <1>3
<1>8. adopted' \subseteq Keys
  BY <1>1 DEF RunsInv
<1> QED BY <1>1, <1>3, <1>4, <1>5, <1>6, <1>7, <1>8

LEMMA BaseKept ==
  ASSUME RunsInv, NEW t \in Busy, Base(t)
  PROVE  Kept
<1>f. PICK f : f = Top(t)
  OBVIOUS
<1> DEFINE k == f.item.key
<1>g. PICK g : g = [f EXCEPT !.pc = "writer", !.item = ItemOf(task', k)]
  OBVIOUS
<1>1. f \in Frame /\ Good(f) /\ f.pc = "base" /\ ToStart(f.item)
  BY <1>f, TopFrame DEF Base, At, Top, Good
<1>2. /\ GitOn /\ tree' \in [Keys -> Tree]
      /\ tree'[k].head \in SHAs /\ tree'[k].head # NoSHA
      /\ \A j \in PlanKeys : GitSteady(j)
      /\ \A j \in Keys \ PlanKeys : tree'[j] = tree[j] /\ merged'[j] = merged[j]
      /\ UNCHANGED <<merged, adopted>> /\ adopted' \subseteq Keys
  BY <1>1, <1>f, WorktreeKept DEF Base, ToStart
<1>3. k \in PlanKeys /\ k \in Keys
  BY <1>1, PlanKeysType DEF ToStart, RunsInv
<1>4. /\ UNCHANGED <<record, remote, queue, budget>> /\ tree' = Worktree(k)
      /\ \/ RecordTaskBase(k, Worktree(k)[k].head) /\ thread' = Goto(t, g)
         \/ UNCHANGED storeVars /\ thread' = Return(t)
  BY <1>f, <1>g, TryCases DEF Base
<1>5. RunsOn
  BY <1>4 DEF RunsOn
<1>6. CASE RecordTaskBase(k, Worktree(k)[k].head) /\ thread' = Goto(t, g)
  <2>1. StoreInv' /\ Onward /\ AllQuiet /\ Store!Next
    BY <1>2, <1>3, <1>4, <1>6, RecordTaskBaseStep, RecordTaskBaseNext DEF RunsInv
  <2>2. StoreTypeOK' /\ task'[k] \in Task
    BY <1>3, <2>1, StoreTypeStep DEF RunsInv, StoreTypeOK
  <2>3. ItemOf(task', k) \in Item /\ ItemOf(task', k).key = k
    BY <1>3, <2>2, ItemType DEF ItemOf
  <2>4. g \in Frames'
    <3>1. /\ g \in Frame /\ g.pc = "writer" /\ g.item.key = k /\ g.todo = f.todo
          /\ g.publish = f.publish /\ g.sha = f.sha
      BY <1>1, <1>g, <2>3 DEF Frame, Calls
    <3>2. /\ \A i \in f.todo : ToStart(i)'
          /\ ToStart(f.item)'
      BY <1>1, <1>2, <1>5, <2>1, ToStartStays DEF Good
    <3>3. f.publish # "no" => f.sha # NoSHA /\ job'.integrationSHA # NoSHA
      BY <1>1, <2>1 DEF Good, Onward
    <3>4. ToStart(g.item)'
      BY <3>1, <3>2 DEF ToStart
    <3>5. Good(g)'
      BY <3>1, <3>2, <3>3, <3>4 DEF Good
    <3> QED BY <3>1, <3>5 DEF Frames
  <2>5. thread' \in [Threads -> Seq(Frames')]
    BY <1>2, <1>5, <1>6, <2>1, <2>4, GotoKept
  <2>6. RunsKept' /\ GitKept'
    BY <1>2, <1>4, <1>5, <2>1, AnswersStay DEF RunsInv, RunsKept, GitKept
  <2>7. RunsInv'
    BY <1>2, <1>4, <1>5, <2>1, <2>2, <2>5, <2>6, KeptStep DEF AllQuiet, RunsInv
  <2> QED BY <1>5, <2>1, <2>7 DEF Kept
<1>7. CASE UNCHANGED storeVars /\ thread' = Return(t)
  <2>1. Onward
    BY <1>7, UnchangedStore DEF RunsInv
  <2>2. thread' \in [Threads -> Seq(Frames')]
    BY <1>2, <1>5, <1>7, <2>1, ReturnKept
  <2>3. RunsKept' /\ GitKept'
    BY <1>2, <1>4, <1>5, <2>1, AnswersStay DEF RunsInv, RunsKept, GitKept
  <2> QED BY <1>2, <1>4, <1>5, <1>7, <2>2, <2>3, RunStep DEF RunsInv
<1> QED BY <1>4, <1>6, <1>7

LEMMA StartWriterRunKept ==
  ASSUME RunsInv, NEW t \in Busy, StartWriterRun(t)
  PROVE  Kept
<1>f. PICK f : f = Top(t)
  OBVIOUS
<1>g. PICK g : g = [f EXCEPT !.pc = "work"]
  OBVIOUS
<1> DEFINE d == Writer(f.item.key, f.item.attempt)
<1>1. f \in Frame /\ Good(f) /\ f.pc = "writer" /\ ToStart(f.item)
  BY <1>f, TopFrame DEF StartWriterRun, At, Top, Good
<1>2. /\ tree' = Worktree(f.item.key) /\ Start(t, d, Goto(t, g))
      /\ UNCHANGED <<storeVars, historyVars, budget>>
  BY <1>f, <1>g DEF StartWriterRun
<1>3. /\ GitOn /\ tree' \in [Keys -> Tree]
      /\ tree'[f.item.key].head # NoSHA
      /\ \A j \in PlanKeys : GitSteady(j)
      /\ \A j \in Keys \ PlanKeys : tree'[j] = tree[j] /\ merged'[j] = merged[j]
      /\ UNCHANGED <<merged, adopted>> /\ adopted' \subseteq Keys
  BY <1>1, <1>2, WorktreeKept DEF ToStart
<1>4. d \in Runs /\ d.key = f.item.key /\ Known(d)
  BY <1>1, <1>2 DEF Start, Writer, Known, ToStart
<1>5. RunsOn /\ RunsKept'
  BY <1>2, <1>4, StartRuns DEF storeVars
<1>6. Onward
  BY <1>2, UnchangedStore DEF RunsInv
<1>7. g \in Frames'
  <2>1. /\ g \in Frame /\ g.pc = "work" /\ g.item = f.item /\ g.todo = f.todo
        /\ g.publish = f.publish /\ g.sha = f.sha
    BY <1>1, <1>g, PcFrame DEF Calls
  <2>2. /\ \A i \in f.todo : ToStart(i)'
        /\ ToStart(f.item)'
    BY <1>1, <1>3, <1>5, <1>6, ToStartStays DEF Good
  <2>3. f.publish # "no" => f.sha # NoSHA /\ job'.integrationSHA # NoSHA
    BY <1>1, <1>6 DEF Good, Onward
  <2>4. Good(g)'
    BY <1>3, <1>4, <2>1, <2>2, <2>3 DEF Good
  <2> QED BY <2>1, <2>4 DEF Frames
<1>8. thread' \in [Threads -> Seq(Frames')]
  <2>1. Known(d)'
    BY <1>2, <1>4 DEF Known, PlanKeys, storeVars
  <2>2. Goto(t, g) \in [Threads -> Seq(Frames')]
    BY <1>3, <1>5, <1>6, <1>7, GotoKept
  <2> QED BY <1>2, <2>1, <2>2, StartStacks
<1>9. GitKept'
  BY <1>2, <1>3 DEF RunsInv, GitKept, PlanKeys, storeVars
<1> QED BY <1>2, <1>3, <1>5, <1>8, <1>9, RunStep DEF RunsInv

\* What a frame hands on to the one that follows it.
LEMMA HandedOn ==
  ASSUME RunsInv, Onward, RunsOn, GitOn, NEW f, Good(f)
  PROVE  /\ \A i \in f.todo : ToStart(i)'
         /\ f.publish # "no" => f.sha # NoSHA /\ job'.integrationSHA # NoSHA
BY ToStartStays DEF Good, Onward

LEMMA WorkKept ==
  ASSUME RunsInv, NEW t \in Busy, Work(t)
  PROVE  Kept
<1>f. PICK f : f = Top(t)
  OBVIOUS
<1> DEFINE k == f.item.key
           d == Writer(k, f.item.attempt)
<1>1. /\ f \in Frame /\ Good(f) /\ f.pc = "work"
      /\ ToStart(f.item) /\ tree[k].head # NoSHA /\ d \in Runs
  BY <1>f, TopFrame DEF Work, At, Top, Good
<1>2. /\ UNCHANGED <<record, remote, queue, gitVars, budget>>
      /\ task[k].writerAttempts < MaxAttempts
      /\ \/ StartTaskWork(k, d) /\ thread' = Goto(t, Continue(f))
         \/ UNCHANGED storeVars /\ thread' = Return(t)
  BY <1>f, TryCases DEF Work
<1>3. CASE StartTaskWork(k, d) /\ thread' = Goto(t, Continue(f))
  <2>1. k \in PlanKeys
    BY <1>1 DEF ToStart
  <2>2. /\ StoreInv' /\ Onward /\ QuietBut(k) /\ Store!Next
        /\ \/ Quiet(task[k], task'[k])
           \/ ~Finished(task'[k]) /\ task'[k].verdict = "pending"
    BY <1>1, <1>2, <1>3, <2>1, StartTaskWorkStep, StartTaskWorkNext DEF RunsInv
  <2>3. UNCHANGED <<tree, merged, adopted>> /\ RunsOn /\ GitOn /\ adopted' \subseteq Keys
    BY <1>2 DEF gitVars, historyVars, RunsOn, GitOn, RunsInv
  <2>4. Continue(f) \in Frames'
    BY <1>1, <2>2, <2>3, HandedOn, ContinueInNext DEF ContinueGood
  <2>5. CASE Quiet(task[k], task'[k])
    <3>1. \A j \in PlanKeys : Quiet(task[j], task'[j])
      BY <2>2, <2>5 DEF QuietBut
    <3> QED BY <1>2, <1>3, <2>2, <2>3, <2>4, <3>1, StoreCall
  <2>6. CASE ~Finished(task'[k]) /\ task'[k].verdict = "pending"
    <3>1. Evidence(k)
      BY <2>1 DEF RunsInv
    <3>2. Startable(k)' /\ task'[k].deps \subseteq PlanKeys'
      BY <1>1, <2>1, <2>2, <2>3, AnswersStay DEF ToStart
    <3>3. merged'[k] # NoSHA => Approver(k)'
      BY <2>2, <2>3, <3>1, AnswersStay DEF Evidence
    <3>4. Evidence(k)'
      BY <1>1, <2>3, <2>6, <3>2, <3>3 DEF Evidence
    <3>5. \A j \in PlanKeys : Quiet(task[j], task'[j]) \/ Evidence(j)'
      BY <2>2, <3>4 DEF QuietBut
    <3> QED BY <1>2, <1>3, <2>2, <2>3, <2>4, <3>5, StoreCall
  <2> QED BY <2>2, <2>5, <2>6
<1>4. CASE UNCHANGED storeVars /\ thread' = Return(t)
  BY <1>2, <1>4, Refused
<1> QED BY <1>2, <1>3, <1>4

----------------------------------------------------------------------------
(* applyWriter. *)

LEMMA ReviewNextIn ==
  ASSUME NEW f \in Frame, f.run.key \in Keys, NEW u \in Task
  PROVE  LET g == ReviewNext(f, u)
         IN /\ g \in Frame /\ g.pc = "review" /\ g.item.key = f.run.key /\ g.todo = f.todo
            /\ g.publish = f.publish /\ g.sha = f.sha
<1>1. u.reviewerAttempts + 1 \in Nat
  BY DEF Task
<1> QED BY <1>1 DEF ReviewNext, Frame, Item, Calls

LEMMA ApplyWriterKept ==
  ASSUME RunsInv, NEW t \in Busy, ApplyWriter(t)
  PROVE  Kept
<1>f. PICK f : f = Top(t)
  OBVIOUS
<1> DEFINE d == f.run
<1>1. /\ f \in Frame /\ Good(f) /\ Known(d) /\ d.role = "writer" /\ d.key \in PlanKeys
      /\ UNCHANGED <<record, remote, queue, gitVars, budget>>
  BY <1>f, TopFrame DEF ApplyWriter, At, Top, Good, Known
<1>2. \/ BlockTask(d.key) /\ thread' = Goto(t, Done(f))
      \/ UNCHANGED storeVars /\ thread' = Return(t)
      \/ UNCHANGED storeVars /\ thread' = Goto(t, ReviewNext(f, task[d.key]))
      \/ /\ task[d.key].status = "working"
         /\ UNCHANGED storeVars /\ thread' = Goto(t, [f EXCEPT !.pc = "tree"])
      \/ UNCHANGED storeVars /\ thread' = Goto(t, Done(f))
  BY <1>f DEF ApplyWriter, Advanced
<1>3. CASE BlockTask(d.key) /\ thread' = Goto(t, Done(f))
  <2>1. StoreInv' /\ Onward /\ AllQuiet /\ Store!Next
    BY <1>1, <1>3, BlockTaskStep, BlockTaskNext DEF RunsInv
  <2> QED BY <1>1, <1>3, <2>1, DoneInNext, QuietCall DEF DoneGood
<1>4. CASE UNCHANGED storeVars /\ thread' = Return(t)
  BY <1>1, <1>4, Refused
<1>5. CASE UNCHANGED storeVars /\ thread' = Goto(t, ReviewNext(f, task[d.key]))
  <2>g. PICK g : g = ReviewNext(f, task[d.key])
    OBVIOUS
  <2>1. d.key \in Keys /\ task[d.key] \in Task
    BY <1>1, PlanKeysType DEF RunsInv
  <2>2. /\ g \in Frame /\ g.pc = "review" /\ g.item.key = d.key /\ g.todo = f.todo
        /\ g.publish = f.publish /\ g.sha = f.sha
    BY <1>1, <2>g, <2>1, ReviewNextIn
  <2>3. g \in Frames
    BY <1>1, <2>2 DEF Frames, Good
  <2> QED BY <1>1, <1>5, <2>g, <2>3, Moved
<1>6. CASE /\ task[d.key].status = "working"
           /\ UNCHANGED storeVars /\ thread' = Goto(t, [f EXCEPT !.pc = "tree"])
  <2>g. PICK g : g = [f EXCEPT !.pc = "tree"]
    OBVIOUS
  <2>1. /\ g \in Frame /\ g.pc = "tree" /\ g.run = d /\ g.todo = f.todo
        /\ g.publish = f.publish /\ g.sha = f.sha
    BY <1>1, <2>g, PcFrame DEF Calls
  <2>e. tree[d.key].head # NoSHA
    BY <1>1, <1>6 DEF RunsInv, Evidence, Begun
  <2>2. g \in Frames
    BY <1>1, <2>1, <2>e DEF Frames, Good
  <2> QED BY <1>1, <1>6, <2>g, <2>2, Moved
<1>7. CASE UNCHANGED storeVars /\ thread' = Goto(t, Done(f))
  BY <1>1, <1>7, DoneIn, Moved DEF DoneGood
<1> QED BY <1>2, <1>3, <1>4, <1>5, <1>6, <1>7

LEMMA CommitKept ==
  ASSUME RunsInv, NEW t \in Busy, Commit(t)
  PROVE  Kept
<1>f. PICK f : f = Top(t)
  OBVIOUS
<1> DEFINE k == f.run.key
           sha == tree[k].head + 1
<1>1. /\ f \in Frame /\ Good(f) /\ f.pc = "tree" /\ Known(f.run) /\ f.run.role = "writer"
      /\ k \in PlanKeys /\ k \in Keys
      /\ UNCHANGED <<storeVars, record, remote, queue, historyVars, budget>>
  BY <1>f, TopFrame, PlanKeysType DEF Commit, At, Top, Good, Known, RunsInv
<1>2. \/ /\ sha \in SHAs /\ tree' = [tree EXCEPT ![k] = [head |-> sha, dirty |-> FALSE]]
         /\ thread' = Goto(t, [f EXCEPT !.pc = "complete", !.sha = sha])
      \/ /\ remote[f.run].says = "no_changes" /\ UNCHANGED tree
         /\ thread' = Goto(t, [f EXCEPT !.pc = "nochanges"])
      \/ thread' = Return(t) /\ UNCHANGED tree
  BY <1>f DEF Commit
<1>3. CASE /\ sha \in SHAs /\ tree' = [tree EXCEPT ![k] = [head |-> sha, dirty |-> FALSE]]
           /\ thread' = Goto(t, [f EXCEPT !.pc = "complete", !.sha = sha])
  <2>n. PICK n : n = sha
    OBVIOUS
  <2>g. PICK g : g = [f EXCEPT !.pc = "complete", !.sha = n]
    OBVIOUS
  <2>1. n \in SHAs /\ n # NoSHA
    BY <1>3, <2>n DEF SHAs, NoSHA
  <2>2. tree[k].head # NoSHA
    BY <1>1 DEF Good
  <2>3. /\ tree \in [Keys -> Tree] /\ tree' = [tree EXCEPT ![k] = [head |-> n, dirty |-> FALSE]]
        /\ thread' = Goto(t, g) /\ UNCHANGED <<merged, adopted>>
    BY <1>1, <1>3, <2>n, <2>g DEF RunsInv, GitKept, historyVars
  <2>4. /\ tree' \in [Keys -> Tree] /\ \A j \in Keys : j # k => tree'[j] = tree[j]
        /\ tree'[k].head = n
    BY <1>1, <2>1, <2>3 DEF Tree
  <2>5. GitOn /\ \A j \in PlanKeys : GitSteady(j)
    BY <1>1, <2>1, <2>2, <2>3, <2>4, PlanKeysType DEF GitOn, GitSteady, RunsInv
  <2>6. RunsOn /\ Onward
    BY <1>1, UnchangedStore DEF RunsOn, RunsInv
  <2>7. RunsKept' /\ GitKept'
    BY <1>1, <2>3, <2>4, <2>6 DEF RunsInv, RunsKept, GitKept, Known, PlanKeys, storeVars
  <2>8. g \in Frames'
    <3>1. /\ g \in Frame /\ g.pc = "complete" /\ g.run = f.run /\ g.todo = f.todo
          /\ g.publish = f.publish /\ g.sha = n
      BY <1>1, <2>g, <2>1 DEF Frame, Calls
    <3>2. Known(f.run)' /\ \A i \in f.todo : ToStart(i)'
      BY <1>1, <2>5, <2>6, AnswersStay, HandedOn
    <3>3. f.publish # "no" => job'.integrationSHA # NoSHA
      BY <1>1, <2>6 DEF Good, Onward
    <3> QED BY <1>1, <2>1, <3>1, <3>2, <3>3 DEF Good, Frames
  <2>9. thread' \in [Threads -> Seq(Frames')]
    BY <2>3, <2>5, <2>6, <2>8, GotoKept
  <2> QED BY <1>1, <2>3, <2>4, <2>5, <2>6, <2>7, <2>9, RunStep DEF RunsInv
<1>4. CASE /\ remote[f.run].says = "no_changes" /\ UNCHANGED tree
           /\ thread' = Goto(t, [f EXCEPT !.pc = "nochanges"])
  <2>g. PICK g : g = [f EXCEPT !.pc = "nochanges"]
    OBVIOUS
  <2>1. /\ g \in Frame /\ g.pc = "nochanges" /\ g.run = f.run /\ g.todo = f.todo
        /\ g.publish = f.publish /\ g.sha = f.sha
    BY <1>1, <2>g, PcFrame DEF Calls
  <2>2. g \in Frames
    BY <1>1, <1>4, <2>1 DEF Frames, Good
  <2> QED BY <1>1, <1>4, <2>g, <2>2, Moved DEF gitVars
<1>5. CASE thread' = Return(t) /\ UNCHANGED tree
  BY <1>1, <1>5, Refused DEF gitVars
<1> QED BY <1>2, <1>3, <1>4, <1>5

LEMMA CompleteKept ==
  ASSUME RunsInv, NEW t \in Busy, Complete(t)
  PROVE  Kept
<1>f. PICK f : f = Top(t)
  OBVIOUS
<1>g. PICK g : g = ReviewNext(f, task'[f.run.key])
  OBVIOUS
<1> DEFINE k == f.run.key
<1>1. /\ f \in Frame /\ Good(f) /\ f.pc = "complete" /\ Known(f.run)
      /\ k \in PlanKeys /\ k \in Keys /\ f.sha \in SHAs /\ f.run \in Runs
      /\ UNCHANGED gitVars
  BY <1>f, TopFrame, PlanKeysType DEF Complete, At, Top, Good, Known, RunsInv, Frame
<1>2. /\ UNCHANGED <<record, remote, queue, budget>>
      /\ \/ RecordWriterCompletion(k, f.run, f.sha) /\ thread' = Goto(t, g)
         \/ UNCHANGED storeVars /\ thread' = Return(t)
  BY <1>f, <1>g, TryCases DEF Complete
<1>3. CASE RecordWriterCompletion(k, f.run, f.sha) /\ thread' = Goto(t, g)
  <2>1. StoreInv' /\ Onward /\ AllQuiet /\ Store!Next
    BY <1>1, <1>3, RecordWriterCompletionStep, RecordWriterCompletionNext DEF RunsInv
  <2>2. StoreTypeOK' /\ task'[k] \in Task
    BY <1>1, <2>1, StoreTypeStep DEF RunsInv, StoreTypeOK
  <2>3. /\ g \in Frame /\ g.pc = "review" /\ g.item.key = k /\ g.todo = f.todo
        /\ g.publish = f.publish /\ g.sha = f.sha
    BY <1>1, <1>g, <2>2, ReviewNextIn
  <2>4. k \in PlanKeys' /\ \A i \in f.todo : ToStart(i)'
    BY <1>1, <1>2, <2>1, HandedOn, AnswersStay DEF RunsOn, GitOn, gitVars, historyVars
  <2>5. f.publish # "no" => f.sha # NoSHA /\ job'.integrationSHA # NoSHA
    BY <1>1, <2>1 DEF Good, Onward
  <2>6. g \in Frames'
    BY <2>3, <2>4, <2>5 DEF Good, Frames
  <2> QED BY <1>1, <1>2, <1>3, <2>1, <2>6, QuietCall
<1>4. CASE UNCHANGED storeVars /\ thread' = Return(t)
  BY <1>1, <1>2, <1>4, Refused
<1> QED BY <1>2, <1>3, <1>4

\* A handler goes on to integrateEligible.
LEMMA IntegrateNext ==
  ASSUME RunsInv, Onward, UNCHANGED <<remote, tree, merged>>, NEW f \in Frame, Good(f),
         NEW g, g = [f EXCEPT !.pc = "integrate"]
  PROVE  g \in Frames'
<1>1. /\ g \in Frame /\ g.pc = "integrate" /\ g.todo = f.todo
      /\ g.publish = f.publish /\ g.sha = f.sha
  BY PcFrame DEF Calls
<1>2. /\ \A i \in f.todo : ToStart(i)'
      /\ f.publish # "no" => f.sha # NoSHA /\ job'.integrationSHA # NoSHA
  BY HandedOn DEF RunsOn, GitOn
<1> QED BY <1>1, <1>2 DEF Good, Frames

LEMMA NoChangesKept ==
  ASSUME RunsInv, NEW t \in Busy, NoChanges(t)
  PROVE  Kept
<1>f. PICK f : f = Top(t)
  OBVIOUS
<1>g. PICK g : g = [f EXCEPT !.pc = "integrate"]
  OBVIOUS
<1> DEFINE k == f.run.key
<1>1. /\ f \in Frame /\ Good(f) /\ f.pc = "nochanges" /\ Known(f.run) /\ f.run.role = "writer"
      /\ k \in PlanKeys /\ f.run \in Runs /\ remote[f.run].says = "no_changes"
      /\ UNCHANGED gitVars
  BY <1>f, TopFrame DEF NoChanges, At, Top, Good, Known
<1>2. /\ UNCHANGED <<record, remote, queue, budget>>
      /\ \/ RecordNoChanges(k, f.run) /\ thread' = Goto(t, g)
         \/ UNCHANGED storeVars /\ thread' = Return(t)
  BY <1>f, <1>g, TryCases DEF NoChanges
<1>3. CASE RecordNoChanges(k, f.run) /\ thread' = Goto(t, g)
  <2>1. /\ StoreInv' /\ Onward /\ QuietBut(k) /\ Store!Next
        /\ \/ Quiet(task[k], task'[k])
           \/ /\ task[k].status = "working" /\ task'[k].verdict = task[k].verdict
              /\ task'[k].reviewerRun = task[k].reviewerRun
    BY <1>1, <1>3, RecordNoChangesStep, RecordNoChangesNext DEF RunsInv
  <2>2. /\ UNCHANGED <<tree, merged, adopted>> /\ RunsOn /\ GitOn /\ adopted' \subseteq Keys
    BY <1>1, <1>2 DEF gitVars, historyVars, RunsOn, GitOn, RunsInv
  <2>3. g \in Frames'
    BY <1>1, <1>2, <1>g, <2>1, <2>2, IntegrateNext
  <2>4. CASE task[k].status = "working" /\ task'[k].verdict = task[k].verdict
             /\ task'[k].reviewerRun = task[k].reviewerRun
    <3>1. Evidence(k) /\ Delivered(k)'
      BY <1>1, <1>2 DEF RunsInv, Delivered
    <3>2. Begun(task[k]) /\ tree'[k].head # NoSHA
      BY <2>2, <2>4, <3>1 DEF Evidence, Begun
    <3>3. /\ Startable(k)' /\ task'[k].deps \subseteq PlanKeys'
          /\ merged'[k] # NoSHA => Approver(k)'
      BY <1>1, <2>1, <2>2, <3>1, <3>2, AnswersStay DEF Evidence
    <3>4. Evidence(k)'
      BY <1>2, <2>4, <3>1, <3>2, <3>3 DEF Evidence
    <3>5. \A j \in PlanKeys : Quiet(task[j], task'[j]) \/ Evidence(j)'
      BY <2>1, <3>4 DEF QuietBut
    <3> QED BY <1>2, <1>3, <2>1, <2>2, <2>3, <3>5, StoreCall
  <2>5. CASE Quiet(task[k], task'[k])
    <3>1. \A j \in PlanKeys : Quiet(task[j], task'[j])
      BY <2>1, <2>5 DEF QuietBut
    <3> QED BY <1>2, <1>3, <2>1, <2>2, <2>3, <3>1, StoreCall
  <2> QED BY <2>1, <2>4, <2>5
<1>4. CASE UNCHANGED storeVars /\ thread' = Return(t)
  BY <1>1, <1>2, <1>4, Refused
<1> QED BY <1>2, <1>3, <1>4

LEMMA StartReviewerRunKept ==
  ASSUME RunsInv, NEW t \in Busy, StartReviewerRun(t)
  PROVE  Kept
<1>f. PICK f : f = Top(t)
  OBVIOUS
<1>g. PICK g : g = [f EXCEPT !.pc = "own"]
  OBVIOUS
<1> DEFINE d == Reviewer(f.item.key, f.item.attempt)
<1>1. f \in Frame /\ Good(f) /\ f.item.key \in PlanKeys
  BY <1>f, TopFrame DEF StartReviewerRun, At, Top, Good
<1>2. Start(t, d, Goto(t, g)) /\ UNCHANGED <<storeVars, gitVars, budget>>
  BY <1>f, <1>g DEF StartReviewerRun
<1>3. d \in Runs /\ Known(d) /\ Known(d)'
  BY <1>1, <1>2 DEF Start, Reviewer, Known, PlanKeys, storeVars
<1>4. RunsOn /\ RunsKept'
  BY <1>2, <1>3, StartRuns DEF storeVars
<1>5. Onward /\ GitOn /\ UNCHANGED <<tree, merged, adopted>>
  BY <1>2, UnchangedStore DEF RunsInv, GitOn, gitVars, historyVars
<1>6. g \in Frames'
  <2>1. /\ g \in Frame /\ g.pc = "own" /\ g.item = f.item /\ g.todo = f.todo
        /\ g.publish = f.publish /\ g.sha = f.sha
    BY <1>1, <1>g, PcFrame DEF Calls
  <2>2. f.item.key \in PlanKeys' /\ \A i \in f.todo : ToStart(i)'
    BY <1>1, <1>4, <1>5, HandedOn, AnswersStay
  <2>3. f.publish # "no" => f.sha # NoSHA /\ job'.integrationSHA # NoSHA
    BY <1>1, <1>5 DEF Good, Onward
  <2> QED BY <1>3, <2>1, <2>2, <2>3 DEF Good, Frames
<1>7. thread' \in [Threads -> Seq(Frames')]
  BY <1>2, <1>3, <1>4, <1>5, <1>6, GotoKept, StartStacks
<1> QED BY <1>2, <1>4, <1>5, <1>7, RunStep DEF RunsInv, GitKept, GitSteady, PlanKeys, storeVars

LEMMA OwnReviewKept ==
  ASSUME RunsInv, NEW t \in Busy, OwnReview(t)
  PROVE  Kept
<1>f. PICK f : f = Top(t)
  OBVIOUS
<1> DEFINE k == f.item.key
           d == Reviewer(k, f.item.attempt)
<1>1. f \in Frame /\ Good(f) /\ k \in PlanKeys /\ d \in Runs /\ UNCHANGED gitVars
  BY <1>f, TopFrame DEF OwnReview, At, Top, Good
<1>2. /\ UNCHANGED <<record, remote, queue, budget>>
      /\ \/ StartReviewer(k, d) /\ thread' = Goto(t, Done(f))
         \/ UNCHANGED storeVars /\ thread' = Return(t)
  BY <1>f, TryCases DEF OwnReview
<1>3. CASE StartReviewer(k, d) /\ thread' = Goto(t, Done(f))
  <2>1. StoreInv' /\ Onward /\ AllQuiet /\ Store!Next
    BY <1>1, <1>3, StartReviewerStep, StartReviewerNext DEF RunsInv
  <2> QED BY <1>1, <1>2, <1>3, <2>1, DoneInNext, QuietCall DEF DoneGood
<1>4. CASE UNCHANGED storeVars /\ thread' = Return(t)
  BY <1>1, <1>2, <1>4, Refused
<1> QED BY <1>2, <1>3, <1>4

----------------------------------------------------------------------------
(* applyReview. *)

LEMMA ApplyReviewKept ==
  ASSUME RunsInv, NEW t \in Busy, ApplyReview(t)
  PROVE  Kept
<1>f. PICK f : f = Top(t)
  OBVIOUS
<1> DEFINE d == f.run
<1>1. /\ f \in Frame /\ Good(f) /\ Known(d) /\ d \in Runs /\ d.role = "reviewer" /\ d.key \in PlanKeys
      /\ remote[d].status = "ended"
      /\ UNCHANGED <<record, remote, queue, gitVars, budget>>
  BY <1>f, TopFrame DEF ApplyReview, At, Top, Good, Known
<1>2. \/ BlockTask(d.key) /\ thread' = Goto(t, Done(f))
      \/ UNCHANGED storeVars /\ thread' = Goto(t, Done(f))
      \/ remote[d].says # "failed" /\ UNCHANGED storeVars /\ thread' = Goto(t, Call("report", d))
  BY <1>f DEF ApplyReview
<1>3. CASE BlockTask(d.key) /\ thread' = Goto(t, Done(f))
  <2>1. StoreInv' /\ Onward /\ AllQuiet /\ Store!Next
    BY <1>1, <1>3, BlockTaskStep, BlockTaskNext DEF RunsInv
  <2> QED BY <1>1, <1>3, <2>1, DoneInNext, QuietCall DEF DoneGood
<1>4. CASE UNCHANGED storeVars /\ thread' = Goto(t, Done(f))
  BY <1>1, <1>4, DoneIn, Moved DEF DoneGood
<1>5. CASE remote[d].says # "failed" /\ UNCHANGED storeVars /\ thread' = Goto(t, Call("report", d))
  <2>1. remote[d].says \in Verdicts /\ remote[d].feedback \in Feedbacks
    BY <1>1, <1>5 DEF RunsInv, RunsKept
  <2>g. PICK g : g = Call("report", d)
    OBVIOUS
  <2>2. g \in Frame /\ g.pc = "report" /\ g.run = d /\ g.todo = {} /\ g.publish = "no"
    BY <1>1, <2>g, CallType DEF Calls
  <2>3. g \in Frames
    BY <1>1, <2>1, <2>2 DEF Good, Frames
  <2> QED BY <1>1, <1>5, <2>g, <2>3, Moved
<1> QED BY <1>2, <1>3, <1>4, <1>5

LEMMA FileReportKept ==
  ASSUME RunsInv, NEW t \in Busy, FileReport(t)
  PROVE  Kept
<1>f. PICK f : f = Top(t)
  OBVIOUS
<1>g. PICK g : g = [f EXCEPT !.pc = "verdict"]
  OBVIOUS
<1> DEFINE d == f.run
<1>1. /\ f \in Frame /\ Good(f) /\ f.pc = "report" /\ Known(d) /\ d \in Runs /\ d.role = "reviewer"
      /\ d.key \in PlanKeys /\ remote[d].says \in Verdicts /\ remote[d].feedback \in Feedbacks
      /\ UNCHANGED gitVars
  BY <1>f, TopFrame DEF FileReport, At, Top, Good, Known
<1>2. /\ UNCHANGED <<record, remote, queue, budget>>
      /\ \/ /\ RecordReviewReport(d.key, d, remote[d].says, remote[d].feedback)
            /\ thread' = Goto(t, g)
         \/ UNCHANGED storeVars /\ thread' = Return(t)
  BY <1>f, <1>g, TryCases DEF FileReport
<1>3. CASE /\ RecordReviewReport(d.key, d, remote[d].says, remote[d].feedback)
           /\ thread' = Goto(t, g)
  <2>1. StoreInv' /\ Onward /\ AllQuiet /\ Store!Next
    BY <1>1, <1>3, RecordReviewReportStep, RecordReviewReportNext DEF RunsInv
  <2>2. UNCHANGED <<remote, tree, merged>> /\ RunsOn /\ GitOn
    BY <1>1, <1>2 DEF gitVars, historyVars, RunsOn, GitOn
  <2>3. /\ g \in Frame /\ g.pc = "verdict" /\ g.run = d /\ g.todo = f.todo
        /\ g.publish = f.publish /\ g.sha = f.sha
    BY <1>1, <1>g, PcFrame DEF Calls
  <2>4. Known(d)' /\ \A i \in f.todo : ToStart(i)'
    BY <1>1, <2>1, <2>2, HandedOn, AnswersStay
  <2>5. f.publish # "no" => f.sha # NoSHA /\ job'.integrationSHA # NoSHA
    BY <1>1, <2>1 DEF Good, Onward
  <2>6. g \in Frames'
    BY <1>1, <2>2, <2>3, <2>4, <2>5 DEF Good, Frames
  <2> QED BY <1>1, <1>2, <1>3, <2>1, <2>6, QuietCall
<1>4. CASE UNCHANGED storeVars /\ thread' = Return(t)
  BY <1>1, <1>2, <1>4, Refused
<1> QED BY <1>2, <1>3, <1>4

\* The writer of one task is to start.
LEMMA OneToStart ==
  ASSUME RunsInv, Onward, StoreTypeOK', UNCHANGED <<remote, tree, merged>>,
         NEW f \in Frame, Good(f), NEW k \in PlanKeys, Startable(k)
  PROVE  Continue([f EXCEPT !.todo = {ItemFor(k, task'[k])}]) \in Frames'
<1>i. PICK i : i = ItemFor(k, task'[k])
  OBVIOUS
<1>g. PICK g : g = [f EXCEPT !.todo = {i}]
  OBVIOUS
<1>1. k \in Keys /\ k \in PlanKeys' /\ task'[k] \in Task /\ Startable(k)'
  BY PlanKeysType, AnswersStay DEF RunsInv, StoreTypeOK, RunsOn, GitOn
<1>2. i \in Item /\ i.key = k
  BY <1>i, <1>1, ItemType
<1>3. g \in Frame /\ g.todo = {i} /\ g.publish = f.publish /\ g.sha = f.sha
  BY <1>g, <1>2 DEF Frame
<1>4. \A j \in g.todo : ToStart(j)'
  BY <1>1, <1>2, <1>3 DEF ToStart
<1>5. f.publish # "no" => f.sha # NoSHA /\ job'.integrationSHA # NoSHA
  BY DEF Good, Onward
<1>6. Continue(g) \in Frames'
  BY <1>3, <1>4, <1>5, ContinueInNext DEF ContinueGood
<1> QED BY <1>6, <1>g, <1>i

LEMMA VerdictKept ==
  ASSUME RunsInv, NEW t \in Busy, Verdict(t)
  PROVE  Kept
<1>f. PICK f : f = Top(t)
  OBVIOUS
<1> DEFINE d == f.run
           k == d.key
<1>g. PICK g : g = AfterVerdict(f, remote[d].says, task'[k])
  OBVIOUS
<1>1. /\ f \in Frame /\ Good(f) /\ f.pc = "verdict" /\ Known(d) /\ d \in Runs /\ d.role = "reviewer"
      /\ k \in PlanKeys /\ k \in Keys /\ remote[d].says \in Verdicts
  BY <1>f, TopFrame, PlanKeysType DEF Verdict, At, Top, Good, Known, RunsInv
<1>2. /\ UNCHANGED <<record, remote, queue, budget, tree, merged>>
      /\ \/ RecordReview(k, d, remote[d].says) /\ thread' = Goto(t, g)
         \/ UNCHANGED storeVars /\ thread' = Return(t)
  BY <1>f, <1>g, TryCases DEF Verdict
<1>3. adopted' \subseteq Keys
  BY <1>1, <1>f DEF Verdict, RunsInv
<1>4. CASE RecordReview(k, d, remote[d].says) /\ thread' = Goto(t, g)
  <2>1. /\ StoreInv' /\ Onward /\ QuietBut(k) /\ Store!Next
        /\ task'[k].verdict = remote[d].says /\ task'[k].reviewerRun = d
        /\ Begun(task[k])
        /\ Finished(task'[k]) => Finished(task[k])
    BY <1>1, <1>4, RecordReviewStep, RecordReviewNext DEF RunsInv
  <2>2. StoreTypeOK' /\ RunsOn /\ GitOn
    BY <1>2, <2>1, StoreTypeStep DEF RunsInv, RunsOn, GitOn
  <2>3. Evidence(k) /\ tree[k].head # NoSHA /\ Startable(k)
    BY <1>1, <2>1 DEF RunsInv, Evidence
  <2>4. /\ Startable(k)' /\ task'[k].deps \subseteq PlanKeys'
        /\ merged'[k] # NoSHA => Approver(k)'
        /\ Finished(task'[k]) => Delivered(k)'
        /\ tree'[k].head # NoSHA /\ remote'[d].says = task'[k].verdict
    BY <1>1, <1>2, <2>1, <2>2, <2>3, AnswersStay DEF Evidence
  <2>5. Evidence(k)'
    BY <1>1, <2>1, <2>4 DEF Evidence
  <2>6. \A j \in PlanKeys : Quiet(task[j], task'[j]) \/ Evidence(j)'
    BY <2>1, <2>5 DEF QuietBut
  <2>7. \/ g = [f EXCEPT !.pc = "integrate"]
        \/ g = Continue([f EXCEPT !.todo = {ItemFor(k, task'[k])}])
        \/ g = [f EXCEPT !.pc = "block"]
    BY <1>g DEF AfterVerdict
  <2>8. g \in Frames'
    <3>1. CASE g = [f EXCEPT !.pc = "integrate"]
      BY <1>1, <1>2, <2>1, <3>1, IntegrateNext
    <3>2. CASE g = Continue([f EXCEPT !.todo = {ItemFor(k, task'[k])}])
      BY <1>1, <1>2, <2>1, <2>2, <2>3, <3>2, OneToStart
    <3>3. CASE g = [f EXCEPT !.pc = "block"]
      <4>1. /\ g \in Frame /\ g.pc = "block" /\ g.run = d /\ g.todo = f.todo
            /\ g.publish = f.publish /\ g.sha = f.sha
        BY <1>1, <3>3, PcFrame DEF Calls
      <4>2. Known(d)' /\ \A i \in f.todo : ToStart(i)'
        BY <1>1, <2>1, <2>2, HandedOn, AnswersStay
      <4>3. f.publish # "no" => f.sha # NoSHA /\ job'.integrationSHA # NoSHA
        BY <1>1, <2>1 DEF Good, Onward
      <4> QED BY <1>1, <4>1, <4>2, <4>3 DEF Good, Frames
    <3> QED BY <2>7, <3>1, <3>2, <3>3
  <2> QED BY <1>2, <1>3, <1>4, <2>1, <2>6, <2>8, StoreCall
<1>5. CASE UNCHANGED storeVars /\ thread' = Return(t)
  <2>1. Onward /\ AllQuiet /\ StoreInv' /\ StoreTypeOK' /\ RunsOn /\ GitOn
    BY <1>2, <1>5, UnchangedStore DEF RunsInv, StoreTypeOK, storeVars, RunsOn, GitOn
  <2>2. thread' \in [Threads -> Seq(Frames')]
    BY <1>5, <2>1, ReturnKept
  <2> QED BY <1>2, <1>3, <1>5, <2>1, <2>2, StoreStep DEF AllQuiet, Kept
<1> QED BY <1>2, <1>4, <1>5

LEMMA BlockKept ==
  ASSUME RunsInv, NEW t \in Busy, Block(t)
  PROVE  Kept
<1>f. PICK f : f = Top(t)
  OBVIOUS
<1>1. /\ f \in Frame /\ Good(f) /\ f.run.key \in PlanKeys /\ UNCHANGED gitVars
  BY <1>f, TopFrame DEF Block, At, Top, Good, Known
<1>2. /\ UNCHANGED <<record, remote, queue, budget>>
      /\ \/ BlockTask(f.run.key) /\ thread' = Goto(t, Done(f))
         \/ UNCHANGED storeVars /\ thread' = Return(t)
  BY <1>f, TryCases DEF Block
<1>3. CASE BlockTask(f.run.key) /\ thread' = Goto(t, Done(f))
  <2>1. StoreInv' /\ Onward /\ AllQuiet /\ Store!Next
    BY <1>1, <1>3, BlockTaskStep, BlockTaskNext DEF RunsInv
  <2> QED BY <1>1, <1>2, <1>3, <2>1, DoneInNext, QuietCall DEF DoneGood
<1>4. CASE UNCHANGED storeVars /\ thread' = Return(t)
  BY <1>1, <1>2, <1>4, Refused
<1> QED BY <1>2, <1>3, <1>4

----------------------------------------------------------------------------
(* integrateEligible and startDraftPRCI. *)

PickGood ==
    /\ StoreTypeOK /\ HeadKnown
    /\ \A k \in PlanKeys : /\ Finished(task[k]) => Delivered(k)
                           /\ task[k].deps \subseteq PlanKeys
    => \A f \in Frame :
        /\ \A i \in f.todo : ToStart(i)
        /\ f.publish # "no" => f.sha # NoSHA /\ job.integrationSHA # NoSHA
        => Pick(f, task, job) \in Frames

LEMMA PickIn == PickGood
<1> SUFFICES ASSUME StoreTypeOK, HeadKnown,
                    \A k \in PlanKeys : /\ Finished(task[k]) => Delivered(k)
                                        /\ task[k].deps \subseteq PlanKeys,
                    NEW f \in Frame, \A i \in f.todo : ToStart(i),
                    f.publish # "no" => f.sha # NoSHA /\ job.integrationSHA # NoSHA
             PROVE  Pick(f, task, job) \in Frames
  BY DEF PickGood
<1> DEFINE eligible == {k \in PlanKeys : task[k].status = "integration_eligible"}
<1>1. PlanKeys \subseteq Keys /\ Keys \subseteq Nat
  BY PlanKeysType DEF Keys
<1>2. CASE eligible # {}
  <2>k. PICK k : k = CHOOSE m \in eligible : \A l \in eligible : m <= l
    OBVIOUS
  <2>g. PICK g : g = [f EXCEPT !.pc = "begin", !.item = [NoItem EXCEPT !.key = k]]
    OBVIOUS
  <2>1. \E m \in eligible : \A l \in eligible : m <= l
    BY <1>1, <1>2, NatMin
  <2>2. k \in PlanKeys /\ k \in Keys
    BY <1>1, <2>k, <2>1
  <2>3. /\ g \in Frame /\ g.pc = "begin" /\ g.item.key = k /\ g.todo = f.todo
        /\ g.publish = f.publish /\ g.sha = f.sha
    BY <2>2, <2>g DEF Frame, Calls, Item, NoItem
  <2>4. g \in Frames
    BY <2>2, <2>3 DEF Good, Frames
  <2>5. Pick(f, task, job) = g
    BY <1>2, <2>k, <2>g DEF Pick
  <2> QED BY <2>4, <2>5
<1>3. CASE eligible = {}
  <2>g. PICK g : g = [f EXCEPT !.todo = Ready(planned, task), !.sha = job.integrationSHA,
                               !.publish = IF job.status # "holistic_reviewing" THEN "no"
                                           ELSE IF job.pullRequest THEN "known" ELSE "new"]
    OBVIOUS
  <2>1. /\ Ready(planned, task) \subseteq Item
        /\ \A i \in Ready(planned, task) : ToStart(i)
    BY ReadyToStart DEF ReadyGood
  <2>2. job.integrationSHA \in SHAs \union {NoSHA}
    BY DEF StoreTypeOK, Job
  <2>3. /\ g \in Frame /\ g.todo = Ready(planned, task) /\ g.sha = job.integrationSHA
        /\ g.publish # "no" => job.status = "holistic_reviewing"
    BY <2>1, <2>2, <2>g DEF Frame
  <2>4. g.publish # "no" => g.sha # NoSHA /\ job.integrationSHA # NoSHA
    BY <2>3 DEF HeadKnown
  <2>5. Continue(g) \in Frames
    BY <2>1, <2>3, <2>4, ContinueIn DEF ContinueGood
  <2>6. Pick(f, task, job) = Continue(g)
    BY <1>3, <2>g DEF Pick
  <2> QED BY <2>5, <2>6
<1> QED BY <1>2, <1>3

LEMMA PickInNext == PickGood'
BY PickIn, PTL

LEMMA IntegrateKept ==
  ASSUME RunsInv, NEW t \in Busy, Integrate(t)
  PROVE  Kept
<1>f. PICK f : f = Top(t)
  OBVIOUS
<1>1. /\ f \in Frame /\ Good(f) /\ thread' = Goto(t, Pick(f, task, job))
      /\ UNCHANGED <<storeVars, record, remote, queue, gitVars, budget>>
  BY <1>f, TopFrame DEF Integrate
<1>2. \A k \in PlanKeys : /\ Finished(task[k]) => Delivered(k)
                          /\ task[k].deps \subseteq PlanKeys
  BY DEF RunsInv, Evidence
<1>3. Pick(f, task, job) \in Frames
  BY <1>1, <1>2, PickIn DEF PickGood, RunsInv, StoreInv, Good
<1> QED BY <1>1, <1>3, Moved

LEMMA BeginKept ==
  ASSUME RunsInv, NEW t \in Busy, Begin(t)
  PROVE  Kept
<1>f. PICK f : f = Top(t)
  OBVIOUS
<1>g. PICK g : g = [f EXCEPT !.pc = "merge"]
  OBVIOUS
<1> DEFINE k == f.item.key
<1>1. f \in Frame /\ Good(f) /\ k \in PlanKeys /\ UNCHANGED gitVars
  BY <1>f, TopFrame DEF Begin, At, Top, Good
<1>2. /\ UNCHANGED <<record, remote, queue, budget>>
      /\ \/ StartIntegration(k) /\ thread' = Goto(t, g)
         \/ UNCHANGED storeVars /\ thread' = Return(t)
  BY <1>f, <1>g, TryCases DEF Begin
<1>3. CASE StartIntegration(k) /\ thread' = Goto(t, g)
  <2>1. /\ StoreInv' /\ Onward /\ AllQuiet /\ Store!Next
        /\ task[k].verdict = "approved" /\ Begun(task[k])
    BY <1>1, <1>3, StartIntegrationStep, StartIntegrationNext DEF RunsInv
  <2>2. UNCHANGED <<tree, merged>> /\ RunsOn /\ GitOn
    BY <1>1, <1>2 DEF gitVars, historyVars, RunsOn, GitOn
  <2>3. Approver(k) /\ tree[k].head # NoSHA
    BY <1>1, <2>1 DEF RunsInv, Evidence, Approver
  <2>4. /\ g \in Frame /\ g.pc = "merge" /\ g.item = f.item /\ g.todo = f.todo
        /\ g.publish = f.publish /\ g.sha = f.sha
    BY <1>1, <1>g, PcFrame DEF Calls
  <2>5. /\ k \in PlanKeys' /\ Approver(k)' /\ tree'[k].head # NoSHA
        /\ \A i \in f.todo : ToStart(i)'
    BY <1>1, <2>1, <2>2, <2>3, HandedOn, AnswersStay
  <2>6. f.publish # "no" => f.sha # NoSHA /\ job'.integrationSHA # NoSHA
    BY <1>1, <2>1 DEF Good, Onward
  <2>7. g \in Frames'
    BY <2>4, <2>5, <2>6 DEF Good, Frames
  <2> QED BY <1>1, <1>2, <1>3, <2>1, <2>7, QuietCall
<1>4. CASE UNCHANGED storeVars /\ thread' = Return(t)
  BY <1>1, <1>2, <1>4, Refused
<1> QED BY <1>2, <1>3, <1>4

LEMMA MergeCommitType ==
  ASSUME NEW k \in Keys
  PROVE  MergeCommit(k) \in SHAs
<1> DEFINE others == {j \in Keys : merged[j] # NoSHA /\ j # k}
<1>1. MaxTasks \in Nat /\ MaxSHA \in Nat /\ MaxTasks <= MaxSHA /\ Keys = 1..MaxTasks
  BY StoreAssumption, ScenariosAssumption DEF Keys
<1>2. IsFiniteSet(Keys) /\ Cardinality(Keys) = MaxTasks
  BY <1>1, FS_Interval
<1>3. IsFiniteSet(Keys \ {k}) /\ Cardinality(Keys \ {k}) = MaxTasks - 1
  BY <1>2, FS_RemoveElement
<1>4. others \subseteq Keys \ {k}
  OBVIOUS
<1>5. Cardinality(others) \in Nat /\ Cardinality(others) <= MaxTasks - 1
  BY <1>3, <1>4, FS_Subset, FS_CardinalityType
<1> HIDE DEF others
<1>6. 1 + Cardinality(others) \in 1..MaxSHA
  BY <1>1, <1>5
<1> QED BY <1>6 DEF others, MergeCommit, SHAs

LEMMA MergeKept ==
  ASSUME RunsInv, NEW t \in Busy, Merge(t)
  PROVE  Kept
<1>f. PICK f : f = Top(t)
  OBVIOUS
<1> DEFINE k == f.item.key
<1>s. PICK sha : sha = MergeCommit(k)
  OBVIOUS
<1>g. PICK g : g = [f EXCEPT !.pc = "merged", !.sha = sha]
  OBVIOUS
<1>1. /\ f \in Frame /\ Good(f) /\ f.pc = "merge" /\ k \in PlanKeys /\ k \in Keys
      /\ Approver(k) /\ tree[k].head # NoSHA
  BY <1>f, TopFrame, PlanKeysType DEF Merge, At, Top, Good, RunsInv
<1>2. /\ merged' = [merged EXCEPT ![k] = tree[k].head] /\ thread' = Goto(t, g)
      /\ UNCHANGED <<storeVars, record, remote, queue, tree, adopted, budget>>
  BY <1>f, <1>g, <1>s DEF Merge
<1>3. sha \in SHAs /\ sha # NoSHA
  BY <1>1, <1>s, MergeCommitType DEF SHAs, NoSHA
<1>4. tree[k].head \in SHAs \union {NoSHA} /\ merged \in [Keys -> SHAs \union {NoSHA}]
  BY <1>1 DEF RunsInv, GitKept, Tree
<1>5. /\ merged' \in [Keys -> SHAs \union {NoSHA}] /\ merged'[k] = tree[k].head
      /\ \A j \in Keys : j # k => merged'[j] = merged[j]
  BY <1>1, <1>2, <1>4
<1>6. RunsOn /\ GitOn /\ Onward
  BY <1>1, <1>2, <1>5, UnchangedStore DEF RunsOn, GitOn, RunsInv
<1>7. \A j \in PlanKeys : GitSteady(j)
  BY <1>1, <1>2, <1>5, PlanKeysType DEF GitSteady, RunsInv
<1>8. RunsKept' /\ GitKept'
  BY <1>1, <1>2, <1>5 DEF RunsInv, RunsKept, GitKept, Known, PlanKeys, storeVars
<1>9. g \in Frames'
  <2>1. /\ g \in Frame /\ g.pc = "merged" /\ g.item = f.item /\ g.todo = f.todo
        /\ g.publish = f.publish /\ g.sha = sha
    BY <1>1, <1>g, <1>3 DEF Frame, Calls
  <2>2. /\ k \in PlanKeys' /\ Approver(k)' /\ merged'[k] # NoSHA
        /\ \A i \in f.todo : ToStart(i)'
    BY <1>1, <1>5, <1>6, HandedOn, AnswersStay
  <2>3. f.publish # "no" => job'.integrationSHA # NoSHA
    BY <1>1, <1>6 DEF Good, Onward
  <2> QED BY <1>3, <2>1, <2>2, <2>3 DEF Good, Frames
<1>10. thread' \in [Threads -> Seq(Frames')]
  BY <1>2, <1>6, <1>9, GotoKept
<1> QED BY <1>1, <1>2, <1>5, <1>6, <1>7, <1>8, <1>10, RunStep DEF RunsInv

LEMMA IntegratedKept ==
  ASSUME RunsInv, NEW t \in Busy, Integrated(t)
  PROVE  Kept
<1>f. PICK f : f = Top(t)
  OBVIOUS
<1> DEFINE k == f.item.key
<1>1. /\ f \in Frame /\ Good(f) /\ f.pc = "merged" /\ k \in PlanKeys /\ k \in Keys
      /\ merged[k] # NoSHA /\ f.sha \in SHAs /\ UNCHANGED gitVars
  BY <1>f, TopFrame, PlanKeysType DEF Integrated, At, Top, Good, RunsInv, Frame
<1>2. /\ UNCHANGED <<record, remote, queue, budget>>
      /\ \/ RecordIntegration(k, f.sha) /\ thread' = Goto(t, Pick(f, task', job'))
         \/ UNCHANGED storeVars /\ thread' = Return(t)
  BY <1>f, TryCases DEF Integrated
<1>3. CASE RecordIntegration(k, f.sha) /\ thread' = Goto(t, Pick(f, task', job'))
  <2>1. /\ StoreInv' /\ Onward /\ QuietBut(k) /\ Store!Next
        /\ Begun(task[k]) /\ task'[k].verdict = task[k].verdict
        /\ task'[k].reviewerRun = task[k].reviewerRun
    BY <1>1, <1>3, RecordIntegrationStep, RecordIntegrationNext DEF RunsInv
  <2>2. /\ UNCHANGED <<tree, merged, adopted>> /\ RunsOn /\ GitOn /\ adopted' \subseteq Keys
        /\ StoreTypeOK'
    BY <1>1, <1>2, <2>1, StoreTypeStep DEF gitVars, historyVars, RunsOn, GitOn, RunsInv
  <2>3. Evidence(k) /\ tree[k].head # NoSHA /\ Startable(k)
    BY <1>1, <2>1 DEF RunsInv, Evidence
  <2>4. /\ Startable(k)' /\ task'[k].deps \subseteq PlanKeys'
        /\ merged'[k] # NoSHA => Approver(k)'
        /\ Delivered(k)' /\ tree'[k].head # NoSHA
    BY <1>1, <2>1, <2>2, <2>3, AnswersStay DEF Evidence, Delivered
  <2>5. Evidence(k)'
    BY <1>1, <1>2, <2>1, <2>3, <2>4 DEF Evidence
  <2>6. \A j \in PlanKeys : Quiet(task[j], task'[j]) \/ Evidence(j)'
    BY <2>1, <2>5 DEF QuietBut
  <2>7. \A j \in PlanKeys' : /\ Finished(task'[j]) => Delivered(j)'
                             /\ task'[j].deps \subseteq PlanKeys'
    BY <2>1, <2>2, <2>6, ReadyKept
  <2>8. /\ \A i \in f.todo : ToStart(i)'
        /\ f.publish # "no" => f.sha # NoSHA /\ job'.integrationSHA # NoSHA
    BY <1>1, <2>1, <2>2, HandedOn
  <2>p. PICK g : g = Pick(f, task', job')
    OBVIOUS
  <2>9. g \in Frames'
    <3>1. planned' = planned
      BY <1>3 DEF RecordIntegration
    <3>2. Pick(f, task, job)' = g
      BY <2>p, <3>1 DEF Pick, PlanKeys
    <3> QED BY <1>1, <2>1, <2>2, <2>7, <2>8, <3>2, PickInNext DEF PickGood, StoreInv
  <2> QED BY <1>2, <1>3, <2>1, <2>2, <2>6, <2>9, <2>p, StoreCall
<1>4. CASE UNCHANGED storeVars /\ thread' = Return(t)
  BY <1>1, <1>2, <1>4, Refused
<1> QED BY <1>2, <1>3, <1>4

LEMMA DraftKept ==
  ASSUME RunsInv, NEW t \in Busy, Draft(t)
  PROVE  Kept
<1>f. PICK f : f = Top(t)
  OBVIOUS
<1>g. PICK g : g = [f EXCEPT !.pc = "ci", !.sha = job'.integrationSHA]
  OBVIOUS
<1>1. f \in Frame /\ Good(f) /\ f.pc = "draft" /\ f.publish # "no" /\ UNCHANGED gitVars
  BY <1>f, TopFrame DEF Draft, At, Top, Good
<1>2. /\ UNCHANGED <<record, remote, queue, budget>>
      /\ \/ RecordPullRequest /\ thread' = Goto(t, g)
         \/ UNCHANGED storeVars /\ thread' = Return(t)
  BY <1>f, <1>g, TryCases DEF Draft
<1>3. CASE RecordPullRequest /\ thread' = Goto(t, g)
  <2>1. StoreInv' /\ Onward /\ AllQuiet /\ Store!Next
    BY <1>3, RecordPullRequestStep, RecordPullRequestNext DEF RunsInv
  <2>2. job'.integrationSHA \in SHAs \union {NoSHA} /\ job'.integrationSHA # NoSHA
    BY <1>1, <2>1, StoreTypeStep DEF RunsInv, StoreTypeOK, Job, Good, Onward
  <2>3. /\ g \in Frame /\ g.pc = "ci" /\ g.todo = f.todo
        /\ g.publish = f.publish /\ g.sha = job'.integrationSHA
    BY <1>1, <1>g, <2>2 DEF Frame, Calls
  <2>4. \A i \in f.todo : ToStart(i)'
    BY <1>1, <1>2, <2>1, HandedOn DEF RunsOn, GitOn, gitVars, historyVars
  <2>5. g \in Frames'
    BY <2>2, <2>3, <2>4 DEF Good, Frames
  <2> QED BY <1>1, <1>2, <1>3, <2>1, <2>5, QuietCall
<1>4. CASE UNCHANGED storeVars /\ thread' = Return(t)
  BY <1>1, <1>2, <1>4, Refused
<1> QED BY <1>2, <1>3, <1>4

LEMMA AwaitCIKept ==
  ASSUME RunsInv, NEW t \in Busy, AwaitCI(t)
  PROVE  Kept
<1>f. PICK f : f = Top(t)
  OBVIOUS
<1>1. f \in Frame /\ Good(f) /\ f.sha \in SHAs /\ UNCHANGED gitVars
  BY <1>f, TopFrame DEF AwaitCI, At, Top, Good, Frame
<1>2. /\ UNCHANGED <<record, remote, queue, budget>>
      /\ \/ StartCI(f.sha) /\ thread' = Goto(t, Done(f))
         \/ UNCHANGED storeVars /\ thread' = Return(t)
  BY <1>f, TryCases DEF AwaitCI
<1>3. CASE StartCI(f.sha) /\ thread' = Goto(t, Done(f))
  <2>1. StoreInv' /\ Onward /\ AllQuiet /\ Store!Next
    BY <1>1, <1>3, StartCIStep, StartCINext DEF RunsInv
  <2> QED BY <1>1, <1>2, <1>3, <2>1, DoneInNext, QuietCall DEF DoneGood
<1>4. CASE UNCHANGED storeVars /\ thread' = Return(t)
  BY <1>1, <1>2, <1>4, Refused
<1> QED BY <1>2, <1>3, <1>4

----------------------------------------------------------------------------
(* retry_code_task. *)

LEMMA RetryKept ==
  ASSUME RunsInv, NEW k \in PlanKeys, Retry(k)
  PROVE  Kept
<1> DEFINE d == Writer(k, task[k].writerAttempts)
<1>c. PICK c : c = [Call("retry", task[k].writerRun) EXCEPT !.item.key = k]
  OBVIOUS
<1>1. /\ d \in Runs /\ record' = [record EXCEPT ![d] = "superseded"]
      /\ thread' = [thread EXCEPT ![Operator] = <<c>>]
      /\ UNCHANGED <<storeVars, remote, queue, gitVars>>
      /\ budget' = [budget EXCEPT !.retried = @ + 1]
      /\ task[k].writerRun # NoRun
  BY <1>c DEF Retry, Supersede, Saved
<1>2. Onward /\ RunsOn /\ GitOn /\ UNCHANGED <<tree, merged, adopted>>
  BY <1>1, UnchangedStore DEF RunsInv, RunsOn, GitOn, gitVars, historyVars
<1>3. RunsKept'
  <2>1. \A r : Known(r) => Known(r)'
    BY <1>1 DEF Known, PlanKeys, storeVars
  <2>2. RunsKept
    BY DEF RunsInv
  <2>3. /\ record' \in [Runs -> Records]
        /\ \A r \in Runs : record'[r] = "superseded" \/ record'[r] = record[r]
    BY <1>1, <2>2 DEF RunsKept, Records
  <2> QED BY <1>1, <2>1, <2>2, <2>3 DEF RunsKept
<1>4. c \in Frames'
  <2>1. k \in Keys /\ task[k].writerRun \in Runs
    BY <1>1, PlanKeysType DEF RunsInv, Task
  <2>2. /\ c \in Frame /\ c.pc = "retry" /\ c.run = task[k].writerRun /\ c.item.key = k
        /\ c.todo = {} /\ c.publish = "no"
    BY <1>c, <2>1 DEF Call, Frame, NoItem, Item, Calls, NoSHA
  <2>3. k \in PlanKeys'
    BY <1>1 DEF PlanKeys, storeVars
  <2> QED BY <2>1, <2>2, <2>3 DEF Good, Frames
<1>5. thread' \in [Threads -> Seq(Frames')]
  <2>1. thread \in [Threads -> Seq(Frames')]
    BY <1>2, FramesStay, StacksIn DEF RunsInv
  <2>2. <<c>> \in Seq(Frames')
    BY <1>4
  <2> QED BY <1>1, <2>1, <2>2
<1>6. budget' \in Scenario
  <2>1. budget \in Scenario /\ budget.retried + 1 \in Nat
    BY DEF RunsInv, Scenario
  <2> QED BY <1>1, <2>1 DEF Scenario
<1> QED BY <1>1, <1>2, <1>3, <1>5, <1>6, RunStep DEF RunsInv, GitKept, GitSteady, PlanKeys, storeVars

LEMMA ResetKept ==
  ASSUME RunsInv, NEW t \in Busy, Reset(t)
  PROVE  Kept
<1>f. PICK f : f = Top(t)
  OBVIOUS
<1> DEFINE k == f.item.key
<1>g. PICK g : g = Continue([f EXCEPT !.todo = {ItemFor(k, task'[k])}])
  OBVIOUS
<1>1. f \in Frame /\ Good(f) /\ k \in PlanKeys /\ f.run \in Runs /\ UNCHANGED gitVars
  BY <1>f, TopFrame DEF Reset, At, Top, Good
<1>2. /\ UNCHANGED <<record, remote, queue, budget>>
      /\ \/ RetryWriter(k, f.run) /\ thread' = Goto(t, g)
         \/ UNCHANGED storeVars /\ thread' = Return(t)
  BY <1>f, <1>g, TryCases DEF Reset, ItemOf
<1>3. CASE RetryWriter(k, f.run) /\ thread' = Goto(t, g)
  <2>1. StoreInv' /\ Onward /\ AllQuiet /\ task[k].status = "working" /\ Store!Next
    BY <1>1, <1>3, RetryWriterStep, RetryWriterNext DEF RunsInv
  <2>2. StoreTypeOK' /\ UNCHANGED <<tree, merged>>
    BY <1>1, <2>1, StoreTypeStep DEF RunsInv, gitVars, historyVars
  <2>3. Startable(k)
    BY <1>1, <2>1 DEF RunsInv, Evidence, Begun
  <2>4. g \in Frames'
    BY <1>1, <1>2, <1>g, <2>1, <2>2, <2>3, OneToStart
  <2> QED BY <1>1, <1>2, <1>3, <2>1, <2>4, QuietCall
<1>4. CASE UNCHANGED storeVars /\ thread' = Return(t)
  BY <1>1, <1>2, <1>4, Refused
<1> QED BY <1>2, <1>3, <1>4

----------------------------------------------------------------------------
(* start_planning, failing calls, crashes, agents. *)

LEMMA PlanKept ==
  ASSUME RunsInv, Plan
  PROVE  Kept
<1>1. StartPlanning /\ Start(Operator, Planner, thread) /\ UNCHANGED <<gitVars, budget>>
  BY DEF Plan
<1>2. StoreInv' /\ Onward /\ AllQuiet /\ Store!Next
  BY <1>1, StartPlanningStep, StartPlanningNext DEF RunsInv
<1>3. StoreTypeOK' /\ planned' = planned
  BY <1>1, <1>2, StoreTypeStep DEF RunsInv, StartPlanning
<1>4. Known(Planner) /\ Known(Planner)'
  BY RunTypes DEF Known, Planner
<1>5. RunsOn /\ RunsKept'
  BY <1>1, <1>3, <1>4, StartRuns
<1>6. GitOn /\ UNCHANGED <<tree, merged, adopted>>
  BY <1>1 DEF GitOn, gitVars, historyVars
<1>7. thread' \in [Threads -> Seq(Frames')]
  <2>1. thread \in [Threads -> Seq(Frames')]
    BY <1>2, <1>5, <1>6, FramesStay, StacksIn DEF RunsInv
  <2> QED BY <1>1, <1>4, <2>1, StartStacks
<1> QED BY <1>1, <1>2, <1>3, <1>5, <1>6, <1>7, KeptStep
   DEF RunsInv, GitKept, GitSteady, AllQuiet, PlanKeys, Kept

LEMMA FaultKept ==
  ASSUME RunsInv, NEW t \in Busy, Fault(t)
  PROVE  Kept
<1>f. PICK f : f = Top(t)
  OBVIOUS
<1>1. f \in Frame /\ Good(f)
  BY <1>f, TopFrame
<1>2. /\ UNCHANGED <<storeVars, gitVars, tree, merged, adopted>>
      /\ budget' = [budget EXCEPT !.faults = @ - 1] /\ budget.faults > 0
  BY DEF Fault, gitVars, historyVars
<1>3. budget' \in Scenario
  <2>1. budget \in Scenario /\ budget.faults - 1 \in Nat
    BY <1>2 DEF RunsInv, Scenario
  <2> QED BY <1>2, <2>1 DEF Scenario
<1>4. RunsOn /\ RunsKept' /\ thread' = Return(t)
  <2>1. CASE At(t, "writer") /\ LaunchFails(Writer(f.item.key, f.item.attempt), Return(t))
    <3>1. Known(Writer(f.item.key, f.item.attempt))
      BY <1>f, <1>1, <2>1 DEF At, Top, Good, ToStart, Known, Writer, LaunchFails
    <3> QED BY <1>2, <2>1, <3>1, LaunchFailsRuns DEF LaunchFails
  <2>2. CASE At(t, "review") /\ LaunchFails(Reviewer(f.item.key, f.item.attempt), Return(t))
    <3>1. Known(Reviewer(f.item.key, f.item.attempt))
      BY <1>f, <1>1, <2>2 DEF At, Top, Good, Known, Reviewer, LaunchFails
    <3> QED BY <1>2, <2>2, <3>1, LaunchFailsRuns DEF LaunchFails
  <2>3. CASE thread' = Return(t) /\ UNCHANGED <<record, remote, queue>>
    BY <1>2, <2>3 DEF RunsInv, RunsOn, RunsKept, Known, PlanKeys, storeVars
  <2> QED BY <1>f, <2>1, <2>2, <2>3 DEF Fault
<1>5. Onward /\ GitOn
  BY <1>2, UnchangedStore DEF RunsInv, GitOn
<1>6. thread' \in [Threads -> Seq(Frames')]
  BY <1>4, <1>5, ReturnKept
<1> QED BY <1>2, <1>3, <1>4, <1>5, <1>6, RunStep DEF RunsInv, GitKept, GitSteady, PlanKeys, storeVars

LEMMA StartupFaultKept ==
  ASSUME RunsInv, StartupFault
  PROVE  Kept
<1>1. /\ UNCHANGED <<storeVars, tree, merged, adopted, record, thread>> /\ queue' \subseteq queue
      /\ budget' = [budget EXCEPT !.faults = @ - 1] /\ budget.faults > 0
  BY DEF StartupFault, ReconcileFails, gitVars, historyVars
<1>2. PICK e \in queue : \/ UNCHANGED remote
                         \/ /\ remote[e.run].status = "absent"
                            /\ remote' = [remote EXCEPT ![e.run].status = "running"]
  BY DEF StartupFault, ReconcileFails
<1>3. budget' \in Scenario
  <2>1. budget \in Scenario /\ budget.faults - 1 \in Nat
    BY <1>1 DEF RunsInv, Scenario
  <2> QED BY <1>1, <2>1 DEF Scenario
<1>4. RunsOn /\ RunsKept'
  <2>1. RunsKept /\ Known(e.run) /\ e.run \in Runs
    BY DEF RunsInv, RunsKept, Known
  <2>2. /\ remote' \in [Runs -> Remote]
        /\ \A c \in Runs :
              \/ remote'[c] = remote[c]
              \/ /\ c = e.run /\ remote[c].status = "absent"
                 /\ remote'[c].status = "running" /\ remote'[c].says = remote[c].says
    BY <1>2, <2>1 DEF RunsKept, Remote
  <2>3. \A c : Known(c) => Known(c)'
    BY <1>1 DEF Known, PlanKeys, storeVars
  <2>4. RunsOn
    BY <2>2 DEF RunsOn
  <2>5. \A c \in Runs :
          /\ record'[c] \in {"starting", "running", "ended"} => Known(c)'
          /\ record'[c] = "ended" => remote'[c].status = "ended"
          /\ remote'[c].status # "absent" => Known(c)'
          /\ remote'[c].status # "ended" => remote'[c].says = "nothing"
          /\ c.role \in {"reviewer", "holistic"} /\ remote'[c].status = "ended"
                => remote'[c].says \in Verdicts \union {"failed"}
          /\ c.role = "reviewer" /\ remote'[c].says \in Verdicts
                => remote'[c].feedback \in Feedbacks
    BY <1>1, <2>1, <2>2, <2>3 DEF RunsKept, Verdicts
  <2>6. \A q \in queue' : Known(q.run)' /\ (q.status = "ended" => remote'[q.run].status = "ended")
    BY <1>1, <2>1, <2>2, <2>3 DEF RunsKept, Known
  <2> QED BY <1>1, <2>1, <2>2, <2>4, <2>5, <2>6 DEF RunsKept
<1>5. Onward /\ GitOn
  BY <1>1, UnchangedStore DEF RunsInv, GitOn
<1>6. thread' \in [Threads -> Seq(Frames')]
  BY <1>1, <1>4, <1>5, FramesStay, StacksIn DEF RunsInv
<1> QED BY <1>1, <1>3, <1>4, <1>5, <1>6, RunStep DEF RunsInv, GitKept, GitSteady, PlanKeys, storeVars

LEMMA RestartKept ==
  ASSUME RunsInv, Restart
  PROVE  Kept
<1>1. /\ UNCHANGED <<storeVars, tree, merged, adopted, record, remote>>
      /\ thread' = [t \in Threads |-> <<>>]
      /\ queue' = {[run |-> d, status |-> record[d]] : d \in Unapplied}
      /\ budget' = [budget EXCEPT !.crashes = @ - 1] /\ budget.crashes > 0
  BY DEF Restart, Crash, gitVars, historyVars
<1>2. budget' \in Scenario
  <2>1. budget \in Scenario /\ budget.crashes - 1 \in Nat
    BY <1>1 DEF RunsInv, Scenario
  <2> QED BY <1>1, <2>1 DEF Scenario
<1>3. RunsOn /\ RunsKept'
  <2>1. RunsKept /\ \A c : Known(c) => Known(c)'
    BY <1>1 DEF RunsInv, Known, PlanKeys, storeVars
  <2>2. ASSUME NEW e \in queue'
        PROVE  e \in Listed /\ Known(e.run)' /\ (e.status = "ended" => remote'[e.run].status = "ended")
    <3>1. PICK d \in Unapplied : e = [run |-> d, status |-> record[d]]
      BY <1>1
    <3>2. d \in Runs /\ record[d] \in {"starting", "running", "ended"} /\ e.run = d /\ e.status = record[d]
      BY <3>1 DEF Unapplied
    <3>3. e \in Listed
      BY <3>1, <3>2 DEF Listed
    <3> QED BY <1>1, <2>1, <3>2, <3>3 DEF RunsKept
  <2> QED BY <1>1, <2>1, <2>2 DEF RunsKept, RunsOn
<1>4. GitOn
  BY <1>1 DEF GitOn
<1>5. thread' \in [Threads -> Seq(Frames')]
  BY <1>1
<1> QED BY <1>1, <1>2, <1>3, <1>4, <1>5, RunStep DEF RunsInv, GitKept, GitSteady, PlanKeys, storeVars

LEMMA ResumeKept ==
  ASSUME RunsInv, Resume
  PROVE  Kept
<1>1. UNCHANGED <<storeVars, tree, merged, adopted, budget>>
  BY DEF Resume, gitVars, historyVars
<1>2. PICK e \in queue : Visit(e)
  BY DEF Resume, Reconcile
<1>3. /\ Known(e.run) /\ Known(e.run)' /\ e.run \in Runs /\ RunsKept
      /\ e.status = "ended" => remote[e.run].status = "ended"
      /\ queue' \subseteq queue
  BY <1>1, <1>2 DEF RunsInv, RunsKept, Known, Visit, PlanKeys, storeVars
<1>4. Onward /\ GitOn
  BY <1>1, UnchangedStore DEF RunsInv, GitOn
<1>5. RunsOn /\ RunsKept' /\ thread' \in [Threads -> Seq(Frames')]
  <2>1. CASE Launch(Startup, e.run, thread)
    <3>1. RunsOn /\ RunsKept'
      BY <1>1, <1>3, <2>1, LaunchRuns DEF storeVars
    <3>2. thread \in [Threads -> Seq(Frames')]
      BY <1>4, <3>1, FramesStay, StacksIn DEF RunsInv
    <3>3. remote[e.run].status = "ended" => remote' = remote
      BY <2>1 DEF Launch
    <3>4. thread' \in [Threads -> Seq(Frames')]
      BY <1>3, <2>1, <3>2, <3>3, LaunchStacks
    <3> QED BY <3>1, <3>4
  <2>2. CASE /\ UNCHANGED <<record, remote>>
             /\ \/ thread' = Watch(thread, e.run)
                \/ /\ e.status = "ended"
                   /\ thread' = [thread EXCEPT ![Startup] = <<Call("apply", e.run)>>]
    <3>1. RunsOn /\ RunsKept'
      <4>1. \A c : Known(c) => Known(c)'
        BY <1>1 DEF Known, PlanKeys, storeVars
      <4> QED BY <1>3, <2>2, <4>1 DEF RunsKept, RunsOn
    <3>2. thread \in [Threads -> Seq(Frames')]
      BY <1>4, <3>1, FramesStay, StacksIn DEF RunsInv
    <3>3. /\ Call("poll", e.run) \in Frames'
          /\ e.status = "ended" => Call("apply", e.run) \in Frames'
      BY <1>3, <2>2, CallsInNext DEF CallsGood
    <3>4. CASE thread' = Watch(thread, e.run)
      BY <3>1, <3>2, <3>3, <3>4, WatchIn
    <3>5. CASE e.status = "ended" /\ thread' = [thread EXCEPT ![Startup] = <<Call("apply", e.run)>>]
      <4>1. <<Call("apply", e.run)>> \in Seq(Frames')
        BY <3>3, <3>5
      <4>2. thread' \in [Threads -> Seq(Frames')]
        BY <3>2, <3>5, <4>1
      <4> QED BY <3>1, <4>2
    <3> QED BY <2>2, <3>4, <3>5
  <2> QED BY <1>2, <2>1, <2>2 DEF Visit
<1> QED BY <1>1, <1>4, <1>5, RunStep DEF RunsInv, GitKept, GitSteady, PlanKeys, storeVars

LEMMA ActsRuns ==
  ASSUME RunsInv, UNCHANGED <<planned, record, queue>>, NEW d \in Runs,
         NEW saw \in SHAs \union {NoSHA}, Acts(d, saw)
  PROVE  RunsOn /\ RunsKept' /\ Known(d)
<1>1. /\ RunsKept /\ remote' \in [Runs -> Remote]
      /\ \A c \in Runs : \/ remote'[c] = remote[c]
                         \/ /\ c = d /\ remote[c].status = "running" /\ remote'[c].status = "acted"
                            /\ remote'[c].says = remote[c].says
                            /\ remote'[c].feedback = remote[c].feedback
  BY DEF RunsInv, RunsKept, Acts, Remote
<1>2. Known(d) /\ RunsOn
  BY <1>1 DEF RunsKept, Acts, RunsOn
<1>3. \A c : Known(c) => Known(c)'
  BY DEF Known, PlanKeys
<1>4. \A c \in Runs :
        /\ record'[c] \in {"starting", "running", "ended"} => Known(c)'
        /\ record'[c] = "ended" => remote'[c].status = "ended"
        /\ remote'[c].status # "absent" => Known(c)'
        /\ remote'[c].status # "ended" => remote'[c].says = "nothing"
        /\ c.role \in {"reviewer", "holistic"} /\ remote'[c].status = "ended"
              => remote'[c].says \in Verdicts \union {"failed"}
        /\ c.role = "reviewer" /\ remote'[c].says \in Verdicts
              => remote'[c].feedback \in Feedbacks
  BY <1>1, <1>2, <1>3 DEF RunsKept
<1>5. \A e \in queue' : Known(e.run)' /\ (e.status = "ended" => remote'[e.run].status = "ended")
  BY <1>1, <1>3 DEF RunsKept, Known
<1> QED BY <1>1, <1>2, <1>4, <1>5 DEF RunsKept

LEMMA AgentActsKept ==
  ASSUME RunsInv, NEW d \in Runs, AgentActs(d)
  PROVE  Kept
<1>1. UNCHANGED <<storeVars, record, thread, queue, merged, adopted, budget>>
  BY DEF AgentActs, historyVars
<1>2. d.key \in Keys /\ \E saw \in SHAs \union {NoSHA} : Acts(d, saw)
  <2>1. d.key \in Keys
    BY RunTypes DEF AgentActs
  <2>2. task[d.key].commit \in SHAs \union {NoSHA}
    BY <2>1 DEF RunsInv, StoreTypeOK, Task
  <2> QED BY <2>1, <2>2 DEF AgentActs
<1>3. /\ tree' \in [Keys -> Tree] /\ tree \in [Keys -> Tree]
      /\ \A k \in Keys : tree'[k].head = tree[k].head
      /\ \A k \in Keys : tree'[k] = tree[k] \/ (k = d.key /\ d.role = "writer")
  <2>1. tree \in [Keys -> Tree]
    BY DEF RunsInv, GitKept
  <2>2. CASE tree' = tree
    BY <2>1, <2>2
  <2>3. CASE d.role = "writer" /\ tree' = [tree EXCEPT ![d.key].dirty = TRUE]
    BY <1>2, <2>1, <2>3 DEF Tree
  <2> QED BY <2>2, <2>3 DEF AgentActs
<1>4. RunsOn /\ RunsKept' /\ Known(d)
  BY <1>1, <1>2, ActsRuns DEF storeVars
<1>5. GitOn /\ Onward
  BY <1>1, <1>3, UnchangedStore DEF GitOn, RunsInv
<1>6. /\ \A k \in Keys \ PlanKeys : tree'[k] = tree[k] /\ merged'[k] = merged[k]
      /\ \A k \in PlanKeys : GitSteady(k)
  BY <1>1, <1>3, <1>4, PlanKeysType DEF GitSteady, RunsInv, Known
<1>7. GitKept'
  BY <1>1, <1>3 DEF RunsInv, GitKept, PlanKeys, storeVars
<1>8. thread' \in [Threads -> Seq(Frames')]
  BY <1>1, <1>4, <1>5, FramesStay, StacksIn DEF RunsInv
<1> QED BY <1>1, <1>4, <1>5, <1>6, <1>7, <1>8, RunStep DEF RunsInv

LEMMA EndsRuns ==
  ASSUME RunsInv, UNCHANGED planned, NEW d \in Runs, NEW says \in Answers,
         NEW feedback \in Feedbacks \union {"none"}, Ends(d, says, feedback),
         d.role \in {"reviewer", "holistic"} => says \in Verdicts \union {"failed"},
         d.role = "reviewer" /\ says \in Verdicts => feedback \in Feedbacks
  PROVE  RunsOn /\ RunsKept' /\ UNCHANGED thread
<1>1. UNCHANGED <<record, queue, thread>>
  BY DEF Ends
<1>2. /\ RunsKept /\ remote' \in [Runs -> Remote] /\ remote[d].status \in {"running", "acted"}
      /\ remote'[d].status = "ended" /\ remote'[d].says = says /\ remote'[d].feedback = feedback
      /\ \A c \in Runs \ {d} : remote'[c] = remote[c]
  <2>1. RunsKept /\ remote \in [Runs -> Remote]
    BY DEF RunsInv, RunsKept
  <2>2. /\ remote[d].status \in {"running", "acted"}
        /\ remote' = [remote EXCEPT ![d] = [@ EXCEPT !.status = "ended", !.says = says,
                                                      !.feedback = feedback]]
    BY DEF Ends
  <2> QED BY <2>1, <2>2 DEF Remote
<1>3. Known(d)
  BY <1>2 DEF RunsKept
<1>4. RunsOn
  BY <1>2 DEF RunsOn
<1>5. \A c : Known(c) => Known(c)'
  BY DEF Known, PlanKeys
<1>6. \A c \in Runs :
        /\ record'[c] \in {"starting", "running", "ended"} => Known(c)'
        /\ record'[c] = "ended" => remote'[c].status = "ended"
        /\ remote'[c].status # "absent" => Known(c)'
        /\ remote'[c].status # "ended" => remote'[c].says = "nothing"
        /\ c.role \in {"reviewer", "holistic"} /\ remote'[c].status = "ended"
              => remote'[c].says \in Verdicts \union {"failed"}
        /\ c.role = "reviewer" /\ remote'[c].says \in Verdicts
              => remote'[c].feedback \in Feedbacks
  <2> TAKE c \in Runs
  <2>1. CASE c = d
    BY <1>2, <1>3, <1>5, <2>1
  <2>2. CASE c # d
    BY <1>1, <1>2, <1>5, <2>2 DEF RunsKept
  <2> QED BY <2>1, <2>2
<1>7. \A e \in queue' : Known(e.run)' /\ (e.status = "ended" => remote'[e.run].status = "ended")
  BY <1>1, <1>2, <1>4, <1>5 DEF RunsKept, Known, RunsOn
<1> QED BY <1>1, <1>2, <1>4, <1>6, <1>7 DEF RunsKept

LEMMA AgentEndsKept ==
  ASSUME RunsInv, NEW d \in Runs, AgentEnds(d)
  PROVE  Kept
<1>1. UNCHANGED <<storeVars, tree, merged, adopted, budget>>
  BY DEF AgentEnds, gitVars, historyVars
<1>2. \E says \in Answers, feedback \in Feedbacks \union {"none"} :
        /\ Ends(d, says, feedback)
        /\ d.role \in {"reviewer", "holistic"} => says \in Verdicts \union {"failed"}
        /\ d.role = "reviewer" /\ says \in Verdicts => feedback \in Feedbacks
  <2>1. CASE d = Planner /\ Ends(d, "plan", "none")
    BY <2>1 DEF Planner, Answers
  <2>2. CASE d.role = "writer" /\ (Ends(d, "changes", "none") \/ Ends(d, "no_changes", "none"))
    BY <2>2 DEF Answers
  <2>3. CASE d.role = "reviewer" /\ \E says \in Verdicts \intersect budget.says, feedback \in budget.complaints :
                Ends(d, says, feedback)
    <3>1. budget.complaints \subseteq Feedbacks
      BY DEF RunsInv, Scenario
    <3>2. PICK says \in Verdicts, feedback \in Feedbacks : Ends(d, says, feedback)
      BY <2>3, <3>1
    <3> QED BY <2>3, <3>2 DEF Answers
  <2>4. CASE Ends(d, "failed", "none")
    BY <2>4 DEF Answers, Verdicts
  <2> QED BY <2>1, <2>2, <2>3, <2>4 DEF AgentEnds
<1>3. RunsOn /\ RunsKept' /\ UNCHANGED thread
  BY <1>1, <1>2, EndsRuns DEF storeVars
<1>4. Onward /\ GitOn
  BY <1>1, UnchangedStore DEF RunsInv, GitOn
<1>5. thread' \in [Threads -> Seq(Frames')]
  BY <1>3, <1>4, FramesStay, StacksIn DEF RunsInv
<1> QED BY <1>1, <1>3, <1>4, <1>5, RunStep DEF RunsInv, GitKept, GitSteady, PlanKeys, storeVars

----------------------------------------------------------------------------
(* The invariant of the specification. *)

LEMMA InitRuns == Init => RunsInv
<1> SUFFICES ASSUME Init PROVE RunsInv
  OBVIOUS
<1>1. StoreTypeOK /\ StoreInv /\ PlanKeys = {}
  BY InitStoreInv, StoreTypeInit DEF Init, Create, PlanKeys
<1>2. RunsKept
  <2>1. /\ record = [d \in Runs |-> "none"] /\ remote = [d \in Runs |-> NoRemote]
        /\ queue = {}
    BY DEF Init, DispatchInit
  <2>2. NoRemote \in Remote /\ NoRemote.status = "absent" /\ NoRemote.says = "nothing"
    BY DEF NoRemote, Remote
  <2>3. record \in [Runs -> Records] /\ remote \in [Runs -> Remote]
    BY <2>1, <2>2 DEF Records
  <2> QED BY <2>1, <2>2, <2>3 DEF RunsKept, Verdicts
<1>3. GitKept
  BY DEF Init, GitKept, Tree
<1>4. thread \in [Threads -> Seq(Frames)]
  BY DEF Init, DispatchInit
<1>5. adopted \subseteq Keys /\ budget \in Scenario
  BY ScenariosAssumption DEF Init
<1> QED BY <1>1, <1>2, <1>3, <1>4, <1>5 DEF RunsInv

LEMMA HandlerKept ==
  ASSUME RunsInv, NEW t \in Busy, HandlerStep(t)
  PROVE  Kept
<1>1. CASE (Observe(t) \/ Mark(t)) /\ UNCHANGED <<storeVars, gitVars, budget>>
  BY <1>1, ObserveKept, MarkKept
<1>2. CASE ApplyPlan(t) \/ ApplyWriter(t) \/ ApplyReview(t)
  BY <1>2, ApplyPlanKept, ApplyWriterKept, ApplyReviewKept
<1>3. CASE Base(t) \/ StartWriterRun(t) \/ Work(t)
  BY <1>3, BaseKept, StartWriterRunKept, WorkKept
<1>4. CASE Commit(t) \/ Complete(t) \/ NoChanges(t) \/ StartReviewerRun(t) \/ OwnReview(t)
  BY <1>4, CommitKept, CompleteKept, NoChangesKept, StartReviewerRunKept, OwnReviewKept
<1>5. CASE FileReport(t) \/ Verdict(t) \/ Block(t)
  BY <1>5, FileReportKept, VerdictKept, BlockKept
<1>6. CASE Integrate(t) \/ Begin(t) \/ Integrated(t) \/ AwaitCI(t)
  BY <1>6, IntegrateKept, BeginKept, IntegratedKept, AwaitCIKept
<1>7. CASE Reset(t)
  BY <1>7, ResetKept
<1> QED BY <1>1, <1>2, <1>3, <1>4, <1>5, <1>6, <1>7 DEF HandlerStep

LEMMA NextKept ==
  ASSUME RunsInv, [Next]_vars
  PROVE  Kept
<1>1. CASE Plan \/ Resume
  BY <1>1, PlanKept, ResumeKept
<1>2. CASE \E t \in Busy : Step(t) \/ Fault(t)
  BY <1>2, HandlerKept, MergeKept, DraftKept, FaultKept DEF Step
<1>3. CASE \E k \in PlanKeys : Retry(k)
  BY <1>3, RetryKept
<1>4. CASE StartupFault \/ Restart
  BY <1>4, StartupFaultKept, RestartKept
<1>5. CASE \E d \in Runs : AgentActs(d) \/ AgentEnds(d)
  BY <1>5, AgentActsKept, AgentEndsKept
<1>6. CASE UNCHANGED vars
  BY <1>6, StackStep DEF vars, dispatchVars, gitVars, historyVars, RunsInv
<1> QED BY <1>1, <1>2, <1>3, <1>4, <1>5, <1>6 DEF Next

\* Whatever crashes, repeated applications, failing calls and retries do, every call
\* that is still to come has the evidence for what it will write, and every task the
\* evidence for what it shows.
THEOREM RunsInvariant == Spec => []RunsInv
BY InitRuns, NextKept, PTL DEF Spec, Kept

LEMMA RunsTyped ==
  ASSUME RunsInv
  PROVE  TypeOK
<1>1. DispatchTypeOK
  <2>1. \A t \in Threads : \A i \in DOMAIN thread[t] : thread[t][i] \in Frame
    <3> TAKE t \in Threads
    <3>1. thread[t] \in Seq(Frames)
      BY DEF RunsInv
    <3>2. \A i \in DOMAIN thread[t] : thread[t][i] \in Frames
      BY <3>1
    <3> QED BY <3>2 DEF Frames
  <2>2. DOMAIN thread = Threads
    BY DEF RunsInv
  <2> QED BY <2>1, <2>2 DEF RunsInv, RunsKept, DispatchTypeOK, Listed
<1> QED BY <1>1 DEF RunsInv, GitKept, TypeOK

LEMMA RunsGuarantee ==
  ASSUME RunsInv
  PROVE  /\ DependenciesFirst
         /\ \A k \in Keys : merged[k] # NoSHA => Approver(k)
<1>1. DependenciesFirst
  BY DEF RunsInv, Evidence, DependenciesFirst, Startable
<1>2. \A k \in Keys : merged[k] # NoSHA => Approver(k)
  BY DEF RunsInv, Evidence, GitKept
<1> QED BY <1>1, <1>2

\* Every record keeps its type: the handlers hand each other only runs of the job,
\* tasks of its plan and commits that exist.
THEOREM RunsTypeCorrect == Spec => []TypeOK
<1>1. RunsInv => TypeOK
  BY RunsTyped
<1> QED BY <1>1, RunsInvariant, PTL

\* No writer's worktree is cut before the work of every task its own depends on is
\* in the integration branch, in any interleaving of the handlers of a plan of any
\* size: startReadyWriters (server.go) works on snapshots, and a task that was
\* finished may be blocked by a late outcome.
THEOREM WorktreesWaitForDependencies == Spec => []DependenciesFirst
<1>1. RunsInv => DependenciesFirst
  BY RunsGuarantee
<1> QED BY <1>1, RunsInvariant, PTL

\* No branch is merged unless a reviewer run of that task has approved, also when the
\* task was retried, reviewed again or blocked meanwhile.
THEOREM NothingMergedUnapproved ==
  Spec => [](\A k \in Keys : merged[k] # NoSHA => Approver(k))
<1>1. RunsInv => \A k \in Keys : merged[k] # NoSHA => Approver(k)
  BY RunsGuarantee
<1> QED BY <1>1, RunsInvariant, PTL

----------------------------------------------------------------------------
(* The handlers implement the job store. *)

LEMMA JSInit == Create => JS!Init
BY DEF JS!Init, Create, JS!Create, NoCI, JS!NoCI, NoTask, JS!NoTask, NoSHA, JS!NoSHA,
       Keys, JS!Keys

LEMMA JSNext == [Store!Next]_storeVars => [JS!Next]_(JS!storeVars)
<1>1. Store!Next <=> JS!Next
  BY DEF Store!Next, JS!Next, Store!Guarded, JS!Guarded, Store!Planning, JS!Planning,
         Store!MarkFoundationPending, JS!MarkFoundationPending, Store!StartPlanning,
         JS!StartPlanning, Store!Keys, JS!Keys, Store!SubmitPlan, JS!SubmitPlan,
         Store!ValidPlan, JS!ValidPlan, Store!NewTask, JS!NewTask, Store!NoTask,
         JS!NoTask, Store!NoSHA, JS!NoSHA, Store!PlanKeys, JS!PlanKeys,
         Store!Writing, JS!Writing, Store!SHAs, JS!SHAs, Store!RecordTaskBase,
         JS!RecordTaskBase, Store!StartTaskWork, JS!StartTaskWork, Store!storeVars,
         JS!storeVars, Store!Started, JS!Started, Store!RecordWriterCompletion,
         JS!RecordWriterCompletion, Store!RecordNoChanges, JS!RecordNoChanges,
         Store!AllTasksIntegrated, JS!AllTasksIntegrated, Store!Finished,
         JS!Finished, Store!HasIntegratedTask, JS!HasIntegratedTask,
         Store!RetryWriter, JS!RetryWriter, Store!Reviewing, JS!Reviewing,
         Store!StartReviewer, JS!StartReviewer, Store!Own, JS!Own, Store!Verdicts,
         JS!Verdicts, Store!RecordReviewReport, JS!RecordReviewReport, Store!File,
         JS!File, Store!Adopt, JS!Adopt, Store!RecordReview, JS!RecordReview,
         Store!ReviewedStatus, JS!ReviewedStatus, Store!IntegrationPrerequisitesMet,
         JS!IntegrationPrerequisitesMet, Store!Integrating, JS!Integrating,
         Store!StartIntegration, JS!StartIntegration, Store!RecordIntegration,
         JS!RecordIntegration, Store!Publishing, JS!Publishing,
         Store!StartHolisticReviewer, JS!StartHolisticReviewer,
         Store!RecordHolisticReview, JS!RecordHolisticReview,
         Store!StartHolisticRereview, JS!StartHolisticRereview,
         Store!RecordPullRequest, JS!RecordPullRequest, Store!RecordMerge,
         JS!RecordMerge, Store!FailJob, JS!FailJob, Store!CIPolling, JS!CIPolling,
         Store!StartCI, JS!StartCI, Store!StartCIRemediation, JS!StartCIRemediation,
         Store!SameFailures, JS!SameFailures, Store!RemediationFor,
         JS!RemediationFor, Store!Remediation, JS!Remediation, Store!Remediating,
         JS!Remediating, Store!BlockTask, JS!BlockTask, Store!CIResults,
         JS!CIResults, Store!RecordCI, JS!RecordCI, Store!CIStatus, JS!CIStatus
<1> QED BY <1>1 DEF storeVars, JS!storeVars

\* Whatever the handlers and their failures do to the record, they do it through the
\* operations of the job store, called with arguments those are meant for.
THEOREM HandlersImplementJobStore == Spec => ImplementsJobStore
<1>1. Init => JS!Init
  BY JSInit DEF Init
<1>2. RunsInv /\ [Next]_vars => [JS!Next]_(JS!storeVars)
  BY JSNext, NextKept DEF Kept
<1> QED BY <1>1, <1>2, RunsInvariant, PTL DEF Spec, ImplementsJobStore, JS!Spec

LEMMA StoreInit == Create => Store!Init
BY DEF Store!Init, Create, Store!Create, NoCI, Store!NoCI, NoTask, Store!NoTask,
       NoSHA, Store!NoSHA, Keys, Store!Keys

LEMMA StoreGuaranteed ==
  Store!Spec => /\ []Store!AttemptsLedger
                /\ []Store!OnlyApprovedWorkAdvances
                /\ []Store!OneReportPerRun
                /\ Store!ApprovalPinsCommit
<1>1. Store!StoreAssumption
  BY StoreAssumption DEF Store!StoreAssumption
<1> QED BY <1>1, Store!AttemptsNeverSkipped, Store!NothingUnapprovedAdvances,
           Store!ReportsFiledOnce, Store!CommitPinned, PTL

\* So the store's guarantees hold of the program: reviewer attempts never overtake
\* writer attempts, only approved work advances, no report is filed twice, and the
\* commit of a task does not change while its approval stands.
THEOREM StoreGuarantees ==
  Spec => /\ []Store!AttemptsLedger
          /\ []Store!OnlyApprovedWorkAdvances
          /\ []Store!OneReportPerRun
          /\ Store!ApprovalPinsCommit
<1>1. Init => Store!Init
  BY StoreInit DEF Init
<1>2. RunsInv /\ [Next]_vars => [Store!Next]_(Store!storeVars)
  BY NextKept DEF Kept, storeVars, Store!storeVars
<1>3. Spec => Store!Spec
  BY <1>1, <1>2, RunsInvariant, PTL DEF Spec, Store!Spec
<1> QED BY <1>3, StoreGuaranteed, PTL

----------------------------------------------------------------------------
(* What a report is about.  A report is filed with the commit the task names   *)
(* at that moment, and its reviewer read the one the task named when it looked. *)
(* That they are the same rests on the reviews of a task taking turns: while a  *)
(* task is under review one reviewer run at most is open, the task is put to    *)
(* work only when that has reported or failed, and only a writer's new commit   *)
(* starts the next.                                                             *)

ToWork == {"planned", "working", "changes_requested"}

\* The commits the record of task k names.
Commits(k) ==
    {task[k].commit} \union {task[k].history[i].commit : i \in DOMAIN task[k].history}

\* A commit that is still to be recorded is new.
New(t) ==
    LET f == Top(t)
        k == f.run.key
    IN /\ f.sha <= tree[k].head
       /\ f.sha \notin Commits(k)
       /\ \A u \in Threads :
             At(u, "complete") /\ Top(u).run.key = k /\ Top(u).sha = f.sha => u = t

\* A commit is recorded by the call a handler is in, never by one it returns to.
CommitsKept ==
    /\ \A k \in PlanKeys : \A c \in Commits(k) : c <= tree[k].head
    /\ \A t \in Threads : At(t, "complete") => New(t)
    /\ \A t \in Threads : \A i \in DOMAIN thread[t] : thread[t][i].pc = "complete" => i = 1

\* A reviewer that has read has read a commit.
HasRead(d) ==
    /\ remote[d].status = "absent" => remote[d].saw = NoSHA
    /\ remote[d].status = "acted" \/ remote[d].says \in Verdicts => remote[d].saw # NoSHA
    /\ Requested(d) => task[d.key].commit # NoSHA

\* The report of d is filed with a commit that has been replaced.
Outdated(d) ==
    \E i \in DOMAIN task[d.key].history :
        /\ task[d.key].history[i].run = d
        /\ task[d.key].history[i].commit # task[d.key].commit

Pending(d) == Requested(d) /\ ~Outdated(d) /\ ~Failed(d)

\* What a task has to show of its reviews.
ReportsTrue(k) ==
    \A i \in DOMAIN task[k].history :
        LET d == task[k].history[i].run
        IN d \in Runs /\ remote[d].status = "ended" /\ task[k].history[i].commit = remote[d].saw

\* A reviewer whose answer is on its way has read what the task names still.
ReadingsTrue(k) ==
    \A d \in ReviewersOf(k) :
        ~Filed(d) /\ ~Failed(d) /\ remote[d].saw # NoSHA => remote[d].saw = task[k].commit

\* One review at most of a task under review is open, and without a reviewer that
\* is the one the task would launch next, or adopt.
OnePending(k) ==
    \A d \in ReviewersOf(k) : Pending(d) =>
        /\ \A e \in ReviewersOf(k) : Pending(e) => e = d
        /\ task[k].reviewerRun = NoRun => d = Reviewer(k, task[k].reviewerAttempts + 1)

\* The task names the reviewer run that read its commit.
ApprovalTrue(k) ==
    LET d == task[k].reviewerRun
    IN d \in Runs /\ remote[d].status = "ended" /\ remote[d].saw = task[k].commit

ReviewsTrue(k) ==
    /\ ReportsTrue(k)
    /\ ReadingsTrue(k)
    /\ task[k].status \in ToWork => ReviewsOver(k)
    /\ task[k].status = "reviewing" => task[k].commit # NoSHA /\ OnePending(k)
    /\ Approved(k) => ApprovalTrue(k)

\* A verdict without a report is refused while the task is under review.
Refusable(f) ==
    LET d == f.run
        own == task[d.key]
    IN f.pc = "verdict" /\ d.key \notin adopted /\ ~Filed(d) /\ own.status = "reviewing" =>
          /\ own.reviewerRun \notin {NoRun, d}
          /\ ~(own.reviewerAttempts < own.writerAttempts)

VerdictsRefusable == \A t \in Threads : \A i \in DOMAIN thread[t] : Refusable(thread[t][i])

\* The inductive invariant of the reviews.
ReviewInv ==
    /\ CommitsKept
    /\ \A d \in Runs : d.role = "reviewer" /\ d.key \notin adopted => HasRead(d)
    /\ \A k \in PlanKeys \ adopted : ReviewsTrue(k)
    /\ VerdictsRefusable
    /\ job.status = "created" => planned = 0

----------------------------------------------------------------------------
(* Call stacks: which calls a step may add. *)

\* Stack new has the calls of old, and of the calls that start or end a review and of
\* those that merge none but the ones in extra; no step adds one that records a commit.
StackFollows(new, old, extra) ==
    /\ new \in Seq(Frame)
    /\ \A i \in DOMAIN new :
          /\ new[i].pc \in {"review", "verdict", "merge"} =>
                new[i] \in extra \/ \E j \in DOMAIN old : new[i] = old[j]
          /\ new[i].pc = "complete" => i = 1 /\ new = old

Follows(threads, extra) ==
    /\ DOMAIN threads = Threads
    /\ \A u \in Threads : StackFollows(threads[u], thread[u], extra)

LEMMA StacksTyped ==
  ASSUME RunsInv
  PROVE  thread \in [Threads -> Seq(Frame)]
<1>1. Frames \subseteq Frame
  BY DEF Frames
<1> QED BY <1>1, StacksIn DEF RunsInv

LEMMA SameFollows ==
  ASSUME RunsInv, CommitsKept, NEW extra
  PROVE  Follows(thread, extra)
<1>1. thread \in [Threads -> Seq(Frame)]
  BY StacksTyped
<1> QED BY <1>1 DEF Follows, StackFollows, CommitsKept

LEMMA TailFollows ==
  ASSUME NEW s \in Seq(Frame), s # <<>>, \A i \in DOMAIN s : s[i].pc = "complete" => i = 1,
         NEW extra
  PROVE  /\ StackFollows(Tail(s), s, extra)
         /\ \A i \in DOMAIN Tail(s) : Tail(s)[i].pc # "complete"
<1>1. Tail(s) \in Seq(Frame) /\ Len(Tail(s)) = Len(s) - 1 /\ DOMAIN Tail(s) = 1..(Len(s) - 1)
  OBVIOUS
<1>2. ASSUME NEW i \in DOMAIN Tail(s)
      PROVE  Tail(s)[i] = s[i + 1] /\ i + 1 \in DOMAIN s /\ i + 1 # 1
  BY <1>1
<1> QED BY <1>1, <1>2 DEF StackFollows

LEMMA PushFollows ==
  ASSUME NEW s \in Seq(Frame), NEW old, NEW c \in Frame, NEW extra,
         StackFollows(s, old, extra), \A i \in DOMAIN s : s[i].pc # "complete",
         c.pc # "complete", c.pc \in {"review", "verdict", "merge"} => c \in extra
  PROVE  /\ StackFollows(<<c>> \o s, old, extra)
         /\ \A i \in DOMAIN (<<c>> \o s) : (<<c>> \o s)[i].pc # "complete"
<1>1. /\ <<c>> \o s \in Seq(Frame) /\ DOMAIN (<<c>> \o s) = 1..(Len(s) + 1)
  OBVIOUS
<1>2. ASSUME NEW i \in DOMAIN (<<c>> \o s)
      PROVE  \/ (<<c>> \o s)[i] = c
             \/ i - 1 \in DOMAIN s /\ (<<c>> \o s)[i] = s[i - 1]
  BY <1>1
<1> QED BY <1>1, <1>2 DEF StackFollows

LEMMA GotoFollows ==
  ASSUME RunsInv, CommitsKept, NEW t \in Busy, NEW c \in Frame, NEW extra,
         c.pc # "complete", c.pc \in {"review", "verdict", "merge"} => c \in extra
  PROVE  /\ Follows(Goto(t, c), extra)
         /\ \A i \in DOMAIN Goto(t, c)[t] : Goto(t, c)[t][i].pc # "complete"
<1>1. thread \in [Threads -> Seq(Frame)] /\ t \in Threads /\ thread[t] # <<>>
  BY StacksTyped DEF Busy
<1>2. Follows(thread, extra)
  BY SameFollows
<1>3. PICK s : s = Tail(thread[t])
  OBVIOUS
<1>4. /\ s \in Seq(Frame) /\ StackFollows(s, thread[t], extra)
      /\ \A i \in DOMAIN s : s[i].pc # "complete"
  BY <1>1, <1>3, TailFollows DEF CommitsKept
<1>5. PICK n : n = <<c>> \o s
  OBVIOUS
<1>6. StackFollows(n, thread[t], extra) /\ \A i \in DOMAIN n : n[i].pc # "complete"
  BY <1>4, <1>5, PushFollows
<1>7. Goto(t, c) = [thread EXCEPT ![t] = n]
  BY <1>3, <1>5 DEF Goto
<1>8. Goto(t, c)[t] = n /\ DOMAIN Goto(t, c) = Threads /\ \A u \in Threads \ {t} : Goto(t, c)[u] = thread[u]
  BY <1>1, <1>7
<1> HIDE DEF Goto
<1> QED BY <1>2, <1>6, <1>8 DEF Follows

LEMMA ReturnFollows ==
  ASSUME RunsInv, CommitsKept, NEW t \in Busy, NEW extra
  PROVE  Follows(Return(t), extra)
<1>1. thread \in [Threads -> Seq(Frame)] /\ t \in Threads /\ thread[t] # <<>>
  BY StacksTyped DEF Busy
<1>2. Follows(thread, extra)
  BY SameFollows
<1>3. PICK s : s = Tail(thread[t])
  OBVIOUS
<1>4. StackFollows(s, thread[t], extra)
  BY <1>1, <1>3, TailFollows DEF CommitsKept
<1>5. /\ Return(t)[t] = s /\ DOMAIN Return(t) = Threads
      /\ \A u \in Threads \ {t} : Return(t)[u] = thread[u]
  BY <1>1, <1>3 DEF Return
<1> QED BY <1>2, <1>4, <1>5 DEF Follows

LEMMA PlainCall ==
  ASSUME NEW d \in Runs, NEW pc \in {"poll", "apply"}
  PROVE  Call(pc, d) \in Frame /\ Call(pc, d).pc = pc
BY CallType DEF Calls

\* A new watcher.
LEMMA WatchFollows ==
  ASSUME NEW threads, NEW d \in Runs, NEW extra, Follows(threads, extra)
  PROVE  Follows(Watch(threads, d), extra)
<1>1. PICK c : c = Call("poll", d)
  OBVIOUS
<1>2. c \in Frame /\ c.pc = "poll"
  BY <1>1, PlainCall
<1>3. \/ Watch(threads, d) = threads
      \/ \E u : Watch(threads, d) = [threads EXCEPT ![u] = <<c>>]
  BY <1>1 DEF Watch
<1>4. ASSUME NEW u, Watch(threads, d) = [threads EXCEPT ![u] = <<c>>]
      PROVE  Follows(Watch(threads, d), extra)
  <2>1. /\ DOMAIN Watch(threads, d) = Threads
        /\ \A v \in Threads : Watch(threads, d)[v] = threads[v] \/ Watch(threads, d)[v] = <<c>>
    BY <1>4 DEF Follows
  <2>2. \A v \in Threads : StackFollows(<<c>>, thread[v], extra)
    BY <1>2 DEF StackFollows
  <2> QED BY <2>1, <2>2 DEF Follows
<1> QED BY <1>3, <1>4

LEMMA LaunchFollows ==
  ASSUME NEW t \in Threads, NEW d \in Runs, NEW next, NEW extra, Follows(next, extra),
         \A i \in DOMAIN next[t] : next[t][i].pc # "complete",
         Launch(t, d, next)
  PROVE  Follows(thread', extra)
<1>1. CASE thread' = Watch(next, d)
  BY <1>1, WatchFollows
<1>2. CASE thread' = [next EXCEPT ![t] = <<Call("apply", d)>> \o @]
  <2>1. PICK c : c = Call("apply", d)
    OBVIOUS
  <2>2. c \in Frame /\ c.pc = "apply"
    BY <2>1, PlainCall
  <2>3. PICK s : s = next[t]
    OBVIOUS
  <2>4. /\ s \in Seq(Frame) /\ StackFollows(s, thread[t], extra)
        /\ \A i \in DOMAIN s : s[i].pc # "complete"
    BY <2>3 DEF Follows, StackFollows
  <2>5. PICK n : n = <<c>> \o s
    OBVIOUS
  <2>6. StackFollows(n, thread[t], extra)
    BY <2>2, <2>4, <2>5, PushFollows
  <2>7. thread' = [next EXCEPT ![t] = n]
    BY <1>2, <2>1, <2>3, <2>5
  <2>8. /\ thread'[t] = n /\ DOMAIN thread' = Threads
        /\ \A u \in Threads \ {t} : thread'[u] = next[u]
    BY <2>7 DEF Follows
  <2> QED BY <2>6, <2>8 DEF Follows
<1> QED BY <1>1, <1>2 DEF Launch

LEMMA StartFollows ==
  ASSUME NEW t \in Threads, NEW d, NEW next, NEW extra, Follows(next, extra),
         \A i \in DOMAIN next[t] : next[t][i].pc # "complete",
         Start(t, d, next)
  PROVE  Follows(thread', extra)
<1>1. CASE Launch(t, d, next)
  BY <1>1, LaunchFollows DEF Start
<1>2. CASE thread' = Watch(next, d)
  BY <1>2, WatchFollows DEF Start
<1>3. CASE thread' = next
  BY <1>3
<1> QED BY <1>1, <1>2, <1>3 DEF Start

\* What may happen to the run of a reviewer.
RunMove(d) ==
    \/ remote'[d] = remote[d]
    \/ /\ remote[d].status = "absent" /\ remote'[d].status = "running"
       /\ remote'[d].says = remote[d].says /\ remote'[d].saw = remote[d].saw
    \/ /\ remote[d].status = "running" /\ remote'[d].status = "acted"
       /\ remote'[d].says = remote[d].says /\ remote'[d].saw = task[d.key].commit
    \/ /\ remote[d].status \in {"running", "acted"} /\ remote'[d].status = "ended"
       /\ remote'[d].says \in Verdicts => remote[d].status = "acted"
       /\ remote'[d].saw = remote[d].saw

RunMoves == \A d \in Runs : d.role = "reviewer" => RunMove(d)

\* No reviewer run is asked for but those in extra.
AskedOn(extra) ==
    \A d \in Runs : d.role = "reviewer" /\ Requested(d)' => Requested(d) \/ d \in extra

\* What a step may do to a task when its reviews do not take part in it.
Still(k) ==
    /\ task'[k].commit = task[k].commit /\ task'[k].history = task[k].history
    /\ \/ task'[k].status \in {"blocked", "no_changes", "none"}
       \/ /\ task'[k].status \in ToWork
          /\ task[k].status \in ToWork \/ ReviewsOver(k)
       \/ /\ task'[k].status = "reviewing" /\ task[k].status = "reviewing"
          /\ task'[k].reviewerRun = task[k].reviewerRun
          /\ task'[k].reviewerAttempts = task[k].reviewerAttempts
          /\ task'[k].writerAttempts = task[k].writerAttempts
       \/ /\ Approved(k)' /\ Approved(k)
          /\ task'[k].reviewerRun = task[k].reviewerRun

\* A task that is new in the plan.
Fresh(k) ==
    task'[k].commit = NoSHA /\ task'[k].history = <<>> /\ task'[k].status = "planned"

CreatedOn == job'.status = "created" => job.status = "created" /\ planned' = planned

HeadsOn == \A k \in PlanKeys : tree[k].head <= tree'[k].head

----------------------------------------------------------------------------
LEMMA AskedKnown ==
  ASSUME RunsInv, NEW d \in Runs, d.role = "reviewer", Requested(d)
  PROVE  d.key \in PlanKeys
<1>1. CASE remote[d].status # "absent" \/ record[d] = "starting"
  BY <1>1 DEF RunsInv, RunsKept, Known
<1>2. CASE \E e \in queue : e.run = d /\ e.status = "starting"
  BY <1>2 DEF RunsInv, RunsKept, Known
<1>3. CASE ReviewCalled(d)
  <2>1. PICK t \in Threads : \E i \in DOMAIN thread[t] :
          thread[t][i].pc = "review" /\ d = Reviewer(thread[t][i].item.key, thread[t][i].item.attempt)
    BY <1>3 DEF ReviewCalled
  <2>2. PICK i \in DOMAIN thread[t] :
          thread[t][i].pc = "review" /\ d = Reviewer(thread[t][i].item.key, thread[t][i].item.attempt)
    BY <2>1
  <2>3. thread[t][i] \in Frames
    BY <2>2 DEF RunsInv
  <2> QED BY <2>2, <2>3 DEF Frames, Good, Reviewer
<1> QED BY <1>1, <1>2, <1>3 DEF Requested

\* The runs the frames in extra will start.
CalledBy(extra) == {Reviewer(f.item.key, f.item.attempt) : f \in {g \in extra : g.pc = "review"}}

\* What Follows says of the calls that start or end a review.
CallsFollow(threads, extra) ==
    \A u \in Threads : \A i \in DOMAIN threads[u] :
        threads[u][i].pc \in {"review", "verdict"} =>
            threads[u][i] \in extra \/ \E j \in DOMAIN thread[u] : threads[u][i] = thread[u][j]

LEMMA AskedStep ==
  ASSUME NEW extra, CallsFollow(thread', extra),
         \A d \in Runs : d.role = "reviewer" =>
            /\ remote'[d].status # "absent" => Requested(d)
            /\ record'[d] = "starting" => Requested(d)
            /\ (\E e \in queue' : e.run = d /\ e.status = "starting") => Requested(d)
  PROVE  AskedOn(CalledBy(extra))
<1> SUFFICES ASSUME NEW d \in Runs, d.role = "reviewer", Requested(d)'
             PROVE  Requested(d) \/ d \in CalledBy(extra)
  BY DEF AskedOn
<1>1. CASE ReviewCalled(d)'
  <2>1. PICK t \in Threads : \E i \in DOMAIN thread'[t] :
          thread'[t][i].pc = "review" /\ d = Reviewer(thread'[t][i].item.key, thread'[t][i].item.attempt)
    BY <1>1 DEF ReviewCalled
  <2>2. PICK i \in DOMAIN thread'[t] :
          thread'[t][i].pc = "review" /\ d = Reviewer(thread'[t][i].item.key, thread'[t][i].item.attempt)
    BY <2>1
  <2>3. thread'[t][i] \in extra \/ \E j \in DOMAIN thread[t] : thread'[t][i] = thread[t][j]
    BY <2>2 DEF CallsFollow
  <2>4. CASE thread'[t][i] \in extra
    BY <2>2, <2>4 DEF CalledBy
  <2>5. CASE \E j \in DOMAIN thread[t] : thread'[t][i] = thread[t][j]
    BY <2>2, <2>5 DEF Requested, ReviewCalled
  <2> QED BY <2>3, <2>4, <2>5
<1>2. CASE ~ReviewCalled(d)'
  BY <1>2 DEF Requested
<1> QED BY <1>1, <1>2

LEMMA AskedKept ==
  ASSUME NEW extra, Follows(thread', extra),
         \A d \in Runs : d.role = "reviewer" =>
            /\ remote'[d].status # "absent" => Requested(d)
            /\ record'[d] = "starting" => Requested(d)
            /\ (\E e \in queue' : e.run = d /\ e.status = "starting") => Requested(d)
  PROVE  AskedOn(CalledBy(extra))
<1>1. CallsFollow(thread', extra)
  BY DEF Follows, StackFollows, CallsFollow
<1> QED BY <1>1, AskedStep

LEMMA AskedSame ==
  ASSUME NEW extra, Follows(thread', extra), UNCHANGED <<record, remote, queue>>
  PROVE  AskedOn(CalledBy(extra)) /\ RunMoves
<1>1. AskedOn(CalledBy(extra))
  BY AskedKept DEF Requested
<1> QED BY <1>1 DEF RunMoves, RunMove

----------------------------------------------------------------------------
(* Each part of the invariant is kept by a step that follows the rules. *)

LEMMA CommitTypes ==
  ASSUME RunsInv
  PROVE  /\ \A k \in Keys : tree[k].head \in Nat
         /\ \A t \in Threads : At(t, "complete") =>
               /\ Top(t).sha \in Nat /\ Top(t).sha # NoSHA /\ Top(t).run.key \in PlanKeys
               /\ Top(t) \in Frame /\ Good(Top(t))
<1>1. SHAs \union {NoSHA} \subseteq Nat
  BY StoreAssumption DEF SHAs, NoSHA
<1>2. \A k \in Keys : tree[k].head \in Nat
  BY <1>1 DEF RunsInv, GitKept, Tree
<1>3. ASSUME NEW t \in Threads, At(t, "complete")
      PROVE  /\ Top(t).sha \in Nat /\ Top(t).sha # NoSHA /\ Top(t).run.key \in PlanKeys
             /\ Top(t) \in Frame /\ Good(Top(t))
  <2>1. t \in Busy
    BY <1>3 DEF Busy, At
  <2>2. Top(t) \in Frame /\ Good(Top(t)) /\ Top(t).pc = "complete"
    BY <1>3, <2>1, TopFrame DEF At, Top
  <2> QED BY <1>1, <2>2 DEF Frame, Good, Known
<1> QED BY <1>2, <1>3

\* A commit that is still to be recorded has been there before.
LEMMA CompleteFollows ==
  ASSUME RunsInv, NEW extra, Follows(thread', extra), NEW t \in Threads, At(t, "complete")'
  PROVE  At(t, "complete") /\ Top(t)' = Top(t) /\ thread'[t] = thread[t]
<1>1. thread'[t] \in Seq(Frame) /\ thread'[t] # <<>> /\ Head(thread'[t]).pc = "complete"
  BY DEF At, Follows, StackFollows
<1>2. 1 \in DOMAIN thread'[t] /\ thread'[t][1].pc = "complete"
  BY <1>1
<1>3. thread'[t] = thread[t]
  BY <1>2 DEF Follows, StackFollows
<1> QED BY <1>1, <1>3 DEF At, Top

LEMMA CommitsStep ==
  ASSUME RunsInv, CommitsKept, NEW extra, Follows(thread', extra), HeadsOn,
         RunsInv', PlanKeys \subseteq PlanKeys',
         \A k \in PlanKeys : \A c \in Commits(k)' :
            \/ c \in Commits(k)
            \/ /\ c <= tree'[k].head
               /\ \A u \in Threads : At(u, "complete")' /\ Top(u)'.run.key = k => Top(u)'.sha # c,
         \A k \in PlanKeys' \ PlanKeys : Fresh(k)
  PROVE  CommitsKept'
<1>1. PlanKeys \subseteq Keys /\ PlanKeys' \subseteq Keys /\ PlanKeys \subseteq PlanKeys'
  <2>1. PlanKeys \subseteq Keys
    BY PlanKeysType DEF RunsInv
  <2>2. PlanKeys' \subseteq Keys
    BY StoreAssumption DEF RunsInv, StoreTypeOK, PlanKeys, Keys
  <2> QED BY <2>1, <2>2
<1>2. \A k \in Keys : tree[k].head \in Nat /\ tree'[k].head \in Nat
  <2>1. SHAs \union {NoSHA} \subseteq Nat
    BY StoreAssumption DEF SHAs, NoSHA
  <2> QED BY <2>1 DEF RunsInv, GitKept, Tree
<1>3. \A k \in PlanKeys : \A c \in Commits(k) : c \in Nat
  <2>1. SHAs \union {NoSHA} \subseteq Nat
    BY StoreAssumption DEF SHAs, NoSHA
  <2> TAKE k \in PlanKeys
  <2>2. task[k] \in Task
    BY PlanKeysType DEF RunsInv
  <2>3. task[k].commit \in Nat /\ task[k].history \in Seq(Report)
    BY <2>1, <2>2 DEF Task
  <2>4. \A i \in DOMAIN task[k].history : task[k].history[i].commit \in Nat
    <3>1. \A i \in DOMAIN task[k].history : task[k].history[i] \in Report
      BY <2>3
    <3> QED BY <2>1, <3>1 DEF Report
  <2> QED BY <2>3, <2>4 DEF Commits
<1>4. ASSUME NEW k \in PlanKeys', NEW c \in Commits(k)'
      PROVE  c <= tree'[k].head
  <2>1. CASE k \in PlanKeys
    <3>1. CASE c \in Commits(k)
      <4>1. c <= tree[k].head /\ tree[k].head <= tree'[k].head
        BY <2>1, <3>1 DEF CommitsKept, HeadsOn
      <4>2. c \in Nat /\ tree[k].head \in Nat /\ tree'[k].head \in Nat
        BY <1>1, <1>2, <1>3, <2>1, <3>1
      <4> QED BY <4>1, <4>2
    <3>2. CASE c <= tree'[k].head
      BY <3>2
    <3> QED BY <2>1, <3>1, <3>2
  <2>2. CASE k \notin PlanKeys
    <3>1. c = 0
      BY <2>2 DEF Fresh, Commits, NoSHA
    <3>2. tree'[k].head \in Nat
      BY <1>1, <1>2
    <3> QED BY <3>1, <3>2
  <2> QED BY <2>1, <2>2
<1>5. ASSUME NEW t \in Threads, At(t, "complete")' PROVE New(t)'
  <2> DEFINE f == Top(t)
             k == f.run.key
  <2>1. At(t, "complete") /\ Top(t)' = Top(t)
    BY <1>5, CompleteFollows
  <2>2. New(t) /\ k \in PlanKeys /\ f.sha \in Nat /\ f.sha # NoSHA
    BY <2>1, CommitTypes DEF CommitsKept
  <2>3. f.sha <= tree'[k].head
    <3>1. f.sha <= tree[k].head /\ tree[k].head <= tree'[k].head
      BY <2>2 DEF New, HeadsOn
    <3>2. tree[k].head \in Nat /\ tree'[k].head \in Nat
      BY <1>1, <1>2, <2>2
    <3> QED BY <2>2, <3>1, <3>2
  <2>4. f.sha \notin Commits(k)'
    <3>1. f.sha \notin Commits(k)
      BY <2>2 DEF New
    <3> QED BY <1>5, <2>1, <2>2, <3>1
  <2>5. \A u \in Threads : At(u, "complete")' /\ Top(u)'.run.key = k /\ Top(u)'.sha = f.sha => u = t
    <3> SUFFICES ASSUME NEW u \in Threads, At(u, "complete")', Top(u)'.run.key = k, Top(u)'.sha = f.sha
                 PROVE  u = t
      OBVIOUS
    <3>1. At(u, "complete") /\ Top(u)' = Top(u)
      BY CompleteFollows
    <3> QED BY <2>2, <3>1 DEF New
  <2> QED BY <2>1, <2>3, <2>4, <2>5 DEF New
<1>6. \A t \in Threads : \A i \in DOMAIN thread'[t] : thread'[t][i].pc = "complete" => i = 1
  BY DEF Follows, StackFollows
<1> QED BY <1>4, <1>5, <1>6 DEF CommitsKept

LEMMA HasReadStep ==
  ASSUME RunsInv, \A d \in Runs : d.role = "reviewer" /\ d.key \notin adopted => HasRead(d),
         RunMoves, adopted \subseteq adopted', NEW extra, AskedOn(extra),
         \A k \in PlanKeys : task[k].commit # NoSHA => task'[k].commit # NoSHA,
         \A d \in extra : d.key \notin adopted => task'[d.key].commit # NoSHA
  PROVE  \A d \in Runs : d.role = "reviewer" /\ d.key \notin adopted' => HasRead(d)'
<1> SUFFICES ASSUME NEW d \in Runs, d.role = "reviewer", d.key \notin adopted
             PROVE  HasRead(d)'
  OBVIOUS
<1>1. HasRead(d) /\ RunMove(d)
  BY DEF RunMoves
<1>2. remote[d].status # "ended" => remote[d].says = "nothing"
  BY DEF RunsInv, RunsKept
<1>3. Requested(d)' => task'[d.key].commit # NoSHA
  <2>1. Requested(d) => task[d.key].commit # NoSHA /\ d.key \in PlanKeys
    BY <1>1, AskedKnown DEF HasRead
  <2> QED BY <2>1 DEF AskedOn
<1>4. remote[d].status # "absent" => task[d.key].commit # NoSHA
  BY <1>1 DEF HasRead, Requested
<1>5. /\ remote'[d].status = "absent" => remote'[d].saw = NoSHA
      /\ remote'[d].status = "acted" \/ remote'[d].says \in Verdicts => remote'[d].saw # NoSHA
  BY <1>1, <1>2, <1>4 DEF HasRead, RunMove, Verdicts
<1> QED BY <1>3, <1>5 DEF HasRead

LEMMA ReviewsStep ==
  ASSUME RunsInv, RunsOn, RunMoves, NEW extra, AskedOn(extra),
         NEW k \in PlanKeys, ReviewsTrue(k), Still(k),
         \A d \in extra : d.key # k
  PROVE  ReviewsTrue(k)'
<1>1. ASSUME NEW d \in ReviewersOf(k)
      PROVE  /\ d \in Runs /\ d.role = "reviewer" /\ d.key = k /\ RunMove(d)
             /\ Filed(d)' <=> Filed(d)
             /\ Outdated(d)' <=> Outdated(d)
             /\ Failed(d) => Failed(d)'
             /\ Requested(d)' => Requested(d)
             /\ remote[d].status # "ended" => remote[d].says = "nothing"
  <2>1. d \in Runs /\ d.role = "reviewer" /\ d.key = k /\ RunMove(d)
    BY DEF ReviewersOf, RunMoves
  <2>2. (Filed(d)' <=> Filed(d)) /\ (Outdated(d)' <=> Outdated(d))
    BY <2>1 DEF Still, Filed, Outdated
  <2>3. remote[d].status # "ended" => remote[d].says = "nothing"
    BY <2>1 DEF RunsInv, RunsKept
  <2>4. Failed(d) => Failed(d)'
    BY <2>1, <2>3 DEF Failed, RunsOn
  <2>5. Requested(d)' => Requested(d)
    BY <2>1 DEF AskedOn
  <2> QED BY <2>1, <2>2, <2>3, <2>4, <2>5
<1>2. ReportsTrue(k)'
  BY DEF ReviewsTrue, ReportsTrue, Still, RunsOn
<1>3. ReadingsTrue(k)'
  <2> SUFFICES ASSUME NEW d \in ReviewersOf(k), ~Filed(d)', ~Failed(d)', remote'[d].saw # NoSHA
               PROVE  remote'[d].saw = task'[k].commit
    BY DEF ReadingsTrue, ReviewersOf
  <2>1. ~Filed(d) /\ ~Failed(d) /\ RunMove(d) /\ d.key = k
    BY <1>1
  <2>2. remote[d].saw # NoSHA => remote[d].saw = task[k].commit
    BY <2>1 DEF ReviewsTrue, ReadingsTrue
  <2> QED BY <2>1, <2>2 DEF RunMove, Still
<1>4. task'[k].status \in ToWork => ReviewsOver(k)'
  <2>1. ASSUME task'[k].status \in ToWork PROVE ReviewsOver(k)
    BY <2>1 DEF Still, ReviewsTrue, ToWork, Approved
  <2> QED BY <1>1, <2>1 DEF ReviewsOver, ReviewersOf
<1>5. task'[k].status = "reviewing" => task'[k].commit # NoSHA /\ OnePending(k)'
  <2> SUFFICES ASSUME task'[k].status = "reviewing" PROVE task'[k].commit # NoSHA /\ OnePending(k)'
    OBVIOUS
  <2>1. /\ task[k].status = "reviewing" /\ task'[k].reviewerRun = task[k].reviewerRun
        /\ task'[k].reviewerAttempts = task[k].reviewerAttempts
    BY DEF Still, ToWork, Approved
  <2>2. OnePending(k)
    BY <2>1 DEF ReviewsTrue
  <2>3. \A d \in ReviewersOf(k) : Pending(d)' => Pending(d)
    BY <1>1 DEF Pending
  <2>4. task'[k].commit # NoSHA
    BY <2>1 DEF ReviewsTrue, Still
  <2> QED BY <2>1, <2>2, <2>3, <2>4 DEF OnePending, ReviewersOf
<1>6. Approved(k)' => ApprovalTrue(k)'
  <2> SUFFICES ASSUME Approved(k)' PROVE ApprovalTrue(k)'
    OBVIOUS
  <2>1. Approved(k) /\ task'[k].reviewerRun = task[k].reviewerRun
    BY DEF Still, ToWork, Approved
  <2> QED BY <2>1 DEF ReviewsTrue, ApprovalTrue, Still, RunsOn
<1> QED BY <1>2, <1>3, <1>4, <1>5, <1>6 DEF ReviewsTrue

\* A task that is new in the plan.
LEMMA FreshReviews ==
  ASSUME RunsInv, RunsInv', NEW extra, AskedOn(extra), \A d \in extra : d.key \in PlanKeys,
         \A d \in Runs : d.role = "reviewer" /\ d.key \notin adopted' => HasRead(d)',
         NEW k, k \notin PlanKeys, k \notin adopted', Fresh(k)
  PROVE  ReviewsTrue(k)'
<1>1. \A d \in ReviewersOf(k) : ~Requested(d)'
  BY AskedKnown DEF ReviewersOf, AskedOn
<1>2. \A d \in ReviewersOf(k) : remote'[d].saw = NoSHA
  BY <1>1 DEF HasRead, Requested, ReviewersOf
<1> QED BY <1>1, <1>2 DEF ReviewsTrue, ReportsTrue, ReadingsTrue, ReviewsOver, Fresh, Approved,
                          ToWork, ReviewersOf

LEMMA RefusableStep ==
  ASSUME RunsInv, NEW extra, CallsFollow(thread', extra), adopted \subseteq adopted',
         VerdictsRefusable,
         \A k \in PlanKeys \ adopted' :
            Still(k) \/ \A f \in Frames : f.run.key = k /\ Refusable(f) => Refusable(f)',
         \A f \in extra : Refusable(f)'
  PROVE  VerdictsRefusable'
<1> SUFFICES ASSUME NEW t \in Threads, NEW i \in DOMAIN thread'[t], NEW f, f = thread'[t][i],
                    f.pc = "verdict", f.run.key \notin adopted'
             PROVE  Refusable(f)'
  BY DEF VerdictsRefusable, Refusable
<1>1. f \in extra \/ \E j \in DOMAIN thread[t] : f = thread[t][j]
  BY DEF CallsFollow
<1>2. CASE f \in extra
  BY <1>2
<1>3. CASE \E j \in DOMAIN thread[t] : f = thread[t][j]
  <2> DEFINE k == f.run.key
  <2>1. f \in Frames /\ Refusable(f)
    BY <1>3 DEF RunsInv, VerdictsRefusable
  <2>2. f \in Frame /\ k \in PlanKeys
    BY <2>1 DEF Frames, Good, Known
  <2>3. CASE Still(k)
    <3>1. Filed(f.run)' <=> Filed(f.run)
      BY <2>3 DEF Filed, Still
    <3>2. task'[k].status = "reviewing" =>
            /\ task[k].status = "reviewing" /\ task'[k].reviewerRun = task[k].reviewerRun
            /\ task'[k].reviewerAttempts = task[k].reviewerAttempts
            /\ task'[k].writerAttempts = task[k].writerAttempts
      BY <2>3 DEF Still, ToWork, Approved
    <3> QED BY <2>1, <3>1, <3>2 DEF Refusable
  <2> QED BY <2>1, <2>2, <2>3
<1> QED BY <1>1, <1>2, <1>3

\* A merge is called for an eligible task only.
Mergeable(f) ==
    /\ f.item.key \in PlanKeys
    /\ task[f.item.key].status = "integration_eligible"

MergesOn ==
    \A t \in Threads : \A i \in DOMAIN thread'[t] : thread'[t][i].pc = "merge" =>
        Mergeable(thread'[t][i]) \/ \E j \in DOMAIN thread[t] : thread'[t][i] = thread[t][j]

\* What every step does for the reviews and for the merges that rely on them.
ReviewsKept == ReviewInv' /\ MergesOn

LEMMA MergesFollow ==
  ASSUME NEW extra, Follows(thread', extra), \A f \in extra : f.pc = "merge" => Mergeable(f)
  PROVE  MergesOn
BY DEF Follows, StackFollows, MergesOn

\* A step that no review takes part in, but that may call a merge.
LEMMA SteadyReviews ==
  ASSUME RunsInv, ReviewInv, Kept, PlanKeys \subseteq PlanKeys', HeadsOn, RunMoves,
         NEW extra, \A f \in extra : f.pc = "merge" /\ Mergeable(f),
         AskedOn({}), Follows(thread', extra), adopted \subseteq adopted',
         \A k \in PlanKeys \ adopted' : Still(k),
         \A k \in PlanKeys : task'[k].commit = task[k].commit /\ task'[k].history = task[k].history,
         \A k \in PlanKeys' \ PlanKeys : Fresh(k),
         CreatedOn
  PROVE  ReviewsKept
<1>1. RunsInv' /\ RunsOn
  BY DEF Kept
<1>2. \A k \in PlanKeys : Commits(k)' = Commits(k)
  BY DEF Commits
<1>3. CommitsKept'
  BY <1>1, <1>2, CommitsStep DEF ReviewInv
<1>4. \A d \in Runs : d.role = "reviewer" /\ d.key \notin adopted' => HasRead(d)'
  BY HasReadStep DEF ReviewInv
<1>5. ASSUME NEW k \in PlanKeys' \ adopted' PROVE ReviewsTrue(k)'
  <2>1. CASE k \in PlanKeys
    BY <1>1, <1>5, <2>1, ReviewsStep DEF ReviewInv
  <2>2. CASE k \notin PlanKeys
    BY <1>1, <1>4, <1>5, <2>2, FreshReviews
  <2> QED BY <2>1, <2>2
<1>6. VerdictsRefusable'
  <2>1. CallsFollow(thread', extra)
    BY DEF Follows, StackFollows, CallsFollow
  <2>2. \A f \in extra : Refusable(f)'
    BY DEF Refusable
  <2> QED BY <2>1, <2>2, RefusableStep DEF ReviewInv
<1>7. MergesOn
  BY MergesFollow
<1> QED BY <1>3, <1>4, <1>5, <1>6, <1>7 DEF ReviewInv, CreatedOn, ReviewsKept

\* A step that the reviews do not take part in.
LEMMA QuietReviews ==
  ASSUME RunsInv, ReviewInv, Kept, PlanKeys \subseteq PlanKeys', HeadsOn, RunMoves,
         AskedOn({}), Follows(thread', {}), adopted \subseteq adopted',
         \A k \in PlanKeys \ adopted' : Still(k),
         \A k \in PlanKeys : task'[k].commit = task[k].commit /\ task'[k].history = task[k].history,
         \A k \in PlanKeys' \ PlanKeys : Fresh(k),
         CreatedOn
  PROVE  ReviewsKept
<1>1. \A f \in {} : f.pc = "merge" /\ Mergeable(f)
  OBVIOUS
<1> QED BY <1>1, SteadyReviews

----------------------------------------------------------------------------
(* The calls a step goes on to. *)

LEMMA WentTyped ==
  ASSUME RunsInv, RunsInv', NEW t \in Busy, NEW c, thread' = Goto(t, c)
  PROVE  c \in Frame
<1>1. thread \in [Threads -> Seq(Frame)] /\ t \in Threads /\ thread[t] # <<>>
  BY StacksTyped DEF Busy
<1>2. thread'[t] = <<c>> \o Tail(thread[t])
  BY <1>1 DEF Goto
<1>3. thread'[t] \in Seq(Frames') /\ Tail(thread[t]) \in Seq(Frame)
  BY <1>1 DEF RunsInv
<1>4. Len(thread'[t]) = 1 + Len(Tail(thread[t])) /\ thread'[t][1] = c
  <2>1. PICK s : s = Tail(thread[t])
    OBVIOUS
  <2>2. s \in Seq(Frame) /\ thread'[t] = <<c>> \o s
    BY <1>2, <1>3, <2>1
  <2>3. s \in Seq(Frame \union {c}) /\ <<c>> \in Seq(Frame \union {c})
    BY <2>2
  <2> QED BY <2>1, <2>2, <2>3
<1>5. thread'[t][1] \in Frames'
  BY <1>3, <1>4
<1> QED BY <1>4, <1>5 DEF Frames

PlainPcs == Calls \ {"complete", "review", "verdict", "merge"}

LEMMA WentFollows ==
  ASSUME RunsInv, RunsInv', ReviewInv, NEW t \in Busy, NEW c, NEW extra,
         \/ thread' = Goto(t, c) /\ c.pc \in PlainPcs
         \/ thread' = Return(t)
  PROVE  Follows(thread', extra)
<1>1. CASE thread' = Goto(t, c) /\ c.pc \in PlainPcs
  BY <1>1, WentTyped, GotoFollows DEF PlainPcs, ReviewInv
<1>2. CASE thread' = Return(t)
  BY <1>2, ReturnFollows DEF ReviewInv
<1> QED BY <1>1, <1>2

LEMMA DonePlain ==
  ASSUME NEW f
  PROVE  Done(f).pc \in PlainPcs
BY DEF Done, Call, PlainPcs, Calls

LEMMA PcPlain ==
  ASSUME NEW f \in Frame, NEW pc \in PlainPcs
  PROVE  [f EXCEPT !.pc = pc].pc \in PlainPcs
BY DEF Frame

\* A frame, but for the types of its fields.
Loose(f) == f = [pc |-> f.pc, run |-> f.run, item |-> f.item, todo |-> f.todo,
                 publish |-> f.publish, sha |-> f.sha]

LEMMA ContinuePlain ==
  ASSUME NEW f, Loose(f)
  PROVE  Continue(f).pc \in PlainPcs
<1>1. PICK g : g = f
  OBVIOUS
<1>2. CASE f.todo # {}
  <2>1. PICK i : i = Nearest(f.todo)
    OBVIOUS
  <2>2. PICK pc : pc = IF i.based THEN "writer" ELSE "base"
    OBVIOUS
  <2>3. Continue(f) = [f EXCEPT !.pc = pc, !.item = i, !.todo = @ \ {i}]
    BY <1>2, <2>1, <2>2 DEF Continue
  <2>4. Continue(f).pc = pc
    BY <2>3 DEF Loose
  <2> QED BY <2>2, <2>4 DEF PlainPcs, Calls
<1>3. CASE f.todo = {} /\ f.publish # "no"
  <2>1. Continue(f) = [f EXCEPT !.pc = "draft"]
    BY <1>3 DEF Continue
  <2>2. Continue(f).pc = "draft"
    BY <2>1 DEF Loose
  <2> QED BY <2>2 DEF PlainPcs, Calls
<1>4. CASE f.todo = {} /\ f.publish = "no"
  BY <1>4, DonePlain DEF Continue
<1> QED BY <1>2, <1>3, <1>4

LEMMA FrameLoose ==
  ASSUME NEW f \in Frame, NEW todo
  PROVE  Loose([f EXCEPT !.todo = todo])
BY DEF Frame, Loose

LEMMA PickLoose ==
  ASSUME NEW f \in Frame, NEW todo, NEW sha, NEW publish, NEW g,
         g = [f EXCEPT !.todo = todo, !.sha = sha, !.publish = publish]
  PROVE  Loose(g)
<1>1. g = [pc |-> f.pc, run |-> f.run, item |-> f.item, todo |-> todo,
           publish |-> publish, sha |-> sha]
  BY DEF Frame
<1> QED BY <1>1 DEF Loose

LEMMA PickPlain ==
  ASSUME NEW f \in Frame, NEW tasks, NEW j
  PROVE  Pick(f, tasks, j).pc \in PlainPcs
<1> DEFINE eligible == {k \in PlanKeys : tasks[k].status = "integration_eligible"}
<1>1. CASE eligible # {}
  <2>1. PICK k : k = CHOOSE e \in eligible : \A l \in eligible : e <= l
    OBVIOUS
  <2>2. Pick(f, tasks, j) = [f EXCEPT !.pc = "begin", !.item = [NoItem EXCEPT !.key = k]]
    BY <1>1, <2>1 DEF Pick
  <2>3. Pick(f, tasks, j).pc = "begin"
    BY <2>2 DEF Frame
  <2> QED BY <2>3 DEF PlainPcs, Calls
<1>2. CASE eligible = {}
  <2>1. PICK todo : todo = Ready(planned, tasks)
    OBVIOUS
  <2>2. PICK publish : publish = IF j.status # "holistic_reviewing" THEN "no"
                                 ELSE IF j.pullRequest THEN "known" ELSE "new"
    OBVIOUS
  <2>3. PICK sha : sha = j.integrationSHA
    OBVIOUS
  <2>g. PICK g : g = [f EXCEPT !.todo = todo, !.sha = sha, !.publish = publish]
    OBVIOUS
  <2>4. Pick(f, tasks, j) = Continue(g)
    BY <1>2, <2>1, <2>2, <2>3, <2>g DEF Pick
  <2>5. Loose(g)
    BY <2>g, PickLoose
  <2> QED BY <2>4, <2>5, ContinuePlain
<1> QED BY <1>1, <1>2

LEMMA VerdictPlain ==
  ASSUME NEW f \in Frame, NEW says, NEW own
  PROVE  AfterVerdict(f, says, own).pc \in PlainPcs
<1>1. PICK todo : todo = {ItemFor(f.run.key, own)}
  OBVIOUS
<1>2. \/ AfterVerdict(f, says, own) = [f EXCEPT !.pc = "integrate"]
      \/ AfterVerdict(f, says, own) = Continue([f EXCEPT !.todo = todo])
      \/ AfterVerdict(f, says, own) = [f EXCEPT !.pc = "block"]
  BY <1>1 DEF AfterVerdict
<1>3. "integrate" \in PlainPcs /\ "block" \in PlainPcs
  BY DEF PlainPcs, Calls
<1> QED BY <1>2, <1>3, PcPlain, FrameLoose, ContinuePlain

----------------------------------------------------------------------------
(* Steps that change nothing but the call stacks, or the tasks too. *)

LEMMA SameStill ==
  ASSUME RunsInv, NEW k \in PlanKeys, task'[k] = task[k]
  PROVE  Still(k)
<1>1. task[k].status \in TaskStatuses \union {"none"}
  BY PlanKeysType DEF RunsInv, Task
<1> QED BY <1>1 DEF Still, TaskStatuses, ToWork, Approved

LEMMA StoreUnmoved ==
  ASSUME RunsInv, UNCHANGED storeVars
  PROVE  /\ \A k \in PlanKeys : task'[k] = task[k] /\ Still(k)
         /\ PlanKeys' = PlanKeys /\ CreatedOn
BY SameStill DEF storeVars, PlanKeys, CreatedOn

LEMMA HeadsSame ==
  ASSUME RunsInv, UNCHANGED tree
  PROVE  HeadsOn
<1>1. \A k \in PlanKeys : tree[k].head \in Nat
  BY CommitTypes, PlanKeysType DEF RunsInv
<1> QED BY <1>1 DEF HeadsOn

LEMMA NobodyCalled == CalledBy({}) = {}
BY DEF CalledBy

\* The job store and the runs stay as they are.
LEMMA StackReviews ==
  ASSUME RunsInv, ReviewInv, Kept, UNCHANGED <<storeVars, record, remote, queue>>, HeadsOn,
         Follows(thread', {}), adopted \subseteq adopted'
  PROVE  ReviewsKept
<1>1. AskedOn({}) /\ RunMoves
  BY AskedSame, NobodyCalled
<1>2. /\ \A k \in PlanKeys : task'[k] = task[k] /\ Still(k)
      /\ PlanKeys' = PlanKeys /\ CreatedOn
  BY StoreUnmoved
<1> QED BY <1>1, <1>2, QuietReviews

\* A handler goes on, or gives up, and nothing else changes.
LEMMA MovedReviews ==
  ASSUME RunsInv, ReviewInv, Kept, UNCHANGED <<storeVars, record, remote, queue>>, HeadsOn,
         adopted \subseteq adopted', NEW t \in Busy, NEW c,
         \/ thread' = Goto(t, c) /\ c.pc \in PlainPcs
         \/ thread' = Return(t)
  PROVE  ReviewsKept
BY WentFollows, StackReviews DEF Kept

\* An operation of the job store that the reviews do not take part in.
LEMMA TasksReviews ==
  ASSUME RunsInv, ReviewInv, Kept, UNCHANGED <<planned, record, remote, queue>>,
         HeadsOn, adopted \subseteq adopted', CreatedOn,
         \A k \in PlanKeys : (k \in adopted' \/ Still(k)),
         \A k \in PlanKeys : task'[k].commit = task[k].commit /\ task'[k].history = task[k].history,
         NEW t \in Busy, NEW c,
         \/ thread' = Goto(t, c) /\ c.pc \in PlainPcs
         \/ thread' = Return(t)
  PROVE  ReviewsKept
<1>1. Follows(thread', {})
  BY WentFollows DEF Kept
<1>2. AskedOn({}) /\ RunMoves
  BY <1>1, AskedSame, NobodyCalled
<1>3. PlanKeys' = PlanKeys
  BY DEF PlanKeys
<1> QED BY <1>1, <1>2, <1>3, QuietReviews

\* The same for an operation on one task.
LEMMA TaskReviews ==
  ASSUME RunsInv, ReviewInv, Kept, UNCHANGED <<planned, record, remote, queue>>,
         HeadsOn, adopted \subseteq adopted', CreatedOn,
         NEW k \in PlanKeys, \A j \in PlanKeys \ {k} : task'[j] = task[j],
         task'[k].commit = task[k].commit, task'[k].history = task[k].history,
         k \in adopted' \/ Still(k),
         NEW t \in Busy, NEW c,
         \/ thread' = Goto(t, c) /\ c.pc \in PlainPcs
         \/ thread' = Return(t)
  PROVE  ReviewsKept
<1>1. \A j \in PlanKeys : (j \in adopted' \/ Still(j))
  BY SameStill
<1>2. \A j \in PlanKeys : task'[j].commit = task[j].commit /\ task'[j].history = task[j].history
  OBVIOUS
<1> QED BY <1>1, <1>2, TasksReviews

\* A handler goes on, or gives up, and the worktrees stay as they are too.
LEMMA SpinReviews ==
  ASSUME RunsInv, ReviewInv, Kept, UNCHANGED <<storeVars, record, remote, queue, gitVars>>,
         NEW t \in Busy, NEW c,
         \/ thread' = Goto(t, c) /\ c.pc \in PlainPcs
         \/ thread' = Return(t)
  PROVE  ReviewsKept
<1>1. HeadsOn /\ adopted \subseteq adopted'
  BY HeadsSame DEF gitVars, historyVars
<1> QED BY <1>1, MovedReviews

\* A reviewer run that exists, or will, has been asked for.
RunsAsked ==
    /\ RunMoves
    /\ \A d \in Runs : d.role = "reviewer" =>
          /\ remote'[d].status # "absent" => Requested(d)
          /\ record'[d] = "starting" => Requested(d)
          /\ (\E e \in queue' : e.run = d /\ e.status = "starting") => Requested(d)

LEMMA RunReviews ==
  ASSUME RunsInv, ReviewInv, Kept, UNCHANGED <<planned, task>>, CreatedOn, HeadsOn,
         adopted \subseteq adopted', Follows(thread', {}), RunsAsked
  PROVE  ReviewsKept
<1>1. AskedOn({}) /\ RunMoves
  BY AskedKept, NobodyCalled DEF RunsAsked
<1>2. \A k \in PlanKeys : task'[k] = task[k] /\ Still(k)
  BY SameStill
<1>3. PlanKeys' = PlanKeys
  BY DEF PlanKeys
<1> QED BY <1>1, <1>2, <1>3, QuietReviews

LEMMA RunsSame ==
  ASSUME UNCHANGED <<remote, queue>>,
         \A d \in Runs : record'[d] = "starting" => record[d] = "starting"
  PROVE  RunsAsked
BY DEF RunsAsked, RunMoves, RunMove, Requested

LEMMA LaunchAsked ==
  ASSUME RunsInv, NEW t, NEW d \in Runs, NEW next, Launch(t, d, next), queue' \subseteq queue,
         d.role = "reviewer" => Requested(d)
  PROVE  RunsAsked
<1>1. record \in [Runs -> Records] /\ remote \in [Runs -> Remote]
  BY DEF RunsInv, RunsKept
<1>2. \A c \in Runs \ {d} : record'[c] = record[c] /\ remote'[c] = remote[c]
  BY <1>1 DEF Launch, Saved
<1>3. record'[d] # "starting"
  BY <1>1 DEF Launch, Saved
<1>4. \/ remote' = remote
      \/ remote[d].status = "absent" /\ remote' = [remote EXCEPT ![d] = [@ EXCEPT !.status = "running"]]
  BY DEF Launch
<1>5. RunMove(d)
  BY <1>1, <1>4 DEF RunMove, Remote
<1>6. \A c \in Runs : RunMove(c)
  BY <1>2, <1>5 DEF RunMove
<1>7. ASSUME NEW c \in Runs, c.role = "reviewer"
      PROVE  /\ remote'[c].status # "absent" => Requested(c)
             /\ record'[c] = "starting" => Requested(c)
             /\ (\E e \in queue' : e.run = c /\ e.status = "starting") => Requested(c)
  <2>1. CASE c = d
    BY <1>7, <2>1
  <2>2. CASE c # d
    BY <1>2, <2>2 DEF Requested
  <2> QED BY <2>1, <2>2
<1> QED BY <1>6, <1>7 DEF RunsAsked, RunMoves

LEMMA StartAsked ==
  ASSUME RunsInv, NEW t, NEW d, NEW next, Start(t, d, next),
         d.role = "reviewer" => Requested(d)
  PROVE  RunsAsked
<1>1. CASE Launch(t, d, next)
  BY <1>1, LaunchAsked DEF Start
<1>2. CASE UNCHANGED <<record, remote>>
  BY <1>2, RunsSame DEF Start
<1> QED BY <1>1, <1>2 DEF Start

LEMMA LaunchFailsAsked ==
  ASSUME RunsInv, NEW d, NEW next, LaunchFails(d, next), d.role = "reviewer" => Requested(d)
  PROVE  RunsAsked
<1>1. record \in [Runs -> Records] /\ remote \in [Runs -> Remote] /\ d \in Runs /\ queue' = queue
  BY DEF RunsInv, RunsKept, LaunchFails
<1>2. \A c \in Runs \ {d} : record'[c] = record[c] /\ remote'[c] = remote[c]
  BY <1>1 DEF LaunchFails, Saved
<1>4. \/ remote' = remote
      \/ remote[d].status = "absent" /\ remote' = [remote EXCEPT ![d] = [@ EXCEPT !.status = "running"]]
  BY DEF LaunchFails
<1>5. RunMove(d)
  BY <1>1, <1>4 DEF RunMove, Remote
<1>6. \A c \in Runs : RunMove(c)
  BY <1>2, <1>5 DEF RunMove
<1>7. ASSUME NEW c \in Runs, c.role = "reviewer"
      PROVE  /\ remote'[c].status # "absent" => Requested(c)
             /\ record'[c] = "starting" => Requested(c)
             /\ (\E e \in queue' : e.run = c /\ e.status = "starting") => Requested(c)
  <2>1. CASE c = d
    BY <1>7, <2>1
  <2>2. CASE c # d
    BY <1>1, <1>2, <2>2 DEF Requested
  <2> QED BY <2>1, <2>2
<1> QED BY <1>6, <1>7 DEF RunsAsked, RunMoves

----------------------------------------------------------------------------
(* Watching, applying and marking. *)

LEMMA ObserveReviews ==
  ASSUME RunsInv, ReviewInv, NEW t \in Busy, Observe(t), UNCHANGED <<storeVars, gitVars, budget>>
  PROVE  ReviewsKept
<1>1. Kept
  BY ObserveKept
<1>f. PICK c : c = Call("apply", Top(t).run)
  OBVIOUS
<1>2. /\ UNCHANGED <<remote, queue>> /\ thread' = Goto(t, c)
      /\ record' = [record EXCEPT ![Top(t).run] = "ended"]
  BY <1>f DEF Observe, Saved
<1>3. c.pc \in PlainPcs
  BY <1>f DEF Call, PlainPcs, Calls
<1>4. Follows(thread', {})
  BY <1>1, <1>2, <1>3, WentFollows DEF Kept
<1>5. RunsAsked
  <2>1. record \in [Runs -> Records]
    BY DEF RunsInv, RunsKept
  <2>2. \A d \in Runs : record'[d] = "starting" => record[d] = "starting"
    BY <1>2, <2>1
  <2> QED BY <1>2, <2>2, RunsSame
<1>6. CreatedOn /\ HeadsOn /\ UNCHANGED <<planned, task, adopted>>
  BY HeadsSame DEF CreatedOn, storeVars, gitVars, historyVars
<1> QED BY <1>1, <1>4, <1>5, <1>6, RunReviews

LEMMA MarkReviews ==
  ASSUME RunsInv, ReviewInv, NEW t \in Busy, Mark(t), UNCHANGED <<storeVars, gitVars, budget>>
  PROVE  ReviewsKept
<1>1. Kept
  BY MarkKept
<1>2. /\ UNCHANGED <<remote, queue>> /\ thread' = Return(t)
      /\ \/ record' = record
         \/ record' = [record EXCEPT ![Top(t).run] = "applied"]
  BY DEF Mark, Saved
<1>4. Follows(thread', {})
  BY <1>2, ReturnFollows DEF ReviewInv
<1>5. RunsAsked
  <2>1. record \in [Runs -> Records]
    BY DEF RunsInv, RunsKept
  <2>2. \A d \in Runs : record'[d] = "starting" => record[d] = "starting"
    BY <1>2, <2>1
  <2> QED BY <1>2, <2>2, RunsSame
<1>6. CreatedOn /\ HeadsOn /\ UNCHANGED <<planned, task, adopted>>
  BY HeadsSame DEF CreatedOn, storeVars, gitVars, historyVars
<1> QED BY <1>1, <1>4, <1>5, <1>6, RunReviews

LEMMA RetryReviews ==
  ASSUME RunsInv, ReviewInv, NEW k \in PlanKeys, Retry(k)
  PROVE  ReviewsKept
<1>1. Kept
  BY RetryKept
<1> DEFINE d == Writer(k, task[k].writerAttempts)
<1>c. PICK c : c = [Call("retry", task[k].writerRun) EXCEPT !.item.key = k]
  OBVIOUS
<1>2. /\ d \in Runs /\ record' = [record EXCEPT ![d] = "superseded"]
      /\ thread' = [thread EXCEPT ![Operator] = <<c>>]
      /\ UNCHANGED <<storeVars, remote, queue, gitVars>>
  BY <1>c DEF Retry, Supersede, Saved
<1>3. thread \in [Threads -> Seq(Frame)]
  BY StacksTyped
<1>4. c \in Frame /\ c.pc = "retry"
  <2>1. k \in Keys /\ task[k].writerRun \in Runs
    BY PlanKeysType DEF Retry, RunsInv, Task
  <2> QED BY <1>c, <2>1 DEF Call, Frame, NoItem, Item, Calls, NoSHA
<1>5. Follows(thread', {})
  <2>1. Follows(thread, {})
    BY SameFollows DEF ReviewInv
  <2>2. \A u \in Threads : thread'[u] = thread[u] \/ thread'[u] = <<c>>
    BY <1>2, <1>3
  <2>3. \A u \in Threads : StackFollows(<<c>>, thread[u], {})
    BY <1>4 DEF StackFollows
  <2>4. DOMAIN thread' = Threads
    BY <1>2, <1>3
  <2> QED BY <2>1, <2>2, <2>3, <2>4 DEF Follows
<1>6. RunsAsked
  <2>1. record \in [Runs -> Records]
    BY DEF RunsInv, RunsKept
  <2>2. \A r \in Runs : record'[r] = "starting" => record[r] = "starting"
    BY <1>2, <2>1
  <2> QED BY <1>2, <2>2, RunsSame
<1>7. CreatedOn /\ HeadsOn /\ UNCHANGED <<planned, task, adopted>>
  BY <1>2, HeadsSame DEF CreatedOn, storeVars, gitVars, historyVars
<1> QED BY <1>1, <1>5, <1>6, <1>7, RunReviews

LEMMA GitSame ==
  ASSUME RunsInv, UNCHANGED gitVars
  PROVE  HeadsOn /\ adopted \subseteq adopted'
BY HeadsSame DEF gitVars, historyVars

\* An operation on the job alone.
LEMMA JobReviews ==
  ASSUME RunsInv, ReviewInv, Kept, UNCHANGED <<planned, task, record, remote, queue, gitVars>>,
         CreatedOn, NEW t \in Busy, NEW c,
         \/ thread' = Goto(t, c) /\ c.pc \in PlainPcs
         \/ thread' = Return(t)
  PROVE  ReviewsKept
<1>1. HeadsOn /\ adopted \subseteq adopted'
  BY GitSame
<1>2. \A k \in PlanKeys : (k \in adopted' \/ Still(k))
  BY SameStill
<1>3. \A k \in PlanKeys : task'[k].commit = task[k].commit /\ task'[k].history = task[k].history
  OBVIOUS
<1> QED BY <1>1, <1>2, <1>3, TasksReviews

LEMMA ApplyPlanReviews ==
  ASSUME RunsInv, ReviewInv, NEW t \in Busy, ApplyPlan(t)
  PROVE  ReviewsKept
<1>k. Kept
  BY ApplyPlanKept
<1>f. PICK f : f = Top(t)
  OBVIOUS
<1>todo. PICK todo : todo = Ready(planned', task')
  OBVIOUS
<1>g. PICK g : g = Continue([f EXCEPT !.todo = todo])
  OBVIOUS
<1>1. f \in Frame /\ UNCHANGED <<record, remote, queue, gitVars, budget>>
  BY <1>f, TopFrame DEF ApplyPlan
<1>2. \/ FailJob /\ thread' = Goto(t, Done(f))
      \/ /\ \E n \in budget.plans : \E deps \in [1..n -> SUBSET (1..n)] : SubmitPlan(n, deps)
         /\ thread' = Goto(t, g)
      \/ UNCHANGED storeVars /\ thread' = Goto(t, g)
  BY <1>f, <1>todo, <1>g DEF ApplyPlan
<1>3. g.pc \in PlainPcs /\ Done(f).pc \in PlainPcs
  BY <1>1, <1>g, FrameLoose, ContinuePlain, DonePlain
<1>4. CASE FailJob /\ thread' = Goto(t, Done(f))
  <2>1. CreatedOn /\ UNCHANGED <<planned, task>>
    BY <1>4 DEF FailJob, CreatedOn, RunsInv, StoreTypeOK, Job
  <2> QED BY <1>k, <1>1, <1>3, <1>4, <2>1, JobReviews
<1>5. CASE /\ \E n \in budget.plans : \E deps \in [1..n -> SUBSET (1..n)] : SubmitPlan(n, deps)
           /\ thread' = Goto(t, g)
  <2>0. PICK n \in budget.plans : \E deps \in [1..n -> SUBSET (1..n)] : SubmitPlan(n, deps)
    BY <1>5
  <2>1. PICK deps \in [1..n -> SUBSET (1..n)] : SubmitPlan(n, deps)
    BY <2>0
  <2>2. n \in Keys
    BY DEF RunsInv, Scenario
  <2>3. PlanKeys = {} /\ PlanKeys' = 1..n /\ 1..n \subseteq Keys
    BY <2>1, <2>2, StoreAssumption DEF SubmitPlan, PlanKeys, Keys
  <2>4. \A k \in PlanKeys' \ PlanKeys : Fresh(k)
    <3> TAKE k \in PlanKeys' \ PlanKeys
    <3>1. k \in 1..n /\ k <= n /\ k \in Keys
      BY <2>2, <2>3 DEF Keys
    <3>2. task'[k] = NewTask(deps[k])
      BY <2>1, <3>1 DEF SubmitPlan
    <3> QED BY <3>2 DEF Fresh, NewTask, NoTask
  <2>5. CreatedOn
    BY <2>1 DEF SubmitPlan, CreatedOn, RunsInv, StoreTypeOK, Job
  <2>6. HeadsOn /\ adopted \subseteq adopted'
    BY <1>1, GitSame
  <2>7. Follows(thread', {})
    BY <1>k, <1>3, <1>5, WentFollows DEF Kept
  <2>8. AskedOn({}) /\ RunMoves
    BY <1>1, <2>7, AskedSame, NobodyCalled
  <2>9. /\ \A k \in PlanKeys \ adopted' : Still(k)
        /\ \A k \in PlanKeys : task'[k].commit = task[k].commit /\ task'[k].history = task[k].history
        /\ PlanKeys \subseteq PlanKeys'
    BY <2>3
  <2> QED BY <1>k, <2>4, <2>5, <2>6, <2>7, <2>8, <2>9, QuietReviews
<1>6. CASE UNCHANGED storeVars /\ thread' = Goto(t, g)
  BY <1>k, <1>1, <1>3, <1>6, SpinReviews
<1> QED BY <1>2, <1>4, <1>5, <1>6

LEMMA BlockStill ==
  ASSUME RunsInv, NEW k \in PlanKeys, BlockTask(k)
  PROVE  /\ UNCHANGED planned /\ CreatedOn /\ Still(k)
         /\ \A j \in PlanKeys \ {k} : task'[j] = task[j]
         /\ task'[k].commit = task[k].commit /\ task'[k].history = task[k].history
<1>1. k \in Keys /\ task \in [Keys -> Task] /\ PlanKeys \subseteq Keys
  BY PlanKeysType DEF RunsInv, StoreTypeOK
<1>2. /\ task'[k] = IF task[k].status = "blocked" THEN task[k]
                    ELSE [task[k] EXCEPT !.status = "blocked", !.print = NoPrint]
      /\ \A j \in PlanKeys \ {k} : task'[j] = task[j]
      /\ UNCHANGED <<job, planned>>
  BY <1>1 DEF BlockTask
<1>3. task'[k].commit = task[k].commit /\ task'[k].history = task[k].history /\ task'[k].status = "blocked"
  BY <1>1, <1>2 DEF Task
<1> QED BY <1>2, <1>3 DEF CreatedOn, Still

LEMMA ApplyReviewReviews ==
  ASSUME RunsInv, ReviewInv, NEW t \in Busy, ApplyReview(t)
  PROVE  ReviewsKept
<1>k. Kept
  BY ApplyReviewKept
<1>f. PICK f : f = Top(t)
  OBVIOUS
<1>g. PICK g : g = Call("report", f.run)
  OBVIOUS
<1> DEFINE d == f.run
<1>1. /\ f \in Frame /\ Good(f) /\ Known(d) /\ d.role = "reviewer" /\ d.key \in PlanKeys
      /\ UNCHANGED <<record, remote, queue, gitVars, budget>>
  BY <1>f, TopFrame DEF ApplyReview, At, Top, Good, Known
<1>2. \/ BlockTask(d.key) /\ thread' = Goto(t, Done(f))
      \/ UNCHANGED storeVars /\ thread' = Goto(t, Done(f))
      \/ UNCHANGED storeVars /\ thread' = Goto(t, g)
  BY <1>f, <1>g DEF ApplyReview
<1>3. g.pc \in PlainPcs /\ Done(f).pc \in PlainPcs
  BY <1>g, DonePlain DEF Call, PlainPcs, Calls
<1>4. CASE BlockTask(d.key) /\ thread' = Goto(t, Done(f))
  BY <1>k, <1>1, <1>3, <1>4, BlockStill, GitSame, TaskReviews
<1>5. CASE UNCHANGED storeVars
  BY <1>k, <1>1, <1>2, <1>3, <1>5, SpinReviews
<1> QED BY <1>2, <1>4, <1>5

LEMMA BlockReviews ==
  ASSUME RunsInv, ReviewInv, NEW t \in Busy, Block(t)
  PROVE  ReviewsKept
<1>k. Kept
  BY BlockKept
<1>f. PICK f : f = Top(t)
  OBVIOUS
<1>1. f \in Frame /\ Good(f) /\ f.run.key \in PlanKeys /\ UNCHANGED gitVars
  BY <1>f, TopFrame DEF Block, At, Top, Good, Known
<1>2. /\ UNCHANGED <<record, remote, queue, budget>>
      /\ \/ BlockTask(f.run.key) /\ thread' = Goto(t, Done(f))
         \/ UNCHANGED storeVars /\ thread' = Return(t)
  BY <1>f, TryCases DEF Block
<1>3. CASE BlockTask(f.run.key) /\ thread' = Goto(t, Done(f))
  BY <1>k, <1>1, <1>2, <1>3, DonePlain, BlockStill, GitSame, TaskReviews
<1>4. CASE UNCHANGED storeVars /\ thread' = Return(t)
  BY <1>k, <1>1, <1>2, <1>4, SpinReviews
<1> QED BY <1>2, <1>3, <1>4

----------------------------------------------------------------------------
(* startReadyWriters and startWriter. *)

LEMMA WorktreeHeads ==
  ASSUME RunsInv, NEW k \in PlanKeys, tree' = Worktree(k)
  PROVE  HeadsOn
<1>1. k \in Keys /\ tree \in [Keys -> Tree] /\ PlanKeys \subseteq Keys
  BY PlanKeysType DEF RunsInv, GitKept
<1>2. \A j \in PlanKeys : tree'[j] = tree[j] \/ (tree[j].head = NoSHA /\ tree'[j].head = 1)
  BY <1>1 DEF Worktree, Tree
<1>3. \A j \in PlanKeys : tree[j].head \in Nat
  BY <1>1, CommitTypes
<1> QED BY <1>2, <1>3 DEF HeadsOn, NoSHA

LEMMA BaseReviews ==
  ASSUME RunsInv, ReviewInv, NEW t \in Busy, Base(t)
  PROVE  ReviewsKept
<1>k. Kept
  BY BaseKept
<1>f. PICK f : f = Top(t)
  OBVIOUS
<1> DEFINE k == f.item.key
<1>g. PICK g : g = [f EXCEPT !.pc = "writer", !.item = ItemOf(task', k)]
  OBVIOUS
<1>1. f \in Frame /\ Good(f) /\ k \in PlanKeys
  BY <1>f, TopFrame DEF Base, At, Top, Good, ToStart
<1>2. /\ UNCHANGED <<record, remote, queue, budget>> /\ tree' = Worktree(k)
      /\ \/ RecordTaskBase(k, Worktree(k)[k].head) /\ thread' = Goto(t, g)
         \/ UNCHANGED storeVars /\ thread' = Return(t)
  BY <1>f, <1>g, TryCases DEF Base
<1>3. HeadsOn /\ adopted \subseteq adopted'
  BY <1>1, <1>2, WorktreeHeads DEF Base, historyVars
<1>4. CASE RecordTaskBase(k, Worktree(k)[k].head) /\ thread' = Goto(t, g)
  <2>1. k \in Keys /\ task \in [Keys -> Task] /\ PlanKeys \subseteq Keys
    BY <1>1, PlanKeysType DEF RunsInv, StoreTypeOK
  <2>2. PICK sha : sha = Worktree(k)[k].head
    OBVIOUS
  <2>3. /\ task'[k] = [task[k] EXCEPT !.base = sha] /\ UNCHANGED <<job, planned>>
        /\ \A j \in PlanKeys \ {k} : task'[j] = task[j]
    BY <1>4, <2>1, <2>2 DEF RecordTaskBase
  <2>4. /\ task'[k].commit = task[k].commit /\ task'[k].history = task[k].history
        /\ task'[k].status = task[k].status /\ task'[k].reviewerRun = task[k].reviewerRun
        /\ task'[k].reviewerAttempts = task[k].reviewerAttempts
        /\ task'[k].writerAttempts = task[k].writerAttempts
        /\ task[k].status \in TaskStatuses \union {"none"}
    BY <2>1, <2>3 DEF Task
  <2>5. Still(k) /\ CreatedOn
    BY <2>3, <2>4 DEF Still, TaskStatuses, ToWork, Approved, CreatedOn
  <2>6. g.pc \in PlainPcs
    BY <1>1, <1>g DEF Frame, PlainPcs, Calls
  <2> QED BY <1>k, <1>1, <1>2, <1>3, <1>4, <2>3, <2>4, <2>5, <2>6, TaskReviews
<1>5. CASE UNCHANGED storeVars /\ thread' = Return(t)
  BY <1>k, <1>2, <1>3, <1>5, MovedReviews
<1> QED BY <1>2, <1>4, <1>5

LEMMA WorkReviews ==
  ASSUME RunsInv, ReviewInv, [EndBeforeWork]_storeVars, NEW t \in Busy, Work(t)
  PROVE  ReviewsKept
<1>k. Kept
  BY WorkKept
<1>f. PICK f : f = Top(t)
  OBVIOUS
<1> DEFINE k == f.item.key
           d == Writer(k, f.item.attempt)
<1>1. f \in Frame /\ Good(f) /\ k \in PlanKeys /\ UNCHANGED gitVars
  BY <1>f, TopFrame DEF Work, At, Top, Good, ToStart
<1>2. /\ UNCHANGED <<record, remote, queue, budget>>
      /\ \/ StartTaskWork(k, d) /\ thread' = Goto(t, Continue(f))
         \/ UNCHANGED storeVars /\ thread' = Return(t)
  BY <1>f, TryCases DEF Work
<1>3. Continue(f).pc \in PlainPcs
  <2>1. Loose(f)
    BY <1>1 DEF Frame, Loose
  <2> QED BY <2>1, ContinuePlain
<1>4. CASE UNCHANGED storeVars
  BY <1>k, <1>1, <1>2, <1>3, <1>4, SpinReviews
<1>5. CASE /\ task[k].status \in {"planned", "changes_requested", "blocked"}
           /\ task' = [task EXCEPT ![k] = Started(@, d)]
           /\ job' = [job EXCEPT !.status = "working"]
           /\ UNCHANGED <<ci, failures, planned>>
           /\ thread' = Goto(t, Continue(f))
  <2>1. k \in Keys /\ task \in [Keys -> Task] /\ PlanKeys \subseteq Keys
    BY <1>1, PlanKeysType DEF RunsInv, StoreTypeOK
  <2>2. /\ task'[k] = Started(task[k], d)
        /\ \A j \in PlanKeys \ {k} : task'[j] = task[j]
    BY <1>5, <2>1
  <2>3. /\ task'[k].commit = task[k].commit /\ task'[k].history = task[k].history
        /\ task'[k].status = "working"
    BY <2>1, <2>2 DEF Task, Started
  <2>4. EndBeforeWork
    BY <1>5, <2>3 DEF storeVars
  <2>5. k \in adopted' \/ Still(k)
    BY <1>1, <1>5, <2>3, <2>4 DEF EndBeforeWork, Still, ToWork, gitVars, historyVars
  <2>6. CreatedOn
    BY <1>5 DEF CreatedOn, RunsInv, StoreTypeOK, Job
  <2> QED BY <1>k, <1>1, <1>2, <1>3, <1>5, <2>2, <2>3, <2>5, <2>6, GitSame, TaskReviews
<1> QED BY <1>2, <1>4, <1>5 DEF StartTaskWork

LEMMA ReviewAsked ==
  ASSUME RunsInv, NEW t \in Busy, At(t, "review")
  PROVE  Requested(Reviewer(Top(t).item.key, Top(t).item.attempt))
<1>1. thread \in [Threads -> Seq(Frame)] /\ t \in Threads /\ thread[t] # <<>>
  BY StacksTyped DEF Busy
<1>2. 1 \in DOMAIN thread[t] /\ Top(t) = thread[t][1] /\ thread[t][1].pc = "review"
  BY <1>1 DEF At, Top
<1> QED BY <1>1, <1>2 DEF Requested, ReviewCalled

\* A handler starts a run, of a reviewer only if that has been decided before.
LEMMA StartReviews ==
  ASSUME RunsInv, ReviewInv, Kept, UNCHANGED <<planned, task>>, CreatedOn, HeadsOn,
         adopted \subseteq adopted',
         NEW t \in Busy, NEW d, NEW c \in Frame, c.pc \in PlainPcs, Start(t, d, Goto(t, c)),
         d.role = "reviewer" => Requested(d)
  PROVE  ReviewsKept
<1>1. PICK next : next = Goto(t, c)
  OBVIOUS
<1>2. Follows(next, {}) /\ \A i \in DOMAIN next[t] : next[t][i].pc # "complete"
  BY <1>1, GotoFollows DEF PlainPcs, ReviewInv
<1>3. t \in Threads /\ Start(t, d, next)
  BY <1>1 DEF Busy
<1>4. Follows(thread', {})
  BY <1>2, <1>3, StartFollows
<1>5. RunsAsked
  BY <1>3, StartAsked
<1> QED BY <1>4, <1>5, RunReviews

LEMMA StartWriterRunReviews ==
  ASSUME RunsInv, ReviewInv, NEW t \in Busy, StartWriterRun(t)
  PROVE  ReviewsKept
<1>k. Kept
  BY StartWriterRunKept
<1>f. PICK f : f = Top(t)
  OBVIOUS
<1>g. PICK g : g = [f EXCEPT !.pc = "work"]
  OBVIOUS
<1>1. f \in Frame /\ f.item.key \in PlanKeys
  BY <1>f, TopFrame DEF StartWriterRun, At, Top, Good, ToStart
<1>2. /\ tree' = Worktree(f.item.key) /\ Start(t, Writer(f.item.key, f.item.attempt), Goto(t, g))
      /\ UNCHANGED <<storeVars, historyVars>>
  BY <1>f, <1>g DEF StartWriterRun
<1>3. g \in Frame /\ g.pc \in PlainPcs
  BY <1>1, <1>g, PcFrame DEF PlainPcs, Calls
<1>4. HeadsOn /\ CreatedOn /\ adopted \subseteq adopted' /\ UNCHANGED <<planned, task>>
  BY <1>1, <1>2, WorktreeHeads DEF historyVars, storeVars, CreatedOn
<1>5. Writer(f.item.key, f.item.attempt).role # "reviewer"
  BY DEF Writer
<1> QED BY <1>k, <1>2, <1>3, <1>4, <1>5, StartReviews

LEMMA StartReviewerRunReviews ==
  ASSUME RunsInv, ReviewInv, NEW t \in Busy, StartReviewerRun(t)
  PROVE  ReviewsKept
<1>k. Kept
  BY StartReviewerRunKept
<1>f. PICK f : f = Top(t)
  OBVIOUS
<1>g. PICK g : g = [f EXCEPT !.pc = "own"]
  OBVIOUS
<1>d. PICK d : d = Reviewer(f.item.key, f.item.attempt)
  OBVIOUS
<1>1. f \in Frame
  BY <1>f, TopFrame
<1>2. Start(t, d, Goto(t, g)) /\ UNCHANGED <<storeVars, gitVars>> /\ At(t, "review")
  BY <1>f, <1>g, <1>d DEF StartReviewerRun
<1>3. g \in Frame /\ g.pc \in PlainPcs
  BY <1>1, <1>g, PcFrame DEF PlainPcs, Calls
<1>4. HeadsOn /\ CreatedOn /\ adopted \subseteq adopted' /\ UNCHANGED <<planned, task>>
  BY <1>2, GitSame DEF storeVars, CreatedOn
<1>5. Requested(d)
  BY <1>2, <1>f, <1>d, ReviewAsked
<1> QED BY <1>k, <1>2, <1>3, <1>4, <1>5, StartReviews

LEMMA NoChangesReviews ==
  ASSUME RunsInv, ReviewInv, NEW t \in Busy, NoChanges(t)
  PROVE  ReviewsKept
<1>k. Kept
  BY NoChangesKept
<1>f. PICK f : f = Top(t)
  OBVIOUS
<1>g. PICK g : g = [f EXCEPT !.pc = "integrate"]
  OBVIOUS
<1> DEFINE k == f.run.key
<1>1. f \in Frame /\ Good(f) /\ k \in PlanKeys /\ UNCHANGED gitVars
  BY <1>f, TopFrame DEF NoChanges, At, Top, Good, Known
<1>2. /\ UNCHANGED <<record, remote, queue, budget>>
      /\ \/ RecordNoChanges(k, f.run) /\ thread' = Goto(t, g)
         \/ UNCHANGED storeVars /\ thread' = Return(t)
  BY <1>f, <1>g, TryCases DEF NoChanges
<1>3. g.pc \in PlainPcs
  BY <1>1, <1>g, PcFrame DEF PlainPcs, Calls
<1>4. CASE UNCHANGED storeVars
  BY <1>k, <1>1, <1>2, <1>3, <1>4, SpinReviews
<1>5. CASE /\ task' = [task EXCEPT ![k].status = "no_changes"]
           /\ job' = IF ~AllTasksIntegrated(task') THEN job
                     ELSE [job EXCEPT !.status =
                             IF HasIntegratedTask(task') THEN "holistic_reviewing"
                             ELSE "no_changes"]
           /\ UNCHANGED <<ci, failures, planned>>
           /\ thread' = Goto(t, g)
  <2>1. k \in Keys /\ task \in [Keys -> Task] /\ PlanKeys \subseteq Keys
    BY <1>1, PlanKeysType DEF RunsInv, StoreTypeOK
  <2>2. /\ task'[k] = [task[k] EXCEPT !.status = "no_changes"]
        /\ \A j \in PlanKeys \ {k} : task'[j] = task[j]
    BY <1>5, <2>1
  <2>3. /\ task'[k].commit = task[k].commit /\ task'[k].history = task[k].history
        /\ task'[k].status = "no_changes"
    BY <2>1, <2>2 DEF Task
  <2>4. job' = job \/ job'.status \in {"holistic_reviewing", "no_changes"}
    BY <1>5 DEF RunsInv, StoreTypeOK, Job
  <2>5. Still(k) /\ CreatedOn
    BY <1>5, <2>3, <2>4 DEF Still, CreatedOn
  <2> QED BY <1>k, <1>1, <1>2, <1>3, <1>5, <2>2, <2>3, <2>5, GitSame, TaskReviews
<1> QED BY <1>2, <1>4, <1>5 DEF RecordNoChanges

LEMMA IntegrateReviews ==
  ASSUME RunsInv, ReviewInv, NEW t \in Busy, Integrate(t)
  PROVE  ReviewsKept
<1>k. Kept
  BY IntegrateKept
<1>f. PICK f : f = Top(t)
  OBVIOUS
<1>1. /\ f \in Frame /\ thread' = Goto(t, Pick(f, task, job))
      /\ UNCHANGED <<storeVars, record, remote, queue, gitVars>>
  BY <1>f, TopFrame DEF Integrate
<1>2. Pick(f, task, job).pc \in PlainPcs
  BY <1>1, PickPlain
<1> QED BY <1>k, <1>1, <1>2, SpinReviews

LEMMA BeginReviews ==
  ASSUME RunsInv, ReviewInv, NEW t \in Busy, Begin(t)
  PROVE  ReviewsKept
<1>k. Kept
  BY BeginKept
<1>f. PICK f : f = Top(t)
  OBVIOUS
<1>g. PICK g : g = [f EXCEPT !.pc = "merge"]
  OBVIOUS
<1> DEFINE k == f.item.key
<1>1. f \in Frame /\ Good(f) /\ k \in PlanKeys /\ UNCHANGED gitVars
  BY <1>f, TopFrame DEF Begin, At, Top, Good
<1>2. /\ UNCHANGED <<record, remote, queue, budget>>
      /\ \/ StartIntegration(k) /\ thread' = Goto(t, g)
         \/ UNCHANGED storeVars /\ thread' = Return(t)
  BY <1>f, <1>g, TryCases DEF Begin
<1>3. g \in Frame /\ g.pc = "merge" /\ g.item = f.item
  BY <1>1, <1>g, PcFrame DEF Frame, Calls
<1>4. CASE UNCHANGED storeVars /\ thread' = Return(t)
  BY <1>k, <1>1, <1>2, <1>4, SpinReviews
<1>5. CASE StartIntegration(k) /\ thread' = Goto(t, g)
  <2>1. k \in Keys /\ task \in [Keys -> Task] /\ PlanKeys \subseteq Keys
    BY <1>1, PlanKeysType DEF RunsInv, StoreTypeOK
  <2>2. /\ task'[k] = [task[k] EXCEPT !.status = "integrating"]
        /\ \A j \in PlanKeys \ {k} : task'[j] = task[j]
        /\ task[k].status = "integration_eligible"
    BY <1>5, <2>1 DEF StartIntegration
  <2>3. /\ task'[k].commit = task[k].commit /\ task'[k].history = task[k].history
        /\ task'[k].status = "integrating" /\ task'[k].reviewerRun = task[k].reviewerRun
    BY <2>1, <2>2 DEF Task
  <2>4. CreatedOn /\ UNCHANGED planned
    BY <1>5 DEF StartIntegration, CreatedOn, RunsInv, StoreTypeOK, Job
  <2>5. Still(k)
    BY <2>2, <2>3 DEF Still, Approved
  <2>6. \A j \in PlanKeys : Still(j) /\ task'[j].commit = task[j].commit /\ task'[j].history = task[j].history
    BY <2>2, <2>3, <2>5, SameStill
  <2>7. Mergeable(g)
    BY <1>1, <1>2, <1>3, <2>2 DEF Mergeable
  <2>8. Follows(thread', {g})
    BY <1>3, <1>5, GotoFollows DEF ReviewInv
  <2>9. CalledBy({g}) = {}
    BY <1>3 DEF CalledBy
  <2>10. AskedOn({}) /\ RunMoves
    BY <1>2, <2>8, <2>9, AskedSame
  <2>11. PlanKeys' = PlanKeys /\ HeadsOn /\ adopted \subseteq adopted'
    BY <1>1, <2>4, GitSame DEF PlanKeys
  <2> QED BY <1>k, <1>3, <2>4, <2>6, <2>7, <2>8, <2>10, <2>11, SteadyReviews
<1> QED BY <1>2, <1>4, <1>5

LEMMA MergeReviews ==
  ASSUME RunsInv, ReviewInv, NEW t \in Busy, Merge(t)
  PROVE  ReviewsKept
<1>k. Kept
  BY MergeKept
<1>f. PICK f : f = Top(t)
  OBVIOUS
<1>g. PICK g : g = [f EXCEPT !.pc = "merged", !.sha = MergeCommit(f.item.key)]
  OBVIOUS
<1>1. /\ f \in Frame /\ thread' = Goto(t, g)
      /\ UNCHANGED <<storeVars, record, remote, queue, tree, adopted>>
  BY <1>f, <1>g, TopFrame DEF Merge
<1>2. g.pc \in PlainPcs
  BY <1>1, <1>g DEF Frame, PlainPcs, Calls
<1> QED BY <1>k, <1>1, <1>2, HeadsSame, MovedReviews

LEMMA IntegratedReviews ==
  ASSUME RunsInv, ReviewInv, NEW t \in Busy, Integrated(t)
  PROVE  ReviewsKept
<1>k. Kept
  BY IntegratedKept
<1>f. PICK f : f = Top(t)
  OBVIOUS
<1>g. PICK g : g = Pick(f, task', job')
  OBVIOUS
<1> DEFINE k == f.item.key
<1>1. f \in Frame /\ Good(f) /\ k \in PlanKeys /\ UNCHANGED gitVars
  BY <1>f, TopFrame DEF Integrated, At, Top, Good
<1>2. /\ UNCHANGED <<record, remote, queue, budget>>
      /\ \/ RecordIntegration(k, f.sha) /\ thread' = Goto(t, g)
         \/ UNCHANGED storeVars /\ thread' = Return(t)
  BY <1>f, <1>g, TryCases DEF Integrated
<1>3. g.pc \in PlainPcs
  BY <1>1, <1>g, PickPlain
<1>4. CASE UNCHANGED storeVars
  BY <1>k, <1>1, <1>2, <1>3, <1>4, SpinReviews
<1>5. CASE RecordIntegration(k, f.sha) /\ thread' = Goto(t, g)
  <2>1. k \in Keys /\ task \in [Keys -> Task] /\ PlanKeys \subseteq Keys
    BY <1>1, PlanKeysType DEF RunsInv, StoreTypeOK
  <2>m. PICK done : done = [task EXCEPT ![k].status = "integrated"]
    OBVIOUS
  <2>2. \A j \in PlanKeys : \/ task'[j] = done[j]
                            \/ /\ done[j].status = "approved"
                               /\ task'[j] = [done[j] EXCEPT !.status = "integration_eligible"]
    BY <1>5, <2>1, <2>m DEF RecordIntegration
  <2>3. task[k].status = "integrating" /\ UNCHANGED planned
    BY <1>5 DEF RecordIntegration
  <2>4. CreatedOn
    <3>1. job'.status \in {"holistic_reviewing", job.status}
      BY <1>5 DEF RecordIntegration, RunsInv, StoreTypeOK, Job
    <3> QED BY <2>3, <3>1 DEF CreatedOn
  <2>5. ASSUME NEW j \in PlanKeys
        PROVE  /\ task'[j].commit = task[j].commit /\ task'[j].history = task[j].history
               /\ Still(j)
    <3>1. task[j] \in Task /\ done[j] = IF j = k THEN [task[j] EXCEPT !.status = "integrated"] ELSE task[j]
      BY <2>1, <2>m
    <3>2. CASE task'[j] = task[j]
      BY <3>2, SameStill
    <3>3. CASE j = k /\ task'[j] = [task[j] EXCEPT !.status = "integrated"]
      <4>1. /\ task'[j].commit = task[j].commit /\ task'[j].history = task[j].history
            /\ task'[j].status = "integrated" /\ task'[j].reviewerRun = task[j].reviewerRun
        BY <3>1, <3>3 DEF Task
      <4> QED BY <2>3, <3>3, <4>1 DEF Still, Approved
    <3>4. CASE /\ j # k /\ task[j].status = "approved"
               /\ task'[j] = [task[j] EXCEPT !.status = "integration_eligible"]
      <4>1. /\ task'[j].commit = task[j].commit /\ task'[j].history = task[j].history
            /\ task'[j].status = "integration_eligible" /\ task'[j].reviewerRun = task[j].reviewerRun
        BY <3>1, <3>4 DEF Task
      <4> QED BY <3>4, <4>1 DEF Still, Approved
    <3>5. done[j].status = "approved" => j # k
      BY <3>1 DEF Task
    <3> QED BY <2>2, <3>1, <3>2, <3>3, <3>4, <3>5
  <2>6. HeadsOn /\ adopted \subseteq adopted'
    BY <1>1, GitSame
  <2> QED BY <1>k, <1>2, <1>3, <1>5, <2>3, <2>4, <2>5, <2>6, TasksReviews
<1> QED BY <1>2, <1>4, <1>5

LEMMA DraftReviews ==
  ASSUME RunsInv, ReviewInv, NEW t \in Busy, Draft(t)
  PROVE  ReviewsKept
<1>k. Kept
  BY DraftKept
<1>f. PICK f : f = Top(t)
  OBVIOUS
<1>g. PICK g : g = [f EXCEPT !.pc = "ci", !.sha = job'.integrationSHA]
  OBVIOUS
<1>1. f \in Frame /\ UNCHANGED gitVars
  BY <1>f, TopFrame DEF Draft
<1>2. /\ UNCHANGED <<record, remote, queue, budget>>
      /\ \/ RecordPullRequest /\ thread' = Goto(t, g)
         \/ UNCHANGED storeVars /\ thread' = Return(t)
  BY <1>f, <1>g, TryCases DEF Draft
<1>3. g.pc \in PlainPcs
  BY <1>1, <1>g DEF Frame, PlainPcs, Calls
<1>4. CASE UNCHANGED storeVars
  BY <1>k, <1>1, <1>2, <1>3, <1>4, SpinReviews
<1>5. CASE RecordPullRequest /\ thread' = Goto(t, g)
  <2>1. CreatedOn /\ UNCHANGED <<planned, task>>
    BY <1>5 DEF RecordPullRequest, CreatedOn, RunsInv, StoreTypeOK, Job, storeVars
  <2> QED BY <1>k, <1>1, <1>2, <1>3, <1>5, <2>1, JobReviews
<1> QED BY <1>2, <1>4, <1>5

LEMMA AwaitCIReviews ==
  ASSUME RunsInv, ReviewInv, NEW t \in Busy, AwaitCI(t)
  PROVE  ReviewsKept
<1>k. Kept
  BY AwaitCIKept
<1>f. PICK f : f = Top(t)
  OBVIOUS
<1>1. f \in Frame /\ UNCHANGED gitVars
  BY <1>f, TopFrame DEF AwaitCI
<1>2. /\ UNCHANGED <<record, remote, queue, budget>>
      /\ \/ StartCI(f.sha) /\ thread' = Goto(t, Done(f))
         \/ UNCHANGED storeVars /\ thread' = Return(t)
  BY <1>f, TryCases DEF AwaitCI
<1>3. Done(f).pc \in PlainPcs
  BY DonePlain
<1>4. CASE UNCHANGED storeVars
  BY <1>k, <1>1, <1>2, <1>3, <1>4, SpinReviews
<1>5. CASE StartCI(f.sha) /\ thread' = Goto(t, Done(f))
  <2>1. CreatedOn /\ UNCHANGED <<planned, task>>
    BY <1>5 DEF StartCI, CreatedOn, RunsInv, StoreTypeOK, Job, storeVars
  <2> QED BY <1>k, <1>1, <1>2, <1>3, <1>5, <2>1, JobReviews
<1> QED BY <1>2, <1>4, <1>5

LEMMA ResetReviews ==
  ASSUME RunsInv, ReviewInv, NEW t \in Busy, Reset(t)
  PROVE  ReviewsKept
<1>k. Kept
  BY ResetKept
<1>f. PICK f : f = Top(t)
  OBVIOUS
<1> DEFINE k == f.item.key
<1>todo. PICK todo : todo = {ItemOf(task', k)}
  OBVIOUS
<1>g. PICK g : g = Continue([f EXCEPT !.todo = todo])
  OBVIOUS
<1>1. f \in Frame /\ Good(f) /\ k \in PlanKeys /\ UNCHANGED gitVars
  BY <1>f, TopFrame DEF Reset, At, Top, Good
<1>2. /\ UNCHANGED <<record, remote, queue, budget>>
      /\ \/ RetryWriter(k, f.run) /\ thread' = Goto(t, g)
         \/ UNCHANGED storeVars /\ thread' = Return(t)
  BY <1>f, <1>todo, <1>g, TryCases DEF Reset
<1>3. g.pc \in PlainPcs
  BY <1>1, <1>g, FrameLoose, ContinuePlain
<1>4. CASE UNCHANGED storeVars
  BY <1>k, <1>1, <1>2, <1>3, <1>4, SpinReviews
<1>5. CASE RetryWriter(k, f.run) /\ thread' = Goto(t, g)
  <2>1. k \in Keys /\ task \in [Keys -> Task] /\ PlanKeys \subseteq Keys
    BY <1>1, PlanKeysType DEF RunsInv, StoreTypeOK
  <2>2. /\ task'[k] = [task[k] EXCEPT !.writerRun = NoRun, !.status = "planned"]
        /\ \A j \in PlanKeys \ {k} : task'[j] = task[j]
        /\ task[k].status = "working"
    BY <1>5, <2>1 DEF RetryWriter
  <2>3. /\ task'[k].commit = task[k].commit /\ task'[k].history = task[k].history
        /\ task'[k].status = "planned"
    BY <2>1, <2>2 DEF Task
  <2>4. CreatedOn /\ UNCHANGED planned
    BY <1>5 DEF RetryWriter, CreatedOn, RunsInv, StoreTypeOK, Job
  <2>5. Still(k)
    BY <2>2, <2>3 DEF Still, ToWork
  <2> QED BY <1>k, <1>1, <1>2, <1>3, <1>5, <2>2, <2>3, <2>4, <2>5, GitSame, TaskReviews
<1> QED BY <1>2, <1>4, <1>5

----------------------------------------------------------------------------
(* start_planning, failing calls, crashes, agents. *)

LEMMA StartPlanReviews ==
  ASSUME RunsInv, ReviewInv, Plan
  PROVE  ReviewsKept
<1>k. Kept
  BY PlanKept
<1>1. StartPlanning /\ Start(Operator, Planner, thread) /\ UNCHANGED gitVars
  BY DEF Plan
<1>2. UNCHANGED <<planned, task>> /\ CreatedOn
  BY <1>1 DEF StartPlanning, CreatedOn, RunsInv, StoreTypeOK, Job
<1>3. \A i \in DOMAIN thread[Operator] : thread[Operator][i].pc # "complete"
  <2>1. PlanKeys = {}
    BY <1>1 DEF StartPlanning, ReviewInv, PlanKeys
  <2>2. thread[Operator] \in Seq(Frames)
    BY DEF RunsInv, Threads
  <2>3. \A i \in DOMAIN thread[Operator] : thread[Operator][i] \in Frames
    BY <2>2
  <2> QED BY <2>1, <2>3 DEF Frames, Good, Known
<1>4. Follows(thread', {})
  <2>1. Follows(thread, {}) /\ Operator \in Threads
    BY SameFollows DEF ReviewInv, Threads
  <2> QED BY <1>1, <1>3, <2>1, StartFollows
<1>5. RunsAsked
  BY <1>1, StartAsked DEF Planner
<1> QED BY <1>k, <1>1, <1>2, <1>4, <1>5, GitSame, RunReviews

LEMMA FaultReviews ==
  ASSUME RunsInv, ReviewInv, NEW t \in Busy, Fault(t)
  PROVE  ReviewsKept
<1>k. Kept
  BY FaultKept
<1>1. UNCHANGED <<storeVars, gitVars>> /\ thread' = Return(t)
  BY DEF Fault, LaunchFails
<1>2. RunsAsked
  <2>1. CASE LaunchFails(Writer(Top(t).item.key, Top(t).item.attempt), Return(t))
    BY <2>1, LaunchFailsAsked DEF Writer
  <2>2. CASE /\ At(t, "review")
             /\ LaunchFails(Reviewer(Top(t).item.key, Top(t).item.attempt), Return(t))
    BY <2>2, ReviewAsked, LaunchFailsAsked
  <2>3. CASE UNCHANGED <<record, remote, queue>>
    BY <2>3, RunsSame
  <2> QED BY <2>1, <2>2, <2>3 DEF Fault
<1>3. Follows(thread', {})
  BY <1>1, ReturnFollows DEF ReviewInv
<1>4. CreatedOn /\ UNCHANGED <<planned, task>>
  BY <1>1 DEF CreatedOn, storeVars
<1> QED BY <1>k, <1>1, <1>2, <1>3, <1>4, GitSame, RunReviews

LEMMA StartupFaultReviews ==
  ASSUME RunsInv, ReviewInv, StartupFault
  PROVE  ReviewsKept
<1>k. Kept
  BY StartupFaultKept
<1>1. UNCHANGED <<storeVars, gitVars, record, thread>> /\ queue' \subseteq queue
  BY DEF StartupFault, ReconcileFails
<1>2. PICK e \in queue : /\ e.status = "starting"
                         /\ \/ UNCHANGED remote
                            \/ /\ remote[e.run].status = "absent"
                               /\ remote' = [remote EXCEPT ![e.run].status = "running"]
  BY DEF StartupFault, ReconcileFails
<1>3. remote \in [Runs -> Remote] /\ e.run \in Runs
  BY DEF RunsInv, RunsKept, Known
<1>4. \A c \in Runs \ {e.run} : remote'[c] = remote[c]
  BY <1>2, <1>3
<1>5. Requested(e.run)
  BY <1>2 DEF Requested
<1>6. RunMove(e.run)
  <2>1. \/ remote' = remote
        \/ /\ remote[e.run].status = "absent"
           /\ remote' = [remote EXCEPT ![e.run] = [@ EXCEPT !.status = "running"]]
    BY <1>2
  <2> QED BY <1>3, <2>1 DEF RunMove, Remote
<1>7. RunsAsked
  <2>1. \A c \in Runs : RunMove(c)
    BY <1>4, <1>6 DEF RunMove
  <2>2. ASSUME NEW c \in Runs, c.role = "reviewer"
        PROVE  /\ remote'[c].status # "absent" => Requested(c)
               /\ record'[c] = "starting" => Requested(c)
               /\ (\E q \in queue' : q.run = c /\ q.status = "starting") => Requested(c)
    BY <1>1, <1>4, <1>5 DEF Requested
  <2> QED BY <2>1, <2>2 DEF RunsAsked, RunMoves
<1>8. Follows(thread', {})
  BY <1>1, SameFollows DEF ReviewInv
<1>9. CreatedOn /\ UNCHANGED <<planned, task>>
  BY <1>1 DEF CreatedOn, storeVars
<1> QED BY <1>k, <1>1, <1>7, <1>8, <1>9, GitSame, RunReviews

LEMMA RestartReviews ==
  ASSUME RunsInv, ReviewInv, Restart
  PROVE  ReviewsKept
<1>k. Kept
  BY RestartKept
<1>1. /\ UNCHANGED <<storeVars, gitVars, record, remote>>
      /\ thread' = [t \in Threads |-> <<>>]
      /\ queue' = {[run |-> d, status |-> record[d]] : d \in Unapplied}
  BY DEF Restart, Crash
<1>2. RunsAsked
  <2>1. \A c : (\E e \in queue' : e.run = c /\ e.status = "starting") => record[c] = "starting"
    BY <1>1
  <2> QED BY <1>1, <2>1 DEF RunsAsked, RunMoves, RunMove, Requested
<1>3. Follows(thread', {})
  <2>1. <<>> \in Seq(Frame) /\ DOMAIN <<>> = {}
    OBVIOUS
  <2>2. \A u \in Threads : thread'[u] = <<>>
    BY <1>1
  <2>3. DOMAIN thread' = Threads
    BY <1>1
  <2> QED BY <2>1, <2>2, <2>3 DEF Follows, StackFollows
<1>4. CreatedOn /\ UNCHANGED <<planned, task>>
  BY <1>1 DEF CreatedOn, storeVars
<1> QED BY <1>k, <1>1, <1>2, <1>3, <1>4, GitSame, RunReviews

LEMMA ResumeReviews ==
  ASSUME RunsInv, ReviewInv, Resume
  PROVE  ReviewsKept
<1>k. Kept
  BY ResumeKept
<1>1. UNCHANGED <<storeVars, gitVars>> /\ thread[Startup] = <<>>
  BY DEF Resume, Reconcile
<1>2. PICK e \in queue : Visit(e)
  BY DEF Resume, Reconcile
<1>3. e.run \in Runs /\ queue' \subseteq queue
  BY <1>2 DEF RunsInv, RunsKept, Known, Visit
<1>4. Follows(thread, {}) /\ Startup \in Threads /\ thread \in [Threads -> Seq(Frame)]
  BY SameFollows, StacksTyped DEF ReviewInv, Threads
<1>5. CASE e.status = "starting" /\ Launch(Startup, e.run, thread)
  <2>1. Requested(e.run)
    BY <1>5 DEF Requested
  <2>2. RunsAsked
    BY <1>3, <1>5, <2>1, LaunchAsked
  <2>3. \A i \in DOMAIN thread[Startup] : thread[Startup][i].pc # "complete"
    BY <1>1
  <2>4. Follows(thread', {})
    BY <1>3, <1>4, <1>5, <2>3, LaunchFollows
  <2>5. CreatedOn /\ UNCHANGED <<planned, task>>
    BY <1>1 DEF CreatedOn, storeVars
  <2> QED BY <1>k, <1>1, <2>2, <2>4, <2>5, GitSame, RunReviews
<1>6. CASE /\ UNCHANGED <<record, remote>>
           /\ \/ thread' = Watch(thread, e.run)
              \/ thread' = [thread EXCEPT ![Startup] = <<Call("apply", e.run)>>]
  <2>1. RunsAsked
    BY <1>3, <1>6 DEF RunsAsked, RunMoves, RunMove, Requested
  <2>2. CASE thread' = Watch(thread, e.run)
    <3>1. Follows(thread', {})
      BY <1>3, <1>4, <2>2, WatchFollows
    <3>2. CreatedOn /\ UNCHANGED <<planned, task>>
      BY <1>1 DEF CreatedOn, storeVars
    <3> QED BY <1>k, <1>1, <2>1, <3>1, <3>2, GitSame, RunReviews
  <2>3. CASE thread' = [thread EXCEPT ![Startup] = <<Call("apply", e.run)>>]
    <3>c. PICK c : c = Call("apply", e.run)
      OBVIOUS
    <3>1. c \in Frame /\ c.pc = "apply"
      BY <1>3, <3>c, PlainCall
    <3>2. /\ \A u \in Threads : thread'[u] = thread[u] \/ thread'[u] = <<c>>
          /\ DOMAIN thread' = Threads
      BY <1>4, <2>3, <3>c
    <3>3. \A u \in Threads : StackFollows(<<c>>, thread[u], {})
      BY <3>1 DEF StackFollows
    <3>4. Follows(thread', {})
      BY <1>4, <3>2, <3>3 DEF Follows
    <3>5. CreatedOn /\ UNCHANGED <<planned, task>>
      BY <1>1 DEF CreatedOn, storeVars
    <3> QED BY <1>k, <1>1, <2>1, <3>4, <3>5, GitSame, RunReviews
  <2> QED BY <1>6, <2>2, <2>3
<1> QED BY <1>2, <1>5, <1>6 DEF Visit

LEMMA AgentActsReviews ==
  ASSUME RunsInv, ReviewInv, NEW d \in Runs, AgentActs(d)
  PROVE  ReviewsKept
<1>k. Kept
  BY AgentActsKept
<1>1. UNCHANGED <<storeVars, record, thread, queue, adopted>>
  BY DEF AgentActs, historyVars
<1>2. remote \in [Runs -> Remote] /\ d.key \in Keys /\ tree \in [Keys -> Tree] /\ PlanKeys \subseteq Keys
  <2>1. d.key \in Keys
    BY RunTypes DEF AgentActs
  <2> QED BY <2>1, PlanKeysType DEF RunsInv, RunsKept, GitKept
<1>3. /\ remote[d].status = "running"
      /\ \E saw : /\ d.role = "reviewer" => saw = task[d.key].commit
                  /\ remote' = [remote EXCEPT ![d] = [@ EXCEPT !.status = "acted", !.saw = saw]]
  BY DEF AgentActs, Acts
<1>4. RunMove(d) \/ d.role # "reviewer"
  BY <1>2, <1>3 DEF RunMove, Remote
<1>5. \A c \in Runs \ {d} : remote'[c] = remote[c]
  BY <1>2, <1>3
<1>6. RunsAsked
  <2>1. RunMoves
    BY <1>4, <1>5 DEF RunMoves, RunMove
  <2>2. ASSUME NEW c \in Runs, c.role = "reviewer"
        PROVE  /\ remote'[c].status # "absent" => Requested(c)
               /\ record'[c] = "starting" => Requested(c)
               /\ (\E e \in queue' : e.run = c /\ e.status = "starting") => Requested(c)
    BY <1>1, <1>3, <1>5 DEF Requested
  <2> QED BY <2>1, <2>2 DEF RunsAsked
<1>7. HeadsOn
  <2>1. tree' = tree \/ tree' = [tree EXCEPT ![d.key] = [@ EXCEPT !.dirty = TRUE]]
    BY DEF AgentActs
  <2>2. \A k \in PlanKeys : tree'[k].head = tree[k].head /\ tree[k].head \in Nat
    BY <1>2, <2>1, CommitTypes DEF Tree
  <2> QED BY <2>2 DEF HeadsOn
<1>8. Follows(thread', {})
  BY <1>1, SameFollows DEF ReviewInv
<1>9. CreatedOn /\ UNCHANGED <<planned, task>>
  BY <1>1 DEF CreatedOn, storeVars
<1> QED BY <1>k, <1>1, <1>6, <1>7, <1>8, <1>9, RunReviews

LEMMA AgentEndsReviews ==
  ASSUME RunsInv, ReviewInv, NEW d \in Runs, AgentEnds(d)
  PROVE  ReviewsKept
<1>k. Kept
  BY AgentEndsKept
<1>1. UNCHANGED <<storeVars, record, thread, queue, gitVars>>
  BY DEF AgentEnds, Ends
<1>2. remote \in [Runs -> Remote]
  BY DEF RunsInv, RunsKept
<1>a. \E says, feedback :
        /\ d.role = "reviewer" /\ says \in Verdicts => remote[d].status = "acted"
        /\ Ends(d, says, feedback)
  <2>1. CASE d = Planner /\ Ends(d, "plan", "none")
    BY <2>1 DEF Planner
  <2>2. CASE d.role = "writer" /\ \E says : Ends(d, says, "none")
    BY <2>2
  <2>3. CASE remote[d].status = "acted" /\ \E says, feedback : Ends(d, says, feedback)
    BY <2>3
  <2>4. CASE Ends(d, "failed", "none")
    BY <2>4 DEF Verdicts
  <2> QED BY <2>1, <2>2, <2>3, <2>4 DEF AgentEnds
<1>b. PICK says, feedback :
        /\ d.role = "reviewer" /\ says \in Verdicts => remote[d].status = "acted"
        /\ Ends(d, says, feedback)
  BY <1>a
<1>3. /\ remote[d].status \in {"running", "acted"}
      /\ remote' = [remote EXCEPT ![d] = [@ EXCEPT !.status = "ended", !.says = says,
                                                   !.feedback = feedback]]
  BY <1>b DEF Ends
<1>4. RunMove(d) \/ d.role # "reviewer"
  <2>1. /\ remote'[d].status = "ended" /\ remote'[d].says = says
        /\ remote'[d].saw = remote[d].saw
    BY <1>2, <1>3 DEF Remote
  <2> QED BY <1>b, <1>3, <2>1 DEF RunMove
<1>5. \A c \in Runs \ {d} : remote'[c] = remote[c]
  BY <1>2, <1>3
<1>6. RunsAsked
  <2>1. RunMoves
    BY <1>4, <1>5 DEF RunMoves, RunMove
  <2>2. ASSUME NEW c \in Runs, c.role = "reviewer"
        PROVE  /\ remote'[c].status # "absent" => Requested(c)
               /\ record'[c] = "starting" => Requested(c)
               /\ (\E e \in queue' : e.run = c /\ e.status = "starting") => Requested(c)
    BY <1>1, <1>3, <1>5 DEF Requested
  <2> QED BY <2>1, <2>2 DEF RunsAsked
<1>8. Follows(thread', {})
  BY <1>1, SameFollows DEF ReviewInv
<1>9. CreatedOn /\ UNCHANGED <<planned, task>>
  BY <1>1 DEF CreatedOn, storeVars
<1> QED BY <1>k, <1>1, <1>6, <1>8, <1>9, GitSame, RunReviews

----------------------------------------------------------------------------
(* Steps that the reviews of one task take part in. *)

LEMMA OneReview ==
  ASSUME RunsInv, ReviewInv, Kept, UNCHANGED <<planned, record, remote, queue, tree>>, CreatedOn,
         adopted \subseteq adopted', NEW extra, Follows(thread', extra),
         NEW k \in PlanKeys, \A j \in PlanKeys \ {k} : task'[j] = task[j],
         task[k].commit # NoSHA => task'[k].commit # NoSHA,
         \A d \in CalledBy(extra) :
            d.key = k /\ (k \notin adopted => task'[k].commit # NoSHA),
         \A c \in Commits(k)' :
            \/ c \in Commits(k)
            \/ /\ c <= tree'[k].head
               /\ \A u \in Threads : At(u, "complete")' /\ Top(u)'.run.key = k => Top(u)'.sha # c,
         k \notin adopted' => ReviewsTrue(k)',
         k \notin adopted' => \A f \in Frames : f.run.key = k /\ Refusable(f) => Refusable(f)',
         \A f \in extra : Refusable(f)' /\ f.pc # "merge"
  PROVE  ReviewsKept
<1>1. RunsInv' /\ RunsOn
  BY DEF Kept
<1>2. AskedOn(CalledBy(extra)) /\ RunMoves
  BY AskedSame
<1>3. PlanKeys' = PlanKeys /\ HeadsOn
  BY HeadsSame DEF PlanKeys
<1>4. \A j \in PlanKeys \ {k} : Still(j) /\ Commits(j)' = Commits(j)
  BY SameStill DEF Commits
<1>5. CommitsKept'
  <2>1. \A j \in PlanKeys : \A c \in Commits(j)' :
            \/ c \in Commits(j)
            \/ /\ c <= tree'[j].head
               /\ \A u \in Threads : At(u, "complete")' /\ Top(u)'.run.key = j => Top(u)'.sha # c
    BY <1>4
  <2> QED BY <1>1, <1>3, <2>1, CommitsStep DEF ReviewInv
<1>6. \A d \in Runs : d.role = "reviewer" /\ d.key \notin adopted' => HasRead(d)'
  <2>1. \A j \in PlanKeys : task[j].commit # NoSHA => task'[j].commit # NoSHA
    OBVIOUS
  <2>2. \A d \in CalledBy(extra) : d.key \notin adopted => task'[d.key].commit # NoSHA
    OBVIOUS
  <2> QED BY <1>2, <2>1, <2>2, HasReadStep DEF ReviewInv
<1>7. ASSUME NEW j \in PlanKeys' \ adopted' PROVE ReviewsTrue(j)'
  <2>1. CASE j = k
    BY <1>7, <2>1
  <2>2. CASE j # k
    <3>1. j \in PlanKeys /\ ReviewsTrue(j) /\ Still(j)
      BY <1>3, <1>4, <1>7, <2>2 DEF ReviewInv
    <3>2. \A d \in CalledBy(extra) : d.key # j
      BY <2>2
    <3> QED BY <1>1, <1>2, <3>1, <3>2, ReviewsStep
  <2> QED BY <2>1, <2>2
<1>8. VerdictsRefusable'
  <2>1. CallsFollow(thread', extra)
    BY DEF Follows, StackFollows, CallsFollow
  <2>2. \A j \in PlanKeys \ adopted' :
          Still(j) \/ \A f \in Frames : f.run.key = j /\ Refusable(f) => Refusable(f)'
    BY <1>4
  <2> QED BY <2>1, <2>2, RefusableStep DEF ReviewInv
<1>9. MergesOn
  BY MergesFollow
<1> QED BY <1>5, <1>6, <1>7, <1>8, <1>9 DEF ReviewInv, CreatedOn, ReviewsKept

\* What is settled about a task stays so if only reports are added.
ReportsGrow(k) ==
    /\ task'[k].commit = task[k].commit
    /\ \A i \in DOMAIN task[k].history :
          i \in DOMAIN task'[k].history /\ task'[k].history[i] = task[k].history[i]

LEMMA SettledStay ==
  ASSUME RunsInv, NEW k \in PlanKeys, ReportsGrow(k), UNCHANGED remote, NEW d \in ReviewersOf(k)
  PROVE  /\ Filed(d) => Filed(d)'
         /\ Outdated(d) => Outdated(d)'
         /\ Failed(d)' <=> Failed(d)
<1>1. d.key = k
  BY DEF ReviewersOf
<1> QED BY <1>1 DEF ReportsGrow, Filed, Outdated, Failed

LEMMA ReviewCalls ==
  ASSUME NEW g, g.pc = "review"
  PROVE  CalledBy({g}) = {Reviewer(g.item.key, g.item.attempt)}
BY DEF CalledBy

LEMMA ApplyWriterReviews ==
  ASSUME RunsInv, ReviewInv, NEW t \in Busy, ApplyWriter(t)
  PROVE  ReviewsKept
<1>k. Kept
  BY ApplyWriterKept
<1>f. PICK f : f = Top(t)
  OBVIOUS
<1> DEFINE d == f.run
           k == d.key
<1>g. PICK g : g = ReviewNext(f, task[k])
  OBVIOUS
<1>h. PICK h : h = [f EXCEPT !.pc = "tree"]
  OBVIOUS
<1>1. /\ f \in Frame /\ Good(f) /\ Known(d) /\ k \in PlanKeys
      /\ UNCHANGED <<record, remote, queue, gitVars, budget>>
  BY <1>f, TopFrame DEF ApplyWriter, At, Top, Good, Known
<1>2. \/ BlockTask(k) /\ thread' = Goto(t, Done(f))
      \/ UNCHANGED storeVars /\ thread' = Return(t)
      \/ /\ task[k].status = "reviewing" /\ task[k].reviewerRun = NoRun
         /\ UNCHANGED storeVars /\ thread' = Goto(t, g)
      \/ UNCHANGED storeVars /\ thread' = Goto(t, h)
      \/ UNCHANGED storeVars /\ thread' = Goto(t, Done(f))
  BY <1>f, <1>g, <1>h DEF ApplyWriter, Advanced
<1>3. h.pc \in PlainPcs /\ Done(f).pc \in PlainPcs
  BY <1>1, <1>h, DonePlain, PcFrame DEF PlainPcs, Calls
<1>4. CASE BlockTask(k) /\ thread' = Goto(t, Done(f))
  BY <1>k, <1>1, <1>3, <1>4, BlockStill, GitSame, TaskReviews
<1>5. CASE UNCHANGED storeVars /\ (thread' = Return(t) \/ thread' = Goto(t, h) \/ thread' = Goto(t, Done(f)))
  BY <1>k, <1>1, <1>3, <1>5, SpinReviews
<1>6. CASE /\ task[k].status = "reviewing" /\ task[k].reviewerRun = NoRun
           /\ UNCHANGED storeVars /\ thread' = Goto(t, g)
  <2>1. k \in Keys /\ task[k] \in Task
    BY <1>1, PlanKeysType DEF RunsInv
  <2>2. /\ g \in Frame /\ g.pc = "review" /\ g.item.key = k
        /\ g.item.attempt = task[k].reviewerAttempts + 1
    BY <1>1, <1>g, <2>1, ReviewNextIn DEF ReviewNext, Frame
  <2>3. Follows(thread', {g})
    BY <1>6, <2>2, GotoFollows DEF ReviewInv
  <2> DEFINE e == Reviewer(k, task[k].reviewerAttempts + 1)
  <2>4. CalledBy({g}) = {e} /\ e.key = k
    BY <2>2, ReviewCalls DEF Reviewer
  <2>5. /\ UNCHANGED <<planned, tree, adopted, job, task>> /\ CreatedOn /\ Kept
        /\ adopted \subseteq adopted'
    BY <1>k, <1>1, <1>6 DEF storeVars, gitVars, historyVars, CreatedOn
  <2>6. Commits(k)' = Commits(k)
    BY <2>5 DEF Commits
  <2>7. k \notin adopted => task[k].commit # NoSHA /\ OnePending(k) /\ ReviewsTrue(k)
    BY <1>1, <1>6 DEF ReviewInv, ReviewsTrue
  <2>8. AskedOn({e})
    BY <1>1, <2>3, <2>4, AskedSame
  <2>9. ASSUME k \notin adopted' PROVE ReviewsTrue(k)'
    <3>1. OnePending(k) /\ ReviewsTrue(k)
      BY <2>5, <2>7, <2>9
    <3>2. ASSUME NEW c \in ReviewersOf(k), Pending(c)' PROVE c = e
      <4>1. c \in Runs /\ c.role = "reviewer" /\ Requested(c)'
        BY <3>2 DEF ReviewersOf, Pending
      <4>2. Requested(c) \/ c = e
        BY <2>8, <4>1 DEF AskedOn
      <4>3. ~Outdated(c) /\ ~Failed(c)
        BY <1>1, <2>5, <3>2 DEF Pending, Outdated, Failed
      <4> QED BY <1>6, <3>1, <4>2, <4>3 DEF OnePending, Pending
    <3>3. OnePending(k)'
      BY <2>5, <3>2 DEF OnePending, ReviewersOf
    <3>4. ReportsTrue(k)' /\ ReadingsTrue(k)' /\ ~(task'[k].status \in ToWork) /\ ~Approved(k)'
      BY <1>1, <1>6, <2>5, <3>1 DEF ReviewsTrue, ReportsTrue, ReadingsTrue, Filed, Failed, ReviewersOf,
                                   ToWork, Approved
    <3> QED BY <2>5, <2>7, <2>9, <3>3, <3>4 DEF ReviewsTrue
  <2>10. \A c \in Frames : Refusable(c) => Refusable(c)'
    BY <2>5 DEF Refusable, Filed
  <2>11. \A c \in {g} : Refusable(c)' /\ c.pc # "merge"
    BY <2>2 DEF Refusable
  <2>12. \A r \in CalledBy({g}) : r.key = k /\ (k \notin adopted => task'[k].commit # NoSHA)
    BY <2>4, <2>5, <2>7
  <2>x. PICK extra : extra = {g}
    OBVIOUS
  <2>13. /\ Follows(thread', extra) /\ \A c \in extra : Refusable(c)' /\ c.pc # "merge"
         /\ \A r \in CalledBy(extra) : r.key = k /\ (k \notin adopted => task'[k].commit # NoSHA)
    BY <2>x, <2>3, <2>11, <2>12
  <2>14. /\ \A j \in PlanKeys \ {k} : task'[j] = task[j]
         /\ task[k].commit # NoSHA => task'[k].commit # NoSHA
         /\ k \notin adopted' => ReviewsTrue(k)'
         /\ UNCHANGED <<planned, record, remote, queue, tree>>
    BY <1>1, <2>5, <2>9
  <2> HIDE DEF e
  <2> QED BY <1>1, <2>5, <2>6, <2>10, <2>13, <2>14, OneReview
<1> QED BY <1>2, <1>4, <1>5, <1>6

\* A verdict that is under way has been asked for.
LEMMA VerdictAsked ==
  ASSUME RunsInv, NEW f \in Frames, f.pc = "verdict"
  PROVE  /\ f.run \in ReviewersOf(f.run.key) /\ Requested(f.run) /\ ~Failed(f.run)
         /\ remote[f.run].status = "ended"
<1>1. f.run \in Runs /\ f.run.role = "reviewer" /\ remote[f.run].says \in Verdicts
  BY DEF Frames, Good, Known
<1>2. remote[f.run].status = "ended"
  BY <1>1 DEF RunsInv, RunsKept, Verdicts
<1> QED BY <1>1, <1>2 DEF ReviewersOf, Requested, Failed, Verdicts

LEMMA CompleteReviews ==
  ASSUME RunsInv, ReviewInv, NEW t \in Busy, Complete(t)
  PROVE  ReviewsKept
<1>k. Kept
  BY CompleteKept
<1>f. PICK f : f = Top(t)
  OBVIOUS
<1> DEFINE k == f.run.key
<1>g. PICK g : g = ReviewNext(f, task'[k])
  OBVIOUS
<1>1. /\ f \in Frame /\ Good(f) /\ f.pc = "complete" /\ k \in PlanKeys /\ k \in Keys
      /\ f.sha \in SHAs /\ f.sha # NoSHA /\ t \in Threads /\ At(t, "complete") /\ UNCHANGED gitVars
  BY <1>f, TopFrame, PlanKeysType DEF Complete, At, Top, Good, Known, RunsInv, Frame, Busy
<1>2. /\ UNCHANGED <<record, remote, queue, budget>>
      /\ \/ RecordWriterCompletion(k, f.run, f.sha) /\ thread' = Goto(t, g)
         \/ UNCHANGED storeVars /\ thread' = Return(t)
  BY <1>f, <1>g, TryCases DEF Complete
<1>3. /\ New(t) /\ f.sha <= tree[k].head /\ f.sha \notin Commits(k)
      /\ \A u \in Threads : At(u, "complete") /\ Top(u).run.key = k /\ Top(u).sha = f.sha => u = t
  <2>1. New(t)
    BY <1>1 DEF ReviewInv, CommitsKept
  <2> QED BY <1>f, <2>1 DEF New
<1>4. CASE UNCHANGED storeVars /\ thread' = Return(t)
  BY <1>k, <1>1, <1>2, <1>4, SpinReviews
<1>5. CASE RecordWriterCompletion(k, f.run, f.sha) /\ thread' = Goto(t, g)
  <2>1. task[k] \in Task /\ task \in [Keys -> Task] /\ PlanKeys \subseteq Keys
    BY <1>1, PlanKeysType DEF RunsInv, StoreTypeOK
  <2>2. task[k].commit # f.sha
    BY <1>3 DEF Commits
  <2>3. /\ task[k].status = "working"
        /\ task' = [task EXCEPT ![k] = [@ EXCEPT !.status = "reviewing", !.commit = f.sha,
                                                 !.verdict = "pending"]]
        /\ job' = [job EXCEPT !.status = "reviewing"]
        /\ UNCHANGED <<ci, failures, planned>>
    BY <1>5, <2>2 DEF RecordWriterCompletion
  <2>4. /\ task'[k] = [task[k] EXCEPT !.status = "reviewing", !.commit = f.sha,
                                      !.verdict = "pending"]
        /\ \A j \in PlanKeys \ {k} : task'[j] = task[j]
    BY <1>1, <2>1, <2>3
  <2>5. /\ task'[k].status = "reviewing" /\ task'[k].commit = f.sha
        /\ task'[k].history = task[k].history
        /\ task'[k].reviewerAttempts = task[k].reviewerAttempts
        /\ task'[k] \in Task
    BY <1>1, <2>1, <2>4 DEF Task, TaskStatuses, Verdicts
  <2>6. /\ g \in Frame /\ g.pc = "review" /\ g.item.key = k
        /\ g.item.attempt = task'[k].reviewerAttempts + 1
    BY <1>1, <1>g, <2>5, ReviewNextIn DEF ReviewNext, Frame
  <2>x. PICK extra : extra = {g}
    OBVIOUS
  <2>7. Follows(thread', extra)
    BY <1>5, <2>x, <2>6, GotoFollows DEF ReviewInv
  <2>e. PICK e : e = Reviewer(k, task'[k].reviewerAttempts + 1)
    OBVIOUS
  <2>8. CalledBy(extra) = {e} /\ e.key = k
    BY <2>e, <2>x, <2>6, ReviewCalls DEF Reviewer
  <2>9. CreatedOn
    BY <2>3 DEF CreatedOn, RunsInv, StoreTypeOK, Job
  <2>10. UNCHANGED <<planned, record, remote, queue, tree, adopted>>
    BY <1>1, <1>2, <2>3 DEF gitVars, historyVars
  <2>11. \A c \in Commits(k)' :
            \/ c \in Commits(k)
            \/ /\ c <= tree'[k].head
               /\ \A u \in Threads : At(u, "complete")' /\ Top(u)'.run.key = k => Top(u)'.sha # c
    <3>1. \A c \in Commits(k)' : c \in Commits(k) \/ c = f.sha
      BY <2>5 DEF Commits
    <3>2. ASSUME NEW u \in Threads, At(u, "complete")', Top(u)'.run.key = k
          PROVE  Top(u)'.sha # f.sha
      <4>1. At(u, "complete") /\ Top(u)' = Top(u)
        BY <2>7, <3>2, CompleteFollows
      <4>2. u # t
        <5>1. thread \in [Threads -> Seq(Frame)] /\ thread[t] # <<>>
          BY StacksTyped DEF Busy
        <5>2. thread'[t] = <<g>> \o Tail(thread[t])
          BY <1>1, <1>5, <5>1 DEF Goto
        <5>3. Head(thread'[t]) = g
          <6>1. PICK s : s = Tail(thread[t])
            OBVIOUS
          <6>2. s \in Seq(Frame) /\ thread'[t] = <<g>> \o s
            BY <1>1, <5>1, <5>2, <6>1
          <6> QED BY <2>6, <6>2
        <5> QED BY <2>6, <3>2, <5>3 DEF At
      <4> QED BY <1>3, <3>2, <4>1, <4>2
    <3> QED BY <1>3, <2>10, <3>1, <3>2
  <2>12. k \notin adopted => ReviewsOver(k) /\ ReviewsTrue(k)
    BY <1>1, <2>3 DEF ReviewInv, ReviewsTrue, ToWork
  <2>13. AskedOn({e})
    BY <1>2, <2>7, <2>8, AskedSame
  <2>14. ASSUME k \notin adopted' PROVE ReviewsTrue(k)'
    <3>1. ReviewsOver(k) /\ ReviewsTrue(k) /\ k \notin adopted
      BY <2>10, <2>12, <2>14
    <3>2. \A c \in ReviewersOf(k) : c \in Runs /\ c.role = "reviewer" /\ c.key = k /\ (Filed(c)' <=> Filed(c))
      BY <2>5 DEF ReviewersOf, Filed
    <3>3. ASSUME NEW c \in ReviewersOf(k), Pending(c)' PROVE c = e
      <4>1. Requested(c)' /\ ~Outdated(c)' /\ ~Failed(c)
        BY <2>10, <3>3 DEF Pending, Failed
      <4>2. ~Filed(c)
        <5>1. ASSUME NEW i \in DOMAIN task[k].history, task[k].history[i].run = c PROVE FALSE
          <6>1. task[k].history[i].commit # f.sha
            BY <1>3 DEF Commits
          <6> QED BY <2>5, <3>2, <4>1, <5>1, <6>1 DEF Outdated
        <5> QED BY <3>2, <5>1 DEF Filed
      <4>3. ~Requested(c)
        BY <3>1, <4>1, <4>2 DEF ReviewsOver
      <4> QED BY <2>13, <3>2, <4>1, <4>3 DEF AskedOn
    <3>4. OnePending(k)'
      BY <2>e, <3>3 DEF OnePending, ReviewersOf
    <3>5. ReportsTrue(k)'
      BY <2>5, <2>10, <3>1 DEF ReviewsTrue, ReportsTrue
    <3>6. ReadingsTrue(k)'
      <4> SUFFICES ASSUME NEW c \in ReviewersOf(k), ~Filed(c)', ~Failed(c)', remote'[c].saw # NoSHA
                   PROVE  FALSE
        BY DEF ReadingsTrue, ReviewersOf
      <4>1. ~Filed(c) /\ ~Failed(c) /\ remote[c].saw # NoSHA
        BY <2>10, <3>2 DEF Failed
      <4>2. HasRead(c)
        BY <3>1, <3>2 DEF ReviewInv
      <4>3. Requested(c)
        BY <4>1, <4>2 DEF HasRead, Requested
      <4> QED BY <3>1, <4>1, <4>3 DEF ReviewsOver
    <3>7. ~(task'[k].status \in ToWork) /\ ~Approved(k)'
      BY <2>5 DEF ToWork, Approved
    <3> QED BY <1>1, <2>5, <3>4, <3>5, <3>6, <3>7 DEF ReviewsTrue
  <2>15. ASSUME k \notin adopted', NEW c \in Frames, c.run.key = k, Refusable(c) PROVE Refusable(c)'
    <3>1. c.pc = "verdict" => Filed(c.run)'
      <4> SUFFICES ASSUME c.pc = "verdict" PROVE Filed(c.run)'
        OBVIOUS
      <4>1. c.run \in ReviewersOf(k) /\ Requested(c.run) /\ ~Failed(c.run)
        BY <2>15, VerdictAsked
      <4>2. Filed(c.run)
        BY <2>10, <2>12, <2>15, <4>1 DEF ReviewsOver
      <4> QED BY <2>5, <2>15, <4>2 DEF Filed
    <3> QED BY <3>1 DEF Refusable
  <2>16. /\ \A c \in extra : Refusable(c)' /\ c.pc # "merge"
         /\ \A d \in CalledBy(extra) : d.key = k /\ (k \notin adopted => task'[k].commit # NoSHA)
         /\ task[k].commit # NoSHA => task'[k].commit # NoSHA
         /\ adopted \subseteq adopted'
    BY <1>1, <2>x, <2>5, <2>6, <2>8, <2>10 DEF Refusable
  <2> QED BY <1>k, <1>1, <2>4, <2>7, <2>9, <2>10, <2>11, <2>14, <2>15, <2>16, OneReview
<1> QED BY <1>2, <1>4, <1>5

LEMMA OwnReviewReviews ==
  ASSUME RunsInv, ReviewInv, NEW t \in Busy, OwnReview(t)
  PROVE  ReviewsKept
<1>k. Kept
  BY OwnReviewKept
<1>f. PICK f : f = Top(t)
  OBVIOUS
<1> DEFINE k == f.item.key
<1>d. PICK d : d = Reviewer(k, f.item.attempt)
  OBVIOUS
<1>1. f \in Frame /\ Good(f) /\ k \in PlanKeys /\ d \in Runs /\ d # NoRun /\ UNCHANGED gitVars
  BY <1>f, <1>d, TopFrame, StoreAssumption DEF OwnReview, At, Top, Good
<1>2. /\ UNCHANGED <<record, remote, queue, budget>>
      /\ \/ StartReviewer(k, d) /\ thread' = Goto(t, Done(f))
         \/ UNCHANGED storeVars /\ thread' = Return(t)
  BY <1>f, <1>d, TryCases DEF OwnReview
<1>3. Done(f).pc \in PlainPcs
  BY DonePlain
<1>4. CASE UNCHANGED storeVars
  BY <1>k, <1>1, <1>2, <1>3, <1>4, SpinReviews
<1>5. CASE /\ task[k].status = "reviewing" /\ task[k].reviewerRun = NoRun
           /\ task' = [task EXCEPT ![k] = Own(@, d)]
           /\ UNCHANGED <<job, ci, failures, planned>>
           /\ thread' = Goto(t, Done(f))
  <2>1. k \in Keys /\ task \in [Keys -> Task] /\ PlanKeys \subseteq Keys
    BY <1>1, PlanKeysType DEF RunsInv, StoreTypeOK
  <2>2. task'[k] = Own(task[k], d) /\ \A j \in PlanKeys \ {k} : task'[j] = task[j]
    BY <1>5, <2>1
  <2>3. /\ task'[k].commit = task[k].commit /\ task'[k].history = task[k].history
        /\ task'[k].status = "reviewing" /\ task'[k].reviewerRun = d
    BY <1>5, <2>1, <2>2 DEF Task, Own
  <2>4. /\ UNCHANGED <<planned, record, remote, queue, tree, adopted>> /\ CreatedOn
        /\ adopted \subseteq adopted'
    BY <1>1, <1>2, <1>5 DEF gitVars, historyVars, CreatedOn
  <2>5. Follows(thread', {})
    BY <1>k, <1>3, <1>5, WentFollows DEF Kept
  <2>6. AskedOn({})
    BY <1>2, <2>5, AskedSame, NobodyCalled
  <2>7. Commits(k)' = Commits(k)
    BY <2>3 DEF Commits
  <2>8. ASSUME k \notin adopted' PROVE ReviewsTrue(k)'
    <3>1. ReviewsTrue(k) /\ OnePending(k) /\ task[k].commit # NoSHA
      BY <1>1, <1>5, <2>4, <2>8 DEF ReviewInv, ReviewsTrue
    <3>2. \A c \in ReviewersOf(k) : Pending(c)' => Pending(c)
      BY <2>3, <2>4, <2>6 DEF Pending, AskedOn, Outdated, Failed, ReviewersOf
    <3>3. OnePending(k)'
      BY <1>1, <2>3, <3>1, <3>2 DEF OnePending, ReviewersOf
    <3>r. ReportsTrue(k)'
      BY <2>3, <2>4, <3>1 DEF ReviewsTrue, ReportsTrue
    <3>s. ReadingsTrue(k)'
      <4>1. \A c \in ReviewersOf(k) : c.key = k /\ (Filed(c)' <=> Filed(c)) /\ (Failed(c)' <=> Failed(c))
        BY <2>3, <2>4 DEF Filed, Failed, ReviewersOf
      <4> QED BY <2>3, <2>4, <3>1, <4>1 DEF ReviewsTrue, ReadingsTrue, ReviewersOf
    <3>4. ReportsTrue(k)' /\ ReadingsTrue(k)'
      BY <3>r, <3>s
    <3>5. ~(task'[k].status \in ToWork) /\ ~Approved(k)'
      BY <2>3 DEF ToWork, Approved
    <3> QED BY <2>3, <3>1, <3>3, <3>4, <3>5 DEF ReviewsTrue
  <2>9. ASSUME k \notin adopted', NEW c \in Frames, c.run.key = k, Refusable(c) PROVE Refusable(c)'
    <3>1. c.pc = "verdict" => Filed(c.run)
      BY <1>5, <2>4, <2>9 DEF Refusable
    <3> QED BY <2>3, <2>9, <3>1 DEF Refusable, Filed
  <2>10. PICK extra : extra = {}
    OBVIOUS
  <2>11. /\ Follows(thread', extra) /\ \A c \in extra : Refusable(c)' /\ c.pc # "merge"
         /\ \A r \in CalledBy(extra) : r.key = k /\ (k \notin adopted => task'[k].commit # NoSHA)
         /\ task[k].commit # NoSHA => task'[k].commit # NoSHA
         /\ \A c \in Commits(k)' : c \in Commits(k)
    BY <2>3, <2>5, <2>7, <2>10, NobodyCalled
  <2> QED BY <1>k, <1>1, <2>2, <2>4, <2>8, <2>9, <2>11, OneReview
<1> QED BY <1>2, <1>4, <1>5 DEF StartReviewer

----------------------------------------------------------------------------
(* A commit is made that is still to be recorded. *)

\* The call that records it takes the place of the one that made it.
LEMMA CommitCalls ==
  ASSUME RunsInv, CommitsKept, NEW t \in Busy, NEW g \in Frame, g.pc = "complete",
         thread' = Goto(t, g)
  PROVE  /\ CallsFollow(thread', {}) /\ MergesOn
         /\ \A u \in Threads : \A i \in DOMAIN thread'[u] : thread'[u][i].pc = "complete" => i = 1
         /\ At(t, "complete")' /\ Top(t)' = g
         /\ \A u \in Threads \ {t} : thread'[u] = thread[u]
<1>1. thread \in [Threads -> Seq(Frame)] /\ t \in Threads /\ thread[t] # <<>>
  BY StacksTyped DEF Busy
<1>2. PICK s : s = Tail(thread[t])
  OBVIOUS
<1>3. /\ s \in Seq(Frame) /\ StackFollows(s, thread[t], {})
      /\ \A i \in DOMAIN s : s[i].pc # "complete"
  BY <1>1, <1>2, TailFollows DEF CommitsKept
<1>4. thread'[t] = <<g>> \o s /\ \A u \in Threads \ {t} : thread'[u] = thread[u]
  BY <1>1, <1>2 DEF Goto
<1>5. PICK n : n = <<g>> \o s
  OBVIOUS
<1>6. n \in Seq(Frame) /\ n # <<>> /\ Head(n) = g /\ DOMAIN n = 1..(Len(s) + 1)
  BY <1>3, <1>5
<1>7. \A i \in DOMAIN n : (i = 1 /\ n[i] = g) \/ (i - 1 \in DOMAIN s /\ n[i] = s[i - 1])
  BY <1>3, <1>5
<1>8. ASSUME NEW u \in Threads, NEW i \in DOMAIN thread'[u]
      PROVE  /\ thread'[u][i].pc \in {"review", "verdict", "merge"} =>
                   \E j \in DOMAIN thread[u] : thread'[u][i] = thread[u][j]
             /\ thread'[u][i].pc = "complete" => i = 1
  <2>1. CASE u = t
    <3>1. thread'[u] = n /\ i \in DOMAIN n
      BY <1>4, <1>5, <1>8, <2>1
    <3>2. CASE i = 1 /\ n[i] = g
      BY <3>1, <3>2
    <3>3. CASE i - 1 \in DOMAIN s /\ n[i] = s[i - 1]
      <4>1. s[i - 1].pc # "complete"
        BY <1>3, <3>3
      <4>2. s[i - 1].pc \in {"review", "verdict", "merge"} => \E j \in DOMAIN thread[t] : s[i - 1] = thread[t][j]
        BY <1>3, <3>3 DEF StackFollows
      <4> QED BY <2>1, <3>1, <3>3, <4>1, <4>2
    <3> QED BY <1>7, <3>1, <3>2, <3>3
  <2>2. CASE u # t
    BY <1>4, <1>8, <2>2 DEF CommitsKept
  <2> QED BY <2>1, <2>2
<1> QED BY <1>4, <1>5, <1>6, <1>8 DEF CallsFollow, MergesOn, At, Top

LEMMA CommitReviews ==
  ASSUME RunsInv, ReviewInv, NEW t \in Busy, Commit(t)
  PROVE  ReviewsKept
<1>k. Kept
  BY CommitKept
<1>f. PICK f : f = Top(t)
  OBVIOUS
<1> DEFINE k == f.run.key
<1>n. PICK n : n = tree[k].head + 1
  OBVIOUS
<1>g. PICK g : g = [f EXCEPT !.pc = "complete", !.sha = n]
  OBVIOUS
<1>h. PICK h : h = [f EXCEPT !.pc = "nochanges"]
  OBVIOUS
<1>1. /\ f \in Frame /\ Good(f) /\ f.pc = "tree" /\ k \in PlanKeys /\ k \in Keys /\ t \in Threads
      /\ UNCHANGED <<storeVars, record, remote, queue, historyVars, budget>>
  BY <1>f, TopFrame, PlanKeysType DEF Commit, At, Top, Good, Known, RunsInv, Busy
<1>2. \/ /\ n \in SHAs /\ tree' = [tree EXCEPT ![k] = [head |-> n, dirty |-> FALSE]]
         /\ thread' = Goto(t, g)
      \/ UNCHANGED tree /\ thread' = Goto(t, h)
      \/ UNCHANGED tree /\ thread' = Return(t)
  BY <1>f, <1>g, <1>h, <1>n DEF Commit
<1>3. CASE UNCHANGED tree /\ (thread' = Goto(t, h) \/ thread' = Return(t))
  <2>1. h.pc \in PlainPcs
    BY <1>1, <1>h, PcFrame DEF PlainPcs, Calls
  <2> QED BY <1>k, <1>1, <1>3, <2>1, SpinReviews DEF gitVars
<1>4. CASE /\ n \in SHAs /\ tree' = [tree EXCEPT ![k] = [head |-> n, dirty |-> FALSE]]
           /\ thread' = Goto(t, g)
  <2>1. tree \in [Keys -> Tree] /\ PlanKeys \subseteq Keys
    BY PlanKeysType DEF RunsInv, GitKept
  <2>2. g \in Frame /\ g.pc = "complete" /\ g.run = f.run /\ g.sha = n
    BY <1>1, <1>g, <1>4 DEF Frame, Calls
  <2>3. /\ tree'[k].head = n /\ \A j \in PlanKeys \ {k} : tree'[j] = tree[j]
        /\ \A j \in PlanKeys : tree[j].head \in Nat
        /\ n = tree[k].head + 1 /\ n \in Nat
    <3>1. \A j \in PlanKeys : tree[j].head \in Nat
      BY <2>1, CommitTypes
    <3> QED BY <1>1, <1>4, <1>n, <2>1, <3>1
  <2>4. HeadsOn
    BY <2>3 DEF HeadsOn
  <2>5. /\ CallsFollow(thread', {}) /\ MergesOn
        /\ \A u \in Threads : \A i \in DOMAIN thread'[u] : thread'[u][i].pc = "complete" => i = 1
        /\ Top(t)' = g
        /\ \A u \in Threads \ {t} : thread'[u] = thread[u]
    BY <1>4, <2>2, CommitCalls DEF ReviewInv
  <2>6. AskedOn({}) /\ RunMoves
    <3>1. RunMoves
      BY <1>1 DEF RunMoves, RunMove
    <3>2. \A d \in Runs : d.role = "reviewer" =>
            /\ remote'[d].status # "absent" => Requested(d)
            /\ record'[d] = "starting" => Requested(d)
            /\ (\E e \in queue' : e.run = d /\ e.status = "starting") => Requested(d)
      BY <1>1 DEF Requested
    <3> QED BY <2>5, <3>1, <3>2, AskedStep, NobodyCalled
  <2>7. /\ \A j \in PlanKeys : task'[j] = task[j] /\ Still(j)
        /\ PlanKeys' = PlanKeys /\ CreatedOn /\ adopted' = adopted
    BY <1>1, StoreUnmoved DEF historyVars
  <2>8. CommitsKept'
    <3>1. \A j \in PlanKeys : Commits(j)' = Commits(j)
      BY <2>7 DEF Commits
    <3>2. \A j \in PlanKeys : \A c \in Commits(j) : c \in Nat
      <4>1. SHAs \union {NoSHA} \subseteq Nat
        BY StoreAssumption DEF SHAs, NoSHA
      <4> TAKE j \in PlanKeys
      <4>2. task[j].commit \in Nat /\ task[j].history \in Seq(Report)
        BY <4>1, PlanKeysType DEF Task, RunsInv
      <4>3. \A i \in DOMAIN task[j].history : task[j].history[i] \in Report
        BY <4>2
      <4> QED BY <4>1, <4>2, <4>3 DEF Commits, Report
    <3>3. \A j \in PlanKeys : \A c \in Commits(j) : c <= tree[j].head
      BY DEF ReviewInv, CommitsKept
    <3>4. \A j \in PlanKeys : \A c \in Commits(j) : c <= tree'[j].head
      BY <2>3, <3>2, <3>3
    <3>5. ASSUME NEW u \in Threads \ {t}, At(u, "complete")'
          PROVE  At(u, "complete") /\ Top(u)' = Top(u) /\ New(u)
      BY <2>5, <3>5 DEF At, Top, ReviewInv, CommitsKept
    <3>6. \A u \in Threads : At(u, "complete") /\ Top(u).run.key = k => Top(u).sha # n
      <4> SUFFICES ASSUME NEW u \in Threads, At(u, "complete"), Top(u).run.key = k PROVE Top(u).sha # n
        OBVIOUS
      <4>1. New(u) /\ Top(u).sha \in Nat
        BY CommitTypes DEF ReviewInv, CommitsKept
      <4>2. Top(u).sha <= tree[k].head
        BY <4>1 DEF New
      <4> QED BY <1>1, <2>3, <4>1, <4>2
    <3>7. ASSUME NEW u \in Threads, At(u, "complete")' PROVE New(u)'
      <4>1. CASE u = t
        <5>1. n <= tree'[k].head /\ n \notin Commits(k)'
          BY <1>1, <2>3, <3>1, <3>2, <3>3
        <5>2. \A v \in Threads : At(v, "complete")' /\ Top(v)'.run.key = k /\ Top(v)'.sha = n => v = t
          BY <3>5, <3>6
        <5> QED BY <2>2, <2>5, <4>1, <5>1, <5>2 DEF New
      <4>2. CASE u # t
        <5> DEFINE j == Top(u).run.key
        <5>1. At(u, "complete") /\ Top(u)' = Top(u) /\ New(u)
          BY <3>5, <3>7, <4>2
        <5>2. j \in PlanKeys /\ Top(u).sha \in Nat
          BY <5>1, CommitTypes
        <5>3. Top(u).sha <= tree[j].head /\ tree[j].head <= tree'[j].head
          BY <2>4, <5>1, <5>2 DEF New, HeadsOn
        <5>4. Top(u).sha <= tree'[j].head
          BY <1>1, <2>3, <5>2, <5>3
        <5>5. Top(u).sha \notin Commits(j)'
          BY <3>1, <5>1, <5>2 DEF New
        <5>6. ASSUME NEW v \in Threads, At(v, "complete")', Top(v)'.run.key = j, Top(v)'.sha = Top(u).sha
              PROVE  v = u
          <6>1. CASE v = t
            BY <2>2, <2>5, <3>6, <5>1, <5>6, <6>1
          <6>2. CASE v # t
            <7>1. At(v, "complete") /\ Top(v)' = Top(v)
              BY <3>5, <5>6, <6>2
            <7> QED BY <5>1, <5>6, <7>1 DEF New
          <6> QED BY <6>1, <6>2
        <5> QED BY <5>1, <5>4, <5>5, <5>6 DEF New
      <4> QED BY <4>1, <4>2
    <3> QED BY <2>5, <2>7, <3>1, <3>4, <3>7 DEF CommitsKept
  <2>9. \A d \in Runs : d.role = "reviewer" /\ d.key \notin adopted' => HasRead(d)'
    BY <2>6, <2>7, HasReadStep DEF ReviewInv
  <2>10. \A j \in PlanKeys' \ adopted' : ReviewsTrue(j)'
    BY <1>k, <2>6, <2>7, ReviewsStep DEF ReviewInv, Kept
  <2>11. VerdictsRefusable'
    BY <2>5, <2>7, RefusableStep DEF ReviewInv
  <2> QED BY <2>5, <2>7, <2>8, <2>9, <2>10, <2>11 DEF ReviewInv, CreatedOn, ReviewsKept
<1> QED BY <1>2, <1>3, <1>4

----------------------------------------------------------------------------
(* Reports and verdicts. *)

\* A review that nobody owns can still be adopted (part of the store's ledger).
Spare ==
    \A k \in PlanKeys : task[k].status = "reviewing" /\ task[k].reviewerRun = NoRun
        => task[k].reviewerAttempts < task[k].writerAttempts

LEMMA AdoptCases ==
  ASSUME NEW own \in Task, NEW d \in Runs, NEW a, a = Adopt(own, d)
  PROVE  /\ a \in Task /\ a.commit = own.commit /\ a.history = own.history
         /\ a.status = own.status /\ a.writerAttempts = own.writerAttempts
         /\ \/ a.reviewerRun = own.reviewerRun /\ a.reviewerAttempts = own.reviewerAttempts
               /\ ~(own.status = "reviewing" /\ own.reviewerRun # d
                    /\ own.reviewerAttempts < own.writerAttempts)
            \/ own.status = "reviewing" /\ own.reviewerRun # d
               /\ own.reviewerAttempts < own.writerAttempts /\ a.reviewerRun = d
<1>1. CASE own.status = "reviewing" /\ own.reviewerRun # d
           /\ own.reviewerAttempts < own.writerAttempts
  <2>n. PICK n : n = own.reviewerAttempts + 1
    OBVIOUS
  <2>1. n \in Nat
    BY <2>n DEF Task
  <2>2. a = [own EXCEPT !.reviewerRun = d, !.reviewerAttempts = n]
    BY <1>1, <2>n DEF Adopt, Own
  <2>3. /\ a \in Task /\ a.commit = own.commit /\ a.history = own.history
        /\ a.status = own.status /\ a.writerAttempts = own.writerAttempts
        /\ a.reviewerRun = d
    BY <2>1, <2>2 DEF Task
  <2> QED BY <1>1, <2>3
<1>2. CASE ~(own.status = "reviewing" /\ own.reviewerRun # d
             /\ own.reviewerAttempts < own.writerAttempts)
  BY <1>2 DEF Adopt
<1> QED BY <1>1, <1>2

\* The report of a verdict that is first filed is about the commit of the task.
LEMMA FirstReport ==
  ASSUME RunsInv, ReviewInv, NEW d \in Runs, d.role = "reviewer", d.key \in PlanKeys,
         d.key \notin adopted, ~Filed(d), remote[d].says \in Verdicts
  PROVE  remote[d].saw = task[d.key].commit /\ remote[d].status = "ended"
<1>1. HasRead(d) /\ ReadingsTrue(d.key)
  BY DEF ReviewInv, ReviewsTrue
<1>2. remote[d].saw # NoSHA /\ ~Failed(d)
  BY <1>1 DEF HasRead, Failed, Verdicts
<1>3. remote[d].status = "ended"
  BY DEF RunsInv, RunsKept, Verdicts
<1> QED BY <1>1, <1>2, <1>3 DEF ReadingsTrue, ReviewersOf

\* RecordReviewReport, with what it does to the task.
LEMMA FiledCases ==
  ASSUME RunsInv, NEW k \in PlanKeys, NEW d \in Runs, d.key = k, NEW says \in Verdicts,
         NEW feedback \in Feedbacks, RecordReviewReport(k, d, says, feedback)
  PROVE  /\ UNCHANGED <<job, ci, failures, planned>>
         /\ \A j \in PlanKeys \ {k} : task'[j] = task[j]
         /\ ReportsGrow(k) /\ task'[k].status = task[k].status
         /\ task'[k].writerAttempts = task[k].writerAttempts
         /\ \/ task'[k].reviewerRun = task[k].reviewerRun
               /\ task'[k].reviewerAttempts = task[k].reviewerAttempts
               /\ ~(task[k].status = "reviewing" /\ task[k].reviewerRun # d
                    /\ task[k].reviewerAttempts < task[k].writerAttempts)
            \/ task[k].status = "reviewing" /\ task[k].reviewerRun # d
               /\ task[k].reviewerAttempts < task[k].writerAttempts /\ task'[k].reviewerRun = d
         /\ task'[k].reviewerRun = d => Filed(d)'
         /\ \A i \in DOMAIN task'[k].history :
               \/ i \in DOMAIN task[k].history /\ task'[k].history[i] = task[k].history[i]
               \/ /\ ~Filed(d)
                  /\ task'[k].history[i].run = d /\ task'[k].history[i].commit = task[k].commit
<1>1. k \in Keys /\ task \in [Keys -> Task] /\ PlanKeys \subseteq Keys
  BY PlanKeysType DEF RunsInv, StoreTypeOK
<1>r. PICK r : r = [run |-> d, verdict |-> says, feedback |-> feedback, commit |-> task[k].commit]
  OBVIOUS
<1>a. PICK a : a = Adopt(task[k], d)
  OBVIOUS
<1>2. /\ task' = [task EXCEPT ![k] = File(a, r)]
      /\ UNCHANGED <<job, ci, failures, planned>>
  BY <1>1, <1>r, <1>a DEF RecordReviewReport
<1>3. task'[k] = File(a, r) /\ \A j \in PlanKeys \ {k} : task'[j] = task[j]
  BY <1>1, <1>2
<1>4. /\ a \in Task /\ a.commit = task[k].commit /\ a.history = task[k].history
      /\ a.status = task[k].status /\ a.writerAttempts = task[k].writerAttempts
      /\ \/ a.reviewerRun = task[k].reviewerRun /\ a.reviewerAttempts = task[k].reviewerAttempts
            /\ ~(task[k].status = "reviewing" /\ task[k].reviewerRun # d
                 /\ task[k].reviewerAttempts < task[k].writerAttempts)
         \/ task[k].status = "reviewing" /\ task[k].reviewerRun # d
            /\ task[k].reviewerAttempts < task[k].writerAttempts /\ a.reviewerRun = d
  BY <1>1, <1>a, AdoptCases
<1>5. /\ r \in Report /\ r.run = d /\ r.commit = task[k].commit
  BY <1>1, <1>r DEF Task, Report
<1>6. a.history \in Seq(Report)
  BY <1>4 DEF Task
<1>7. CASE a.reviewerRun = d /\ ~Filed(d)
  <2>1. File(a, r) = [a EXCEPT !.history = Append(@, r)]
    BY <1>4, <1>5, <1>7 DEF File, Filed
  <2>h. PICK h : h = Append(a.history, r)
    OBVIOUS
  <2>2. /\ task'[k].history = h /\ task'[k].commit = a.commit /\ task'[k].status = a.status
        /\ task'[k].reviewerRun = a.reviewerRun /\ task'[k].writerAttempts = a.writerAttempts
        /\ task'[k].reviewerAttempts = a.reviewerAttempts
    BY <1>3, <1>4, <2>1, <2>h DEF Task
  <2>3. /\ \A i \in DOMAIN a.history : i \in DOMAIN h /\ h[i] = a.history[i]
        /\ \A i \in DOMAIN h : (i \in DOMAIN a.history /\ h[i] = a.history[i]) \/ h[i] = r
        /\ \E i \in DOMAIN h : h[i] = r
    <3>1. h \in Seq(Report) /\ Len(h) = Len(a.history) + 1 /\ h[Len(a.history) + 1] = r
      BY <1>5, <1>6, <2>h
    <3>2. \A i \in 1..Len(a.history) : h[i] = a.history[i]
      BY <1>5, <1>6, <2>h
    <3>3. DOMAIN h = 1..(Len(a.history) + 1) /\ DOMAIN a.history = 1..Len(a.history)
      BY <1>6, <3>1
    <3> QED BY <1>6, <3>1, <3>2, <3>3
  <2>4. ReportsGrow(k)
    BY <1>4, <2>2, <2>3 DEF ReportsGrow
  <2>5. Filed(d)'
    BY <1>5, <2>2, <2>3 DEF Filed
  <2>6. \A i \in DOMAIN task'[k].history :
            \/ i \in DOMAIN task[k].history /\ task'[k].history[i] = task[k].history[i]
            \/ task'[k].history[i].run = d /\ task'[k].history[i].commit = task[k].commit
    BY <1>4, <1>5, <2>2, <2>3
  <2> QED BY <1>2, <1>3, <1>4, <1>7, <2>2, <2>4, <2>5, <2>6
<1>8. CASE ~(a.reviewerRun = d /\ ~Filed(d))
  <2>1. task'[k] = a
    BY <1>3, <1>4, <1>5, <1>8 DEF File, Filed
  <2>2. ReportsGrow(k) /\ (Filed(d)' <=> Filed(d))
    BY <1>4, <2>1 DEF ReportsGrow, Filed
  <2> QED BY <1>2, <1>3, <1>4, <1>8, <2>1, <2>2
<1> QED BY <1>7, <1>8

LEMMA FileReportReviews ==
  ASSUME RunsInv, ReviewInv, Spare, NEW t \in Busy, FileReport(t)
  PROVE  ReviewsKept
<1>k. Kept
  BY FileReportKept
<1>f. PICK f : f = Top(t)
  OBVIOUS
<1>g. PICK g : g = [f EXCEPT !.pc = "verdict"]
  OBVIOUS
<1> DEFINE d == f.run
           k == d.key
<1>1. /\ f \in Frame /\ Good(f) /\ f.pc = "report" /\ d \in Runs /\ d.role = "reviewer"
      /\ k \in PlanKeys /\ remote[d].says \in Verdicts /\ remote[d].feedback \in Feedbacks
      /\ UNCHANGED gitVars
  BY <1>f, TopFrame DEF FileReport, At, Top, Good, Known
<1>2. /\ UNCHANGED <<record, remote, queue, budget>>
      /\ \/ /\ RecordReviewReport(k, d, remote[d].says, remote[d].feedback)
            /\ thread' = Goto(t, g)
         \/ UNCHANGED storeVars /\ thread' = Return(t)
  BY <1>f, <1>g, TryCases DEF FileReport
<1>3. CASE UNCHANGED storeVars /\ thread' = Return(t)
  BY <1>k, <1>1, <1>2, <1>3, SpinReviews
<1>4. CASE /\ RecordReviewReport(k, d, remote[d].says, remote[d].feedback)
           /\ thread' = Goto(t, g)
  <2>1. g \in Frame /\ g.pc = "verdict" /\ g.run = d
    BY <1>1, <1>g, PcFrame DEF Calls
  <2>2. /\ UNCHANGED <<job, ci, failures, planned>>
        /\ \A j \in PlanKeys \ {k} : task'[j] = task[j]
        /\ ReportsGrow(k) /\ task'[k].status = task[k].status
        /\ task'[k].writerAttempts = task[k].writerAttempts
        /\ \/ task'[k].reviewerRun = task[k].reviewerRun
              /\ task'[k].reviewerAttempts = task[k].reviewerAttempts
              /\ ~(task[k].status = "reviewing" /\ task[k].reviewerRun # d
                   /\ task[k].reviewerAttempts < task[k].writerAttempts)
           \/ task[k].status = "reviewing" /\ task[k].reviewerRun # d
              /\ task[k].reviewerAttempts < task[k].writerAttempts /\ task'[k].reviewerRun = d
        /\ task'[k].reviewerRun = d => Filed(d)'
        /\ \A i \in DOMAIN task'[k].history :
              \/ i \in DOMAIN task[k].history /\ task'[k].history[i] = task[k].history[i]
              \/ /\ ~Filed(d)
                 /\ task'[k].history[i].run = d /\ task'[k].history[i].commit = task[k].commit
    <3> PICK says, feedback : says = remote[d].says /\ feedback = remote[d].feedback
      OBVIOUS
    <3>1. says \in Verdicts /\ feedback \in Feedbacks /\ RecordReviewReport(k, d, says, feedback)
      BY <1>1, <1>4
    <3> QED BY <1>1, <3>1, FiledCases
  <2>x. PICK extra : extra = {g}
    OBVIOUS
  <2>3. Follows(thread', extra)
    BY <1>4, <2>x, <2>1, GotoFollows DEF ReviewInv
  <2>4. CalledBy(extra) = {}
    BY <2>x, <2>1 DEF CalledBy
  <2>5. /\ UNCHANGED <<planned, record, remote, queue, tree, adopted>> /\ CreatedOn
        /\ adopted \subseteq adopted'
    BY <1>1, <1>2, <2>2 DEF gitVars, historyVars, CreatedOn
  <2>6. AskedOn({})
    BY <1>2, <2>3, <2>4, AskedSame
  <2>7. task'[k].commit = task[k].commit
    BY <2>2 DEF ReportsGrow
  <2>8. \A c \in Commits(k)' : c \in Commits(k)
    BY <2>2, <2>7 DEF Commits
  <2>9. \A c \in ReviewersOf(k) :
           /\ c \in Runs /\ c.role = "reviewer" /\ c.key = k
           /\ Filed(c) => Filed(c)'
           /\ Outdated(c) => Outdated(c)'
           /\ Failed(c)' <=> Failed(c)
           /\ Requested(c)' => Requested(c)
    <3> TAKE c \in ReviewersOf(k)
    <3>1. c \in Runs /\ c.role = "reviewer" /\ c.key = k
      BY DEF ReviewersOf
    <3>2. /\ Filed(c) => Filed(c)'
          /\ Outdated(c) => Outdated(c)'
          /\ Failed(c)' <=> Failed(c)
      BY <1>1, <1>2, <2>2, SettledStay
    <3>3. Requested(c)' => Requested(c)
      BY <2>6, <3>1 DEF AskedOn
    <3> QED BY <3>1, <3>2, <3>3
  <2>10. ASSUME k \notin adopted' PROVE ReviewsTrue(k)'
    <3>1. ReviewsTrue(k) /\ k \notin adopted
      BY <1>1, <2>5, <2>10 DEF ReviewInv
    <3>2. ReportsTrue(k)'
      <4> SUFFICES ASSUME NEW i \in DOMAIN task'[k].history, NEW e, e = task'[k].history[i].run
                   PROVE  /\ e \in Runs /\ remote'[e].status = "ended"
                          /\ task'[k].history[i].commit = remote'[e].saw
        BY DEF ReportsTrue
      <4>1. CASE i \in DOMAIN task[k].history /\ task'[k].history[i] = task[k].history[i]
        BY <2>5, <3>1, <4>1 DEF ReviewsTrue, ReportsTrue
      <4>2. CASE /\ ~Filed(d)
                 /\ task'[k].history[i].run = d /\ task'[k].history[i].commit = task[k].commit
        BY <1>1, <2>5, <3>1, <4>2, FirstReport
      <4> QED BY <2>2, <4>1, <4>2
    <3>3. ReadingsTrue(k)'
      BY <2>5, <2>7, <2>9, <3>1 DEF ReviewsTrue, ReadingsTrue, ReviewersOf
    <3>4. task'[k].status \in ToWork => ReviewsOver(k)'
      BY <2>2, <2>9, <3>1 DEF ReviewsTrue, ReviewsOver, ReviewersOf
    <3>5. task'[k].status = "reviewing" => task'[k].commit # NoSHA /\ OnePending(k)'
      <4> SUFFICES ASSUME task'[k].status = "reviewing" PROVE task'[k].commit # NoSHA /\ OnePending(k)'
        OBVIOUS
      <4>1. task[k].commit # NoSHA /\ OnePending(k)
        BY <2>2, <3>1 DEF ReviewsTrue
      <4>2. \A c \in ReviewersOf(k) : Pending(c)' => Pending(c)
        BY <2>9 DEF Pending
      <4>3. task'[k].reviewerRun = NoRun =>
               task[k].reviewerRun = NoRun /\ task'[k].reviewerAttempts = task[k].reviewerAttempts
        BY <1>1, <2>2, StoreAssumption
      <4>4. OnePending(k)'
        BY <4>1, <4>2, <4>3 DEF OnePending, ReviewersOf
      <4> QED BY <2>7, <4>1, <4>4
    <3>6. Approved(k)' => ApprovalTrue(k)'
      <4> SUFFICES ASSUME Approved(k)' PROVE ApprovalTrue(k)'
        OBVIOUS
      <4>1. Approved(k) /\ task'[k].reviewerRun = task[k].reviewerRun
        BY <2>2 DEF Approved
      <4> QED BY <2>5, <2>7, <3>1, <4>1 DEF ReviewsTrue, ApprovalTrue
    <3> QED BY <3>2, <3>3, <3>4, <3>5, <3>6 DEF ReviewsTrue
  <2>11. ASSUME k \notin adopted', NEW c \in Frames, c.run.key = k, Refusable(c) PROVE Refusable(c)'
    <3> SUFFICES ASSUME c.pc = "verdict", ~Filed(c.run)', task'[k].status = "reviewing"
                 PROVE  /\ task'[k].reviewerRun \notin {NoRun, c.run}
                        /\ ~(task'[k].reviewerAttempts < task'[k].writerAttempts)
      BY <2>11 DEF Refusable
    <3>1. c.run \in ReviewersOf(k)
      BY <2>11, VerdictAsked
    <3>2. ~Filed(c.run) /\ task[k].status = "reviewing" /\ k \notin adopted
      BY <2>2, <2>5, <2>9, <2>11, <3>1
    <3> QED BY <2>2, <2>11, <3>2 DEF Refusable
  <2>12. k \notin adopted => Refusable(g)'
    <3> SUFFICES ASSUME ~Filed(d)', task'[k].status = "reviewing"
                 PROVE  /\ task'[k].reviewerRun \notin {NoRun, d}
                        /\ ~(task'[k].reviewerAttempts < task'[k].writerAttempts)
      BY <2>1 DEF Refusable
    <3>1. task'[k].reviewerRun # d
      BY <2>2
    <3>2. /\ task'[k].reviewerRun = task[k].reviewerRun
          /\ task'[k].reviewerAttempts = task[k].reviewerAttempts
          /\ ~(task[k].reviewerAttempts < task[k].writerAttempts)
      BY <2>2, <3>1
    <3>3. task[k].reviewerRun # NoRun
      BY <1>1, <2>2, <3>2 DEF Spare
    <3> QED BY <2>2, <3>1, <3>2, <3>3
  <2>13. /\ \A c \in extra : Refusable(c)' /\ c.pc # "merge"
         /\ \A r \in CalledBy(extra) : r.key = k /\ (k \notin adopted => task'[k].commit # NoSHA)
         /\ task[k].commit # NoSHA => task'[k].commit # NoSHA
    BY <2>x, <2>1, <2>4, <2>5, <2>7, <2>12 DEF Refusable
  <2> QED BY <1>k, <1>1, <2>2, <2>3, <2>5, <2>8, <2>10, <2>11, <2>13, OneReview
<1> QED BY <1>2, <1>3, <1>4

LEMMA VerdictReviews ==
  ASSUME RunsInv, ReviewInv, Spare, NEW t \in Busy, Verdict(t)
  PROVE  ReviewsKept
<1>k. Kept
  BY VerdictKept
<1>f. PICK f : f = Top(t)
  OBVIOUS
<1> DEFINE d == f.run
           k == d.key
<1>g. PICK g : g = AfterVerdict(f, remote[d].says, task'[k])
  OBVIOUS
<1>1. /\ f \in Frame /\ Good(f) /\ f.pc = "verdict" /\ d \in Runs /\ d.role = "reviewer"
      /\ k \in PlanKeys /\ k \in Keys /\ remote[d].says \in Verdicts /\ d # NoRun
  BY <1>f, TopFrame, PlanKeysType, StoreAssumption DEF Verdict, At, Top, Good, Known, RunsInv
<1>2. /\ UNCHANGED <<record, remote, queue, budget, tree, merged>>
      /\ \/ RecordReview(k, d, remote[d].says) /\ thread' = Goto(t, g)
         \/ UNCHANGED storeVars /\ thread' = Return(t)
  BY <1>f, <1>g, TryCases DEF Verdict
<1>3. /\ adopted \subseteq adopted'
      /\ Misplaced(task'[k], d) => k \in adopted'
  BY <1>f DEF Verdict
<1>4. g.pc \in PlainPcs
  BY <1>1, <1>g, VerdictPlain
<1>5. HeadsOn
  BY <1>2, HeadsSame
<1>6. CASE UNCHANGED storeVars
  BY <1>k, <1>2, <1>3, <1>4, <1>5, <1>6, MovedReviews
<1>a. PICK a : a = Adopt(task[k], d)
  OBVIOUS
<1>o. PICK o : o = IF a.reviewerRun = NoRun THEN Own(a, d) ELSE a
  OBVIOUS
<1>s. PICK says, status : says = remote[d].says /\ status = ReviewedStatus(k, remote[d].says)
  OBVIOUS
<1>7. CASE /\ task[k].status = "reviewing"
           /\ o.reviewerRun = d
           /\ task' = [task EXCEPT ![k] = [o EXCEPT !.verdict = says, !.status = status]]
           /\ UNCHANGED <<job, ci, failures, planned>>
           /\ thread' = Goto(t, g)
  <2>1. task[k] \in Task /\ task \in [Keys -> Task] /\ PlanKeys \subseteq Keys
    BY <1>1, PlanKeysType DEF RunsInv, StoreTypeOK
  <2>2. /\ a \in Task /\ a.commit = task[k].commit /\ a.history = task[k].history
        /\ \/ a.reviewerRun = task[k].reviewerRun
              /\ ~(task[k].reviewerRun # d /\ task[k].reviewerAttempts < task[k].writerAttempts)
           \/ task[k].reviewerRun # d /\ task[k].reviewerAttempts < task[k].writerAttempts
              /\ a.reviewerRun = d
    BY <1>1, <1>7, <1>a, <2>1, AdoptCases
  <2>3. a.reviewerRun # NoRun
    BY <1>1, <1>7, <2>2 DEF Spare
  <2>4. o = a
    BY <1>o, <2>3
  <2>5. status \in {"approved", "changes_requested", "blocked", "integration_eligible"}
    BY <1>1, <1>s DEF ReviewedStatus, Verdicts
  <2>6. /\ task'[k] = [a EXCEPT !.verdict = says, !.status = status]
        /\ \A j \in PlanKeys \ {k} : task'[j] = task[j]
    BY <1>1, <1>7, <2>1, <2>4
  <2>7. /\ task'[k].commit = task[k].commit /\ task'[k].history = task[k].history
        /\ task'[k].status = status /\ task'[k].reviewerRun = d
    <3>1. a.reviewerRun = d /\ a \in Task
      BY <1>7, <2>2, <2>4
    <3>2. /\ task'[k].commit = a.commit /\ task'[k].history = a.history
          /\ task'[k].status = status /\ task'[k].reviewerRun = a.reviewerRun
      BY <2>6, <3>1 DEF Task
    <3> QED BY <2>2, <3>1, <3>2
  <2>8. Follows(thread', {})
    BY <1>k, <1>4, <1>7, WentFollows DEF Kept
  <2>9. AskedOn({})
    BY <1>2, <2>8, AskedSame, NobodyCalled
  <2>10. Commits(k)' = Commits(k)
    BY <2>7 DEF Commits
  <2>f. f \in Frames /\ Refusable(f)
    <3>1. thread \in [Threads -> Seq(Frame)] /\ t \in Threads /\ thread[t] # <<>>
      BY StacksTyped DEF Busy
    <3>2. 1 \in DOMAIN thread[t] /\ f = thread[t][1]
      BY <1>f, <3>1 DEF Top
    <3>3. f \in Frames
      BY <1>1 DEF Frames
    <3> QED BY <3>1, <3>2, <3>3 DEF ReviewInv, VerdictsRefusable
  <2>11. ASSUME k \notin adopted' PROVE ReviewsTrue(k)'
    <3>1. ReviewsTrue(k) /\ k \notin adopted /\ OnePending(k)
      BY <1>1, <1>3, <1>7, <2>11 DEF ReviewInv, ReviewsTrue
    <3>2. Filed(d)
      BY <1>1, <1>7, <2>2, <2>4, <2>f, <3>1 DEF Refusable
    <3>3. ~Misplaced(task'[k], d)
      BY <1>3, <2>11
    <3>4. \A i \in DOMAIN task[k].history :
             task[k].history[i].run = d => task[k].history[i].commit = task[k].commit
      BY <2>7, <3>3 DEF Misplaced
    <3>5. ~Outdated(d)
      BY <3>4 DEF Outdated
    <3>6. d \in ReviewersOf(k) /\ Pending(d) /\ remote[d].status = "ended"
      BY <1>1, <2>f, <3>5, VerdictAsked DEF Pending
    <3>7. remote[d].saw = task[k].commit
      <4>1. PICK i \in DOMAIN task[k].history : task[k].history[i].run = d
        BY <3>2 DEF Filed
      <4>2. task[k].history[i].commit = remote[d].saw
        BY <3>1, <4>1 DEF ReviewsTrue, ReportsTrue
      <4> QED BY <3>4, <4>1, <4>2
    <3>8. \A c \in ReviewersOf(k) :
             /\ c \in Runs /\ c.role = "reviewer" /\ c.key = k
             /\ Filed(c)' <=> Filed(c)
             /\ Failed(c)' <=> Failed(c)
             /\ Requested(c)' => Requested(c)
      BY <1>2, <2>7, <2>9 DEF ReviewersOf, AskedOn, Filed, Failed
    <3>9. ReviewsOver(k)'
      <4> SUFFICES ASSUME NEW c \in ReviewersOf(k), Requested(c)' PROVE Filed(c)' \/ Failed(c)'
        BY DEF ReviewsOver, ReviewersOf
      <4>1. CASE Pending(c)
        BY <3>1, <3>2, <3>6, <3>8, <4>1 DEF OnePending
      <4>2. CASE Outdated(c)
        BY <3>8, <4>2 DEF Outdated, Filed
      <4>3. CASE Failed(c)
        BY <3>8, <4>3
      <4> QED BY <3>8, <4>1, <4>2, <4>3 DEF Pending
    <3>10. ReportsTrue(k)'
      BY <1>2, <2>7, <3>1 DEF ReviewsTrue, ReportsTrue
    <3>11. ReadingsTrue(k)'
      BY <1>2, <2>7, <3>1, <3>8 DEF ReviewsTrue, ReadingsTrue, ReviewersOf
    <3>12. ApprovalTrue(k)'
      BY <1>1, <1>2, <2>7, <3>6, <3>7 DEF ApprovalTrue
    <3> QED BY <2>5, <2>7, <3>9, <3>10, <3>11, <3>12 DEF ReviewsTrue
  <2>12. \A c \in Frames : c.run.key = k /\ Refusable(c) => Refusable(c)'
    BY <2>5, <2>7 DEF Refusable
  <2>13. PICK extra : extra = {}
    OBVIOUS
  <2>14. /\ Follows(thread', extra) /\ \A c \in extra : Refusable(c)' /\ c.pc # "merge"
         /\ \A r \in CalledBy(extra) : r.key = k /\ (k \notin adopted => task'[k].commit # NoSHA)
         /\ task[k].commit # NoSHA => task'[k].commit # NoSHA
         /\ \A c \in Commits(k)' : c \in Commits(k)
         /\ UNCHANGED <<planned, record, remote, queue, tree>> /\ CreatedOn
    BY <1>2, <1>7, <2>7, <2>8, <2>10, <2>13, NobodyCalled DEF CreatedOn
  <2> QED BY <1>k, <1>1, <1>3, <2>6, <2>11, <2>12, <2>14, OneReview
<1> QED BY <1>2, <1>6, <1>7, <1>a, <1>o, <1>s DEF RecordReview

----------------------------------------------------------------------------
LEMMA InitReviews == Init => ReviewInv
<1> SUFFICES ASSUME Init PROVE ReviewInv
  OBVIOUS
<1>1. PlanKeys = {} /\ planned = 0
  BY DEF Init, Create, PlanKeys
<1>2. \A t \in Threads : thread[t] = <<>>
  BY DEF Init, DispatchInit
<1>3. remote = [d \in Runs |-> NoRemote] /\ record = [d \in Runs |-> "none"] /\ queue = {}
  BY DEF Init, DispatchInit
<1>4. CommitsKept /\ VerdictsRefusable
  BY <1>1, <1>2 DEF CommitsKept, VerdictsRefusable, At
<1>5. ASSUME NEW d \in Runs PROVE HasRead(d)
  <2>1. ~ReviewCalled(d)
    BY <1>2 DEF ReviewCalled
  <2>2. ~Requested(d)
    BY <1>3, <2>1 DEF Requested, NoRemote
  <2> QED BY <1>3, <2>2 DEF HasRead, NoRemote, Verdicts, NoSHA
<1> QED BY <1>1, <1>4, <1>5 DEF ReviewInv

LEMMA HandlerReviews ==
  ASSUME RunsInv, ReviewInv, Spare, [EndBeforeWork]_storeVars, NEW t \in Busy, HandlerStep(t)
  PROVE  ReviewsKept
<1>1. CASE (Observe(t) \/ Mark(t)) /\ UNCHANGED <<storeVars, gitVars, budget>>
  BY <1>1, ObserveReviews, MarkReviews
<1>2. CASE ApplyPlan(t) \/ ApplyWriter(t) \/ ApplyReview(t)
  BY <1>2, ApplyPlanReviews, ApplyWriterReviews, ApplyReviewReviews
<1>3. CASE Base(t) \/ StartWriterRun(t) \/ Work(t)
  BY <1>3, BaseReviews, StartWriterRunReviews, WorkReviews
<1>4. CASE Commit(t) \/ Complete(t) \/ NoChanges(t) \/ StartReviewerRun(t) \/ OwnReview(t)
  BY <1>4, CommitReviews, CompleteReviews, NoChangesReviews, StartReviewerRunReviews,
     OwnReviewReviews
<1>5. CASE FileReport(t) \/ Verdict(t) \/ Block(t)
  BY <1>5, FileReportReviews, VerdictReviews, BlockReviews
<1>6. CASE Integrate(t) \/ Begin(t) \/ Integrated(t) \/ AwaitCI(t)
  BY <1>6, IntegrateReviews, BeginReviews, IntegratedReviews, AwaitCIReviews
<1>7. CASE Reset(t)
  BY <1>7, ResetReviews
<1> QED BY <1>1, <1>2, <1>3, <1>4, <1>5, <1>6, <1>7 DEF HandlerStep

LEMMA NextReviews ==
  ASSUME RunsInv, ReviewInv, Spare, [EndBeforeWork]_storeVars, [Next]_vars
  PROVE  ReviewsKept
<1>1. CASE Plan \/ Resume
  BY <1>1, StartPlanReviews, ResumeReviews
<1>2. CASE \E t \in Busy : Step(t) \/ Fault(t)
  BY <1>2, HandlerReviews, MergeReviews, DraftReviews, FaultReviews DEF Step
<1>3. CASE \E k \in PlanKeys : Retry(k)
  BY <1>3, RetryReviews
<1>4. CASE StartupFault \/ Restart
  BY <1>4, StartupFaultReviews, RestartReviews
<1>5. CASE \E d \in Runs : AgentActs(d) \/ AgentEnds(d)
  BY <1>5, AgentActsReviews, AgentEndsReviews
<1>6. CASE UNCHANGED vars
  <2>1. UNCHANGED <<storeVars, record, remote, queue, thread, gitVars>>
    BY <1>6 DEF vars, dispatchVars, gitVars, historyVars
  <2>2. Kept
    BY NextKept
  <2>3. Follows(thread', {})
    BY <2>1, SameFollows DEF ReviewInv
  <2> QED BY <2>1, <2>2, <2>3, GitSame, StackReviews
<1> QED BY <1>1, <1>2, <1>3, <1>4, <1>5, <1>6 DEF Next

LEMMA LedgerSpares == Store!AttemptsLedger => Spare
BY DEF Store!AttemptsLedger, Store!Ledger, Store!PlanKeys, PlanKeys, Spare

\* If blocked tasks are put to work only when their reviews are over, the reviews of
\* a task take turns: one is open at a time, it has read the commit the task names,
\* and a verdict that comes late finds its report filed, or is refused.
THEOREM ReviewsInvariant == Spec /\ ReviewsEndFirst => []ReviewInv
<1>1. Spec => []Spare
  BY StoreGuarantees, LedgerSpares, PTL
<1>2. Init => ReviewInv
  BY InitReviews
<1>3. RunsInv /\ Spare /\ ReviewInv /\ [EndBeforeWork]_storeVars /\ [Next]_vars => ReviewInv'
  BY NextReviews DEF ReviewsKept
<1> QED BY <1>1, <1>2, <1>3, RunsInvariant, PTL DEF Spec, ReviewsEndFirst

LEMMA ReviewsTell ==
  ASSUME ReviewInv
  PROVE  ReportsNameTheirCommit /\ ApprovalIsOfThisCommit
<1>1. \A k \in PlanKeys \ adopted : ReportsTrue(k) /\ (Approved(k) => ApprovalTrue(k))
  BY DEF ReviewInv, ReviewsTrue
<1> QED BY <1>1 DEF ReportsTrue, ApprovalTrue, ReportsNameTheirCommit, ApprovalIsOfThisCommit

\* So every report in a review history names the commit its reviewer read, whatever
\* crashes, failing calls and repeated answers do between the reading and the filing:
\* what FileReport takes from the task is what the agent had before it.
THEOREM ReportsNameWhatWasRead == Spec /\ ReviewsEndFirst => []ReportsNameTheirCommit
<1>1. ReviewInv => ReportsNameTheirCommit
  BY ReviewsTell
<1> QED BY <1>1, ReviewsInvariant, PTL

\* And an approved task names a reviewer that read the very commit recorded with it,
\* until it is integrated.
THEOREM ApprovalsAreOfWhatWasRead == Spec /\ ReviewsEndFirst => []ApprovalIsOfThisCommit
<1>1. ReviewInv => ApprovalIsOfThisCommit
  BY ReviewsTell
<1> QED BY <1>1, ReviewsInvariant, PTL

----------------------------------------------------------------------------
(* What is merged.  A merge takes the head of the task branch, whatever that is. *)
(* It is what a reviewer approved, because a review begins on the head and the   *)
(* branch stands still until what was approved is merged.                        *)

\* A reviewer of task k has approved the head of its branch.
ReadHead(k) ==
    \E d \in Runs : /\ d.role = "reviewer" /\ d.key = k
                   /\ remote[d].says = "approved" /\ remote[d].saw = tree[k].head

\* The record names the head of the branch from the beginning of a review to the
\* merge, and a merge that is still to come has the approval of it.
HeadInv ==
    /\ \A k \in PlanKeys : InReview(k) => tree[k].head = task[k].commit
    /\ \A k \in PlanKeys \ adopted : MergeCalled(k) => ReadHead(k)
    /\ MergedIsReviewed

\* A task is merged by the call for it, and an adopted review is not forgotten.
MergedOn ==
    /\ adopted \subseteq adopted'
    /\ \A k \in Keys : \/ merged'[k] = merged[k]
                       \/ MergeCalled(k) /\ merged'[k] = tree[k].head

LEMMA TopMerges ==
  ASSUME NEW t \in Busy, At(t, "merge"), thread \in [Threads -> Seq(Frames)]
  PROVE  MergeCalled(Top(t).item.key)
<1>1. /\ t \in Threads /\ 1 \in DOMAIN thread[t] /\ thread[t][1] = Top(t)
      /\ thread[t][1].pc = "merge"
  BY DEF Busy, At, Top
<1> QED BY <1>1 DEF MergeCalled

LEMMA NextMerges ==
  ASSUME RunsInv, [Next]_vars
  PROVE  MergedOn
<1>u. UNCHANGED historyVars => MergedOn
  BY DEF MergedOn, historyVars
<1>g. UNCHANGED gitVars => MergedOn
  BY <1>u DEF gitVars
<1>1. CASE \E t \in Busy : Merge(t)
  <2>1. PICK t \in Busy : Merge(t)
    BY <1>1
  <2>2. MergeCalled(Top(t).item.key)
    BY <2>1, TopMerges DEF Merge, RunsInv
  <2>3. /\ adopted' = adopted
        /\ merged' = [merged EXCEPT ![Top(t).item.key] = tree[Top(t).item.key].head]
    BY <2>1 DEF Merge
  <2>4. merged \in [Keys -> SHAs \union {NoSHA}]
    BY DEF RunsInv, GitKept
  <2> QED BY <2>2, <2>3, <2>4 DEF MergedOn
<1>2. CASE \E t \in Busy : HandlerStep(t)
  <2>1. PICK t \in Busy : HandlerStep(t)
    BY <1>2
  <2>2. CASE Verdict(t)
    <3>1. merged' = merged /\ adopted \subseteq adopted'
      BY <2>2 DEF Verdict
    <3> QED BY <3>1 DEF MergedOn
  <2>3. UNCHANGED historyVars \/ UNCHANGED gitVars \/ Verdict(t)
    BY <2>1 DEF HandlerStep, ApplyPlan, ApplyWriter, ApplyReview, Base, StartWriterRun, Work,
       Commit, Complete, NoChanges, StartReviewerRun, OwnReview, FileReport, Block,
       Integrate, Begin, Integrated, AwaitCI, Reset
  <2> QED BY <1>u, <1>g, <2>2, <2>3
<1>3. CASE \E t \in Busy : Draft(t) \/ Fault(t)
  <2>1. UNCHANGED gitVars
    BY <1>3 DEF Draft, Fault
  <2> QED BY <1>g, <2>1
<1>4. CASE \/ Plan \/ Resume \/ StartupFault \/ Restart
           \/ \E k \in PlanKeys : Retry(k)
           \/ \E d \in Runs : AgentActs(d) \/ AgentEnds(d)
  <2>1. UNCHANGED gitVars \/ UNCHANGED historyVars
    BY <1>4 DEF Plan, Resume, StartupFault, Restart, Retry, AgentActs, AgentEnds
  <2> QED BY <1>u, <1>g, <2>1
<1>5. CASE UNCHANGED vars
  BY <1>5, <1>g DEF vars, gitVars, historyVars
<1> QED BY <1>1, <1>2, <1>3, <1>4, <1>5 DEF Next, Step

LEMMA StandSame ==
  ASSUME [\A k \in PlanKeys : HeadStands(k)]_<<task, tree>>, NEW k \in PlanKeys
  PROVE  /\ InReview(k) \/ MergeCalled(k) => tree'[k].head = tree[k].head
         /\ task[k].status # "reviewing" /\ task'[k].status = "reviewing" =>
               task'[k].commit = tree'[k].head
BY DEF HeadStands

\* An eligible task has the approval of its head.
LEMMA EligibleRead ==
  ASSUME RunsInv, ReviewInv, HeadInv, NEW k \in PlanKeys \ adopted,
         task[k].status = "integration_eligible"
  PROVE  ReadHead(k)
<1>1. Approved(k) /\ InReview(k)
  BY DEF Approved, InReview
<1>2. ApprovalTrue(k)
  BY <1>1 DEF ReviewInv, ReviewsTrue
<1>3. Sane(task[k]) /\ Evidence(k)
  BY DEF RunsInv, StoreInv
<1>4. task[k].verdict = "approved"
  BY <1>3 DEF Sane, ApprovedStatuses
<1>5. PICK d : d = task[k].reviewerRun
  OBVIOUS
<1>6. d \in Runs /\ d.role = "reviewer" /\ d.key = k /\ remote[d].says = "approved"
  BY <1>3, <1>4, <1>5 DEF Evidence
<1>7. remote[d].saw = task[k].commit /\ tree[k].head = task[k].commit
  BY <1>1, <1>2, <1>5 DEF ApprovalTrue, HeadInv
<1> QED BY <1>6, <1>7 DEF ReadHead

LEMMA ReadHeadStays ==
  ASSUME RunsInv, RunsOn, NEW k, ReadHead(k), tree'[k].head = tree[k].head
  PROVE  ReadHead(k)'
<1>1. PICK d \in Runs : /\ d.role = "reviewer" /\ d.key = k
                        /\ remote[d].says = "approved" /\ remote[d].saw = tree[k].head
  BY DEF ReadHead
<1>2. remote'[d] = remote[d]
  BY <1>1 DEF RunsInv, RunsKept, RunsOn
<1> QED BY <1>1, <1>2 DEF ReadHead

LEMMA CallPlanned ==
  ASSUME RunsInv, NEW k, MergeCalled(k)
  PROVE  k \in PlanKeys
<1>1. PICK t \in Threads : \E i \in DOMAIN thread[t] :
         thread[t][i].pc = "merge" /\ thread[t][i].item.key = k
  BY DEF MergeCalled
<1>2. PICK i \in DOMAIN thread[t] : thread[t][i].pc = "merge" /\ thread[t][i].item.key = k
  BY <1>1
<1>3. thread[t][i] \in Frames
  BY <1>2 DEF RunsInv
<1> QED BY <1>2, <1>3 DEF Frames, Good

LEMMA NextHeads ==
  ASSUME RunsInv, ReviewInv, HeadInv, Kept, MergesOn, MergedOn,
         [\A k \in PlanKeys : HeadStands(k)]_<<task, tree>>
  PROVE  HeadInv'
<1>1. RunsInv' /\ RunsOn /\ [Store!Next]_storeVars /\ StoreTypeOK
  BY DEF Kept, RunsInv
<1>2. ASSUME NEW k \in PlanKeys', InReview(k)' PROVE tree'[k].head = task'[k].commit
  <2>1. task'[k].status \in ApprovedStatuses \union {"reviewing"}
    BY <1>2 DEF InReview, Approved, ApprovedStatuses
  <2>2. /\ k \in PlanKeys
        /\ \/ /\ task[k].status \in ApprovedStatuses \union {"reviewing"}
              /\ task'[k].commit = task[k].commit
           \/ task[k].status # "reviewing" /\ task'[k].status = "reviewing"
    BY <1>1, <2>1, CommitsPinned
  <2>3. CASE task[k].status # "reviewing" /\ task'[k].status = "reviewing"
    BY <2>2, <2>3, StandSame
  <2>4. CASE /\ task[k].status \in ApprovedStatuses \union {"reviewing"}
             /\ task'[k].commit = task[k].commit
    <3>1. InReview(k)
      BY <2>4 DEF InReview, Approved, ApprovedStatuses
    <3>2. tree'[k].head = tree[k].head /\ tree[k].head = task[k].commit
      BY <2>2, <3>1, StandSame DEF HeadInv
    <3> QED BY <2>4, <3>2
  <2> QED BY <2>2, <2>3, <2>4
<1>3. ASSUME NEW k \in PlanKeys' \ adopted', MergeCalled(k)' PROVE ReadHead(k)'
  <2>1. PICK t \in Threads : \E i \in DOMAIN thread'[t] :
           thread'[t][i].pc = "merge" /\ thread'[t][i].item.key = k
    BY <1>3 DEF MergeCalled
  <2>2. PICK i \in DOMAIN thread'[t] : thread'[t][i].pc = "merge" /\ thread'[t][i].item.key = k
    BY <2>1
  <2>3. k \notin adopted
    BY DEF MergedOn
  <2>4. CASE Mergeable(thread'[t][i])
    <3>1. k \in PlanKeys /\ task[k].status = "integration_eligible"
      BY <2>2, <2>4 DEF Mergeable
    <3>2. ReadHead(k) /\ InReview(k)
      BY <2>3, <3>1, EligibleRead DEF InReview, Approved
    <3>3. tree'[k].head = tree[k].head
      BY <3>1, <3>2, StandSame
    <3> QED BY <1>1, <3>2, <3>3, ReadHeadStays
  <2>5. CASE \E j \in DOMAIN thread[t] : thread'[t][i] = thread[t][j]
    <3>1. MergeCalled(k)
      BY <2>2, <2>5 DEF MergeCalled
    <3>2. k \in PlanKeys
      BY <3>1, CallPlanned
    <3>3. ReadHead(k) /\ tree'[k].head = tree[k].head
      BY <2>3, <3>1, <3>2, StandSame DEF HeadInv
    <3> QED BY <1>1, <3>3, ReadHeadStays
  <2> QED BY <2>2, <2>4, <2>5 DEF MergesOn
<1>4. ASSUME NEW k \in PlanKeys' \ adopted', merged'[k] # NoSHA
      PROVE  \E d \in Runs : /\ d.role = "reviewer" /\ d.key = k
                              /\ remote'[d].says = "approved"
                              /\ remote'[d].saw = merged'[k]
  <2>1. k \in Keys /\ k \notin adopted
    <3>1. planned' \in 0..MaxTasks /\ adopted \subseteq adopted'
      BY <1>1 DEF RunsInv, StoreTypeOK, MergedOn
    <3> QED BY <3>1, StoreAssumption DEF PlanKeys, Keys
  <2>2. PICK d \in Runs : /\ d.role = "reviewer" /\ d.key = k
                          /\ remote[d].says = "approved" /\ remote[d].saw = merged'[k]
    <3>1. CASE merged'[k] = merged[k]
      <4>1. k \in PlanKeys
        BY <1>4, <2>1, <3>1 DEF RunsInv, GitKept
      <4> QED BY <1>4, <2>1, <3>1, <4>1 DEF HeadInv, MergedIsReviewed
    <3>2. CASE MergeCalled(k) /\ merged'[k] = tree[k].head
      <4>1. k \in PlanKeys
        BY <3>2, CallPlanned
      <4>2. ReadHead(k)
        BY <2>1, <3>2, <4>1 DEF HeadInv
      <4> QED BY <3>2, <4>2 DEF ReadHead
    <3> QED BY <2>1, <3>1, <3>2 DEF MergedOn
  <2>3. remote'[d] = remote[d]
    BY <1>1, <2>2 DEF RunsInv, RunsKept, RunsOn
  <2> QED BY <2>2, <2>3
<1>5. MergedIsReviewed'
  BY <1>4 DEF MergedIsReviewed
<1> QED BY <1>2, <1>3, <1>5 DEF HeadInv

LEMMA InitHeads == Init => HeadInv
<1> SUFFICES ASSUME Init PROVE HeadInv
  OBVIOUS
<1>1. PlanKeys = {}
  BY DEF Init, Create, PlanKeys
<1> QED BY <1>1 DEF HeadInv, MergedIsReviewed

\* If moreover a review is left alone in the branch as well, the record, the branch and
\* the approval agree from the beginning of the review to the merge.
THEOREM HeadsInvariant == Spec /\ ReviewsStand => []HeadInv
<1>1. Spec => []Spare
  BY StoreGuarantees, LedgerSpares, PTL
<1>2. Init => HeadInv
  BY InitHeads
<1>3. /\ RunsInv /\ Spare /\ ReviewInv /\ HeadInv /\ [Next]_vars
      /\ [EndBeforeWork]_storeVars /\ [\A k \in PlanKeys : HeadStands(k)]_<<task, tree>>
      => HeadInv'
  <2> SUFFICES ASSUME RunsInv, Spare, ReviewInv, HeadInv, [Next]_vars, [EndBeforeWork]_storeVars,
                      [\A k \in PlanKeys : HeadStands(k)]_<<task, tree>>
               PROVE  HeadInv'
    OBVIOUS
  <2>1. Kept
    BY NextKept
  <2>2. MergesOn
    BY NextReviews DEF ReviewsKept
  <2>3. MergedOn
    BY NextMerges
  <2> QED BY <2>1, <2>2, <2>3, NextHeads
<1> QED BY <1>1, <1>2, <1>3, RunsInvariant, ReviewsInvariant, PTL
        DEF Spec, ReviewsStand, ReviewsEndFirst, HeadsStand

\* So the head MergeTask takes is a commit a reviewer of that task had before it when it
\* answered "approved", although no call compares the two: in plans of any size, with
\* crashes, repeated applications, failing calls and retries in any number.
THEOREM OnlyApprovedHeadsMerge == Spec /\ ReviewsStand => []MergedIsReviewed
<1>1. HeadInv => MergedIsReviewed
  BY DEF HeadInv
<1> QED BY <1>1, HeadsInvariant, PTL
=============================================================================
