----------------------------- MODULE Dispatcher -----------------------------
(***************************************************************************)
(* Agent runs: internal/dispatcher starts them on AgentFoundry, watches    *)
(* them, and applies their terminal responses; internal/dispatchstore      *)
(* keeps one record per dispatch.                                          *)
(*                                                                         *)
(* A dispatch is named by its TaskID, and AgentFoundry has at most one run *)
(* for it, so the dispatch also stands for its run ID.  Every Start* call  *)
(* of cmd/opendev goes to a Dispatcher of its own (withRoleServers), whose *)
(* watching map is empty: a run may have several watchers.                 *)
(*                                                                         *)
(* A goroutine is its call stack, innermost call first.  What the calls of *)
(* a handler do is the business of the modules that extend this one.       *)
(***************************************************************************)
EXTENDS PipelineStore, FiniteSets

CONSTANTS
    Slots    \* bound: watchers of one run at a time, 1..n

VARIABLES
    record,  \* the dispatch store
    remote,  \* AgentFoundry's run for each dispatch
    thread,  \* the call stack of every goroutine
    queue    \* what Reconcile has listed and not yet visited

dispatchVars == <<record, remote, thread, queue>>

Planner == [role |-> "planner", key |-> 0, attempt |-> 1]
\* There is one holistic review of a job: its attempt is always 1.
Holistic == [role |-> "holistic", key |-> 0, attempt |-> 1]
Writer(k, n) == [role |-> "writer", key |-> k, attempt |-> n]
Reviewer(k, n) == [role |-> "reviewer", key |-> k, attempt |-> n]

Dispatches ==
    {Planner, Holistic} \union [role: {"reviewer", "writer"}, key: Keys, attempt: 1..MaxAttempts]

ASSUME RunsAssumption == Runs = Dispatches /\ Slots \subseteq Nat

Startup == <<NoRun, 1>>
Operator == <<NoRun, 2>>
Threads == (Runs \X Slots) \union {Startup, Operator}

\* What agents answer.  A failed or cancelled run counts as "failed", and
\* so does a writer that answers "blocked": the handler does the same with both.
Answers == {"plan", "changes", "no_changes", "failed"} \union Verdicts

\* DispatchRun.Status, with the terminal statuses told apart by OutcomeApplied,
\* and applied results by the note Supersede leaves in DispatchRun.Error.
Records == {"none", "starting", "running", "ended", "applied", "superseded"}

\* A run that has "acted" has edited its worktree, or read the diff it reviews.
Remote == [status: {"absent", "running", "acted", "ended"},
           says: Answers \union {"nothing"}, feedback: Feedbacks \union {"none"},
           saw: SHAs \union {NoSHA}]

NoRemote == [status |-> "absent", says |-> "nothing", feedback |-> "none", saw |-> NoSHA]

\* A snapshot of what startWriter needs of a task.
Item == [key: Keys \union {0}, attempt: Nat, based: BOOLEAN]

NoItem == [key |-> 0, attempt |-> 0, based |-> FALSE]

\* The calls a goroutine may be about to make: the dispatcher's, those of the
\* handlers of module TaskRuns and those of module Publication.
Calls ==
    {"poll", "apply", "mark"} \union
    {"base", "writer", "work", "tree", "complete", "nochanges", "review", "own",
     "report", "verdict", "block", "integrate", "begin", "merge", "merged",
     "draft", "ci", "retry"} \union
    {"create", "record", "get", "checks", "remediate", "startreview", "ownreview",
     "jobverdict", "fail", "publish", "open", "opened", "gate", "gatechecks",
     "mergepr", "recordmerge", "rereview"}

\* todo: the writers still to start, in plan order.
Frame == [pc: Calls, run: Runs \union {NoRun}, item: Item, todo: SUBSET Item,
          publish: {"no", "new", "known"}, sha: SHAs \union {NoSHA}]

Call(pc, run) == [pc |-> pc, run |-> run, item |-> NoItem, todo |-> {},
                  publish |-> "no", sha |-> NoSHA]

DispatchTypeOK ==
    /\ record \in [Runs -> Records]
    /\ remote \in [Runs -> Remote]
    /\ DOMAIN thread = Threads
    /\ \A t \in Threads : \A i \in DOMAIN thread[t] : thread[t][i] \in Frame
    /\ queue \subseteq [run: Runs, status: {"starting", "running", "ended"}]

DispatchInit ==
    /\ record = [d \in Runs |-> "none"]
    /\ remote = [d \in Runs |-> NoRemote]
    /\ thread = [t \in Threads |-> <<>>]
    /\ queue = {}

----------------------------------------------------------------------------
(* Call stacks. *)

At(t, pc) == thread[t] # <<>> /\ Head(thread[t]).pc = pc

Top(t) == Head(thread[t])

Goto(t, call) == [thread EXCEPT ![t] = <<call>> \o Tail(@)]

Return(t) == [thread EXCEPT ![t] = Tail(@)]

\* A new goroutine watches d.  Past the bound it is not modelled.
Watch(threads, d) ==
    LET free == {s \in Slots : threads[<<d, s>>] = <<>>}
    IN IF free = {} THEN threads
       ELSE [threads EXCEPT ![<<d, CHOOSE s \in free : \A r \in free : s <= r>>] =
               <<Call("poll", d)>>]

----------------------------------------------------------------------------
(* Starting a run. *)

Saved(d, status) == record' = [record EXCEPT ![d] = status]

\* Goroutine t launches d, after which the goroutines are as in next.  A run
\* AgentFoundry already has is adopted, and applied at once if it has ended.
Launch(t, d, next) ==
    \/ /\ remote[d].status = "absent"
       /\ remote' = [remote EXCEPT ![d].status = "running"]
       /\ Saved(d, "running")
       /\ thread' = Watch(next, d)
    \/ /\ remote[d].status \in {"running", "acted"}
       /\ Saved(d, "running")
       /\ thread' = Watch(next, d)
       /\ UNCHANGED remote
    \/ /\ remote[d].status = "ended"
       /\ Saved(d, "ended")
       /\ thread' = [next EXCEPT ![t] = <<Call("apply", d)>> \o @]
       /\ UNCHANGED remote

Start(t, d, next) ==
    /\ d \in Runs
    /\ \/ /\ record[d] \in {"none", "starting"}
          /\ Launch(t, d, next)
       \/ /\ record[d] \in {"running", "ended"}
          /\ thread' = Watch(next, d)
          /\ UNCHANGED <<record, remote>>
       \/ /\ record[d] \in {"applied", "superseded"}
          /\ thread' = next
          /\ UNCHANGED <<record, remote>>
    /\ UNCHANGED queue

\* The intent is on disk and the launch fails.  AgentFoundry may have accepted
\* a submission whose answer never arrived.
LaunchFails(d, next) ==
    /\ d \in Runs
    /\ record[d] \in {"none", "starting"}
    /\ Saved(d, "starting")
    /\ \/ UNCHANGED remote
       \/ /\ remote[d].status = "absent"
          /\ remote' = [remote EXCEPT ![d].status = "running"]
    /\ thread' = next
    /\ UNCHANGED queue

----------------------------------------------------------------------------
(* Watching and applying. *)

\* The watcher's copy of the record overwrites the stored one.
Observe(t) ==
    /\ At(t, "poll")
    /\ LET d == Top(t).run
       IN /\ remote[d].status = "ended"
          /\ Saved(d, "ended")
          /\ thread' = Goto(t, Call("apply", d))
    /\ UNCHANGED <<remote, queue>>

Mark(t) ==
    /\ At(t, "mark")
    /\ IF t = Operator \/ Top(t).run = NoRun THEN UNCHANGED record ELSE Saved(Top(t).run, "applied")
    /\ thread' = Return(t)
    /\ UNCHANGED <<remote, queue>>

\* Broken variant: any dispatch may be superseded, one whose agent works too.
SupersedeAny(d) ==
    /\ d \in Runs
    /\ record[d] # "none"
    /\ Saved(d, "superseded")

Supersede(d) ==
    /\ d \in Runs
    /\ record[d] = "ended"
    /\ Saved(d, "superseded")

----------------------------------------------------------------------------
(* Restart. *)

Rank == [holistic |-> 0, planner |-> 1, reviewer |-> 2, writer |-> 3]

\* The order of task IDs, read as strings.
Before(c, d) ==
    \/ Rank[c.role] < Rank[d.role]
    \/ c.role = d.role /\ c.key < d.key
    \/ c.role = d.role /\ c.key = d.key /\ c.attempt < d.attempt

\* Broken variant: a response that has arrived is taken for an applied one.
UnappliedRunning == {d \in Runs : record[d] \in {"starting", "running"}}

Unapplied == {d \in Runs : record[d] \in {"starting", "running", "ended"}}

\* The process stops; the next one lists the unapplied dispatches.
Crash ==
    /\ thread' = [t \in Threads |-> <<>>]
    /\ queue' = {[run |-> d, status |-> record[d]] : d \in Unapplied}
    /\ UNCHANGED <<record, remote>>

\* The first entry of the list.
First(e) == e \in queue /\ \A c \in queue \ {e} : Before(e.run, c.run)

\* Reconcile visits the next listed dispatch, as it was when it was listed.
Visit(e) ==
    /\ First(e)
    /\ queue' = queue \ {e}
    /\ \/ e.status = "starting" /\ Launch(Startup, e.run, thread)
       \/ /\ e.status = "running"
          /\ thread' = Watch(thread, e.run)
          /\ UNCHANGED <<record, remote>>
       \/ /\ e.status = "ended"
          /\ thread' = [thread EXCEPT ![Startup] = <<Call("apply", e.run)>>]
          /\ UNCHANGED <<record, remote>>

Reconcile == thread[Startup] = <<>> /\ \E e \in queue : Visit(e)

\* A launch that fails here is logged, and the intent stays.
ReconcileFails ==
    /\ thread[Startup] = <<>>
    /\ \E e \in queue :
          /\ First(e) /\ e.status = "starting"
          /\ queue' = queue \ {e}
          /\ \/ UNCHANGED remote
             \/ /\ remote[e.run].status = "absent"
                /\ remote' = [remote EXCEPT ![e.run].status = "running"]
    /\ UNCHANGED <<record, thread>>

----------------------------------------------------------------------------
(* AgentFoundry and its agents, which this repository does not contain. *)

\* A running writer edits the worktree of its task, a running reviewer reads
\* the commit under review (get_task_diff).
Acts(d, commit) ==
    /\ remote[d].status = "running"
    /\ remote' = [remote EXCEPT ![d].status = "acted", ![d].saw = commit]

Ends(d, says, feedback) ==
    /\ remote[d].status \in {"running", "acted"}
    /\ remote' = [remote EXCEPT ![d].status = "ended", ![d].says = says,
                                ![d].feedback = feedback]
    /\ UNCHANGED <<record, thread, queue>>
=============================================================================
