------------------------------ MODULE Planning ------------------------------
(***************************************************************************)
(* From a created job to its Planner: start_planning (jobmcp/server.go),   *)
(* ResumeFoundationPlanning (jobmcp/foundation.go), which the ticker of    *)
(* cmd/opendev calls, and under both EnsureFoundation (repositories), with *)
(* the repository catalog, the foundation branch and its pull request.     *)
(*                                                                         *)
(* Calls run concurrently; no lock is held from one of their steps to the  *)
(* next.  A catalog entry is its Foundation: none, one that is not ready   *)
(* ("pending" and "blocked" are told apart by nobody), or ready.           *)
(***************************************************************************)
EXTENDS Naturals, Sequences, SequencesExt

CONSTANTS
    Repos,
    Newest,      \* the jobs, in the order of Store.List
    Calls,       \* bound: start_planning calls under way at a time
    Ticker,
    NoJob,
    Mixes        \* bound: the repository of each job, who calls for which job, how many calls
                 \* fail, heads move and repositories vanish (faults), how often the process restarts

Jobs == ToSet(Newest)
Procs == Calls \union {Ticker}

ASSUME PlanningAssumption ==
    /\ Ticker \notin Calls /\ NoJob \notin Jobs
    /\ Mixes \subseteq [home: [Jobs -> Repos], calls: SUBSET (Calls \X Jobs),
                     faults: Nat, crashes: Nat]

VARIABLES
    mix,         \* which of Mixes it is
    job,         \* the store's jobs in memory ...
    disk,        \* ... and in its file
    planner,     \* jobs with a recorded dispatch of their Planner
    catalog,     \* what the catalog knows of each repository's foundation
    branch,      \* the foundation branch
    pr, checks,  \* its pull request, and the CI of its head
    gone,        \* repositories that GitHub does not have any more
    refused,     \* repositories whose CI was found to have failed
    proc,        \* the calls
    queue,       \* what the ticker has left of its snapshot of held jobs, which it visits
                 \* in their order
    faults, crashes

vars == <<mix, job, disk, planner, catalog, branch, pr, checks, gone, refused, proc, queue,
          faults, crashes>>

home == mix.home    \* Job.Repository
jobs == <<job, disk, planner>>
github == <<branch, pr, checks, gone>>
counters == <<faults, crashes>>

Job == [status: {"created", "planning"}, held: BOOLEAN]
Foundations == {"none", "pending", "ready"}
Points == {"idle", "lookup", "lookup save", "ensure", "ensure save", "commit", "push", "create",
           "record", "hold", "check", "checks", "block", "merge", "sync", "sync save", "ready",
           "plan", "start"}
Remote == {"lookup", "ensure", "sync", "push", "create", "check", "checks", "merge"}
Idle == [at |-> "idle", job |-> NoJob, seen |-> "none"]

PlanningTypeOK ==
    /\ mix \in Mixes
    /\ job \in [Jobs -> Job] /\ disk \in [Jobs -> Job] /\ planner \subseteq Jobs
    /\ \A j \in Jobs : job[j].held => job[j].status = "created"
    /\ catalog \in [Repos -> Foundations]
    /\ branch \in [Repos -> {"none", "committed", "pushed"}]
    /\ pr \in [Repos -> {"none", "open", "merged"}]
    /\ checks \in [Repos -> {"pending", "passed", "failed"}]
    /\ gone \subseteq Repos /\ refused \subseteq Repos
    /\ proc \in [Procs -> [at: Points, job: Jobs \union {NoJob}, seen: Foundations]]
    /\ queue \subseteq Jobs
    /\ faults \in 0..mix.faults /\ crashes \in 0..mix.crashes

Init ==
    /\ mix \in Mixes
    /\ job = [j \in Jobs |-> [status |-> "created", held |-> FALSE]] /\ disk = job
    /\ planner = {} /\ gone = {} /\ refused = {}
    /\ catalog = [r \in Repos |-> "none"] /\ branch = [r \in Repos |-> "none"]
    /\ pr = [r \in Repos |-> "none"] /\ checks = [r \in Repos |-> "pending"]
    /\ proc = [p \in Procs |-> Idle] /\ queue = {}
    /\ faults = 0 /\ crashes = 0

----------------------------------------------------------------------------
(* Control. *)

At(p, point) == proc[p].at = point
Repo(p) == home[proc[p].job]

Goto(p, point) == proc' = [proc EXCEPT ![p].at = point] /\ UNCHANGED queue

\* The call returns an error; the ticker's loop ends with it.
Abort(p) ==
    /\ proc' = [proc EXCEPT ![p] = Idle]
    /\ queue' = IF p = Ticker THEN {} ELSE queue

\* The call is done; the ticker goes on to the next job.
Done(p) == proc' = [proc EXCEPT ![p] = Idle] /\ UNCHANGED queue

Fault == faults < mix.faults /\ faults' = faults + 1 /\ UNCHANGED crashes

\* The tool is called.
Call(c, j) ==
    /\ <<c, j>> \in mix.calls /\ At(c, "idle")
    /\ proc' = [proc EXCEPT ![c] = [Idle EXCEPT !.at = "lookup", !.job = j]]
    /\ UNCHANGED <<mix, jobs, catalog, github, refused, queue, counters>>

\* Every 30 s, once the round before is over.
Tick ==
    /\ At(Ticker, "idle") /\ queue = {}
    /\ queue' = {j \in Jobs : job[j].held}
    /\ queue' # {}
    /\ UNCHANGED <<mix, jobs, catalog, github, refused, proc, counters>>

TakeNext ==
    /\ At(Ticker, "idle")
    /\ \E i \in DOMAIN Newest :
          /\ Newest[i] \in queue
          /\ \A k \in DOMAIN Newest : k < i => Newest[k] \notin queue
          /\ proc' = [proc EXCEPT ![Ticker] = [Idle EXCEPT !.at = "ensure", !.job = Newest[i]]]
          /\ queue' = queue \ {Newest[i]}
    /\ UNCHANGED <<mix, jobs, catalog, github, refused, counters>>

----------------------------------------------------------------------------
(* Repository and catalog. *)

Saving == [lookup |-> "lookup save", ensure |-> "ensure save", sync |-> "sync save"]

\* GetRepository, SyncRepo and the first half of Refresh, which reads the foundation
\* known so far.
Read(p) ==
    /\ proc[p].at \in {"lookup", "ensure", "sync"} /\ Repo(p) \notin gone
    /\ proc' = [proc EXCEPT ![p].at = Saving[@], ![p].seen = catalog[Repo(p)]]
    /\ UNCHANGED <<mix, jobs, catalog, github, refused, queue, counters>>

\* Broken variant: an entry without a foundation replaces one that has it.
Replaced(r, f) == [catalog EXCEPT ![r] = f]

\* Catalog.Save: an entry without a foundation keeps the one that is there.
Kept(r, f) == [catalog EXCEPT ![r] = IF f = "none" THEN @ ELSE f]

\* The second half of Refresh, and what EnsureFoundation makes of the entry.
Refresh(p) ==
    LET entry == Kept(Repo(p), proc[p].seen)
        after == CASE At(p, "lookup save") -> "ensure"
                   [] At(p, "sync save") -> "ready"
                   [] OTHER -> CASE entry[Repo(p)] = "ready" -> "plan"
                                 [] entry[Repo(p)] = "pending" -> "check"
                                 [] OTHER -> "commit"
    IN /\ proc[p].at \in {"lookup save", "ensure save", "sync save"}
       /\ catalog' = entry
       /\ Goto(p, after)
       /\ UNCHANGED <<mix, jobs, github, refused, counters>>

\* reconcileFoundation marks the merged foundation ready.
Ready(p) ==
    /\ At(p, "ready")
    /\ catalog' = Kept(Repo(p), "ready")
    /\ Goto(p, "plan")
    /\ UNCHANGED <<mix, jobs, github, refused, counters>>

----------------------------------------------------------------------------
(* CreateFoundationBranch, the pull request, and its record. *)

\* Broken variant: a commit of nothing is made.
NothingToCommitIgnored(p) == FALSE

\* git commit fails when the worktree already holds the foundation.
NothingToCommit(p) == branch[Repo(p)] # "none"

Commit(p) ==
    /\ At(p, "commit")
    /\ IF NothingToCommit(p) THEN Abort(p) /\ UNCHANGED branch
       ELSE Goto(p, "push") /\ branch' = [branch EXCEPT ![Repo(p)] = "committed"]
    /\ UNCHANGED <<mix, jobs, catalog, pr, checks, gone, refused, counters>>

Push(p) ==
    /\ At(p, "push") /\ Repo(p) \notin gone
    /\ branch' = [branch EXCEPT ![Repo(p)] = "pushed"]
    /\ Goto(p, "create")
    /\ UNCHANGED <<mix, jobs, catalog, pr, checks, gone, refused, counters>>

Create(p) ==
    /\ At(p, "create") /\ Repo(p) \notin gone
    /\ pr' = [pr EXCEPT ![Repo(p)] = "open"]
    /\ \/ Goto(p, "record") /\ UNCHANGED counters
       \/ Abort(p) /\ Fault
    /\ UNCHANGED <<mix, jobs, catalog, branch, checks, gone, refused>>

\* Broken variant: the job is planned while its foundation is pending.
PendingIgnored(p) == Goto(p, "plan")

\* ErrFoundationPending.
Pending(p) == Goto(p, "hold")

Record(p) ==
    /\ At(p, "record")
    /\ catalog' = Kept(Repo(p), "pending")
    /\ Pending(p)
    /\ UNCHANGED <<mix, jobs, github, refused, counters>>

----------------------------------------------------------------------------
(* reconcileFoundation. *)

\* GetPR ...
Check(p) ==
    /\ At(p, "check") /\ Repo(p) \notin gone
    /\ Goto(p, IF pr[Repo(p)] = "merged" THEN "sync" ELSE "checks")
    /\ UNCHANGED <<mix, jobs, catalog, github, refused, counters>>

\* ... and GetPRChecks of its head.
Checks(p) ==
    LET state == checks[Repo(p)]
    IN /\ At(p, "checks") /\ Repo(p) \notin gone
       /\ CASE state = "failed" -> Goto(p, "block") [] state = "passed" -> Goto(p, "merge")
            [] OTHER -> Pending(p)
       /\ refused' = IF state = "failed" THEN refused \union {Repo(p)} ELSE refused
       /\ UNCHANGED <<mix, jobs, catalog, github, counters>>

\* The foundation is recorded as blocked, and no error returned.
Block(p) ==
    /\ At(p, "block")
    /\ catalog' = Kept(Repo(p), "pending")
    /\ Goto(p, "plan")
    /\ UNCHANGED <<mix, jobs, github, refused, counters>>

\* PromotePR and MergePR, whatever the head is by now; then once more from GetPR.
Merge(p) ==
    /\ At(p, "merge") /\ Repo(p) \notin gone
    /\ IF pr[Repo(p)] = "merged" THEN Abort(p) /\ UNCHANGED <<pr, counters>>
       ELSE /\ pr' = [pr EXCEPT ![Repo(p)] = "merged"]
            /\ \/ Goto(p, "check") /\ UNCHANGED counters
               \/ Abort(p) /\ Fault
    /\ UNCHANGED <<mix, jobs, catalog, branch, checks, gone, refused>>

----------------------------------------------------------------------------
(* The job. *)

\* Broken variant: the first pending foundation ends the ticker's round.
HeldBackAll(p) == Abort(p)

HeldBack(p) == Done(p)

\* start_planning holds the job, ResumeFoundationPlanning leaves it held.
Hold(p) ==
    /\ At(p, "hold")
    /\ LET j == proc[p].job
       IN IF p = Ticker THEN HeldBack(p) /\ UNCHANGED <<job, disk, counters>>
          ELSE IF job[j].status # "created" THEN Abort(p) /\ UNCHANGED <<job, disk, counters>>
          ELSE /\ job' = [job EXCEPT ![j].held = TRUE]
               /\ Done(p)
               /\ \/ disk' = job' /\ UNCHANGED counters
                  \/ UNCHANGED disk /\ Fault
    /\ UNCHANGED <<mix, planner, catalog, github, refused>>

\* Broken variant: the job stays marked as held.
StartedHeld(j) == [job EXCEPT ![j].status = "planning"]

Started(j) == [job EXCEPT ![j] = [status |-> "planning", held |-> FALSE]]

\* Broken variant: a failed save is ignored.
UnsavedIgnored(p) == Goto(p, "start")

Unsaved(p) == Abort(p)

\* Store.StartPlanning, which changes the job before it saves it.
Plan(p) ==
    /\ At(p, "plan")
    /\ LET j == proc[p].job
       IN IF job[j].status # "created" THEN Abort(p) /\ UNCHANGED <<job, disk, counters>>
          ELSE /\ job' = Started(j)
               /\ \/ disk' = job' /\ Goto(p, "start") /\ UNCHANGED counters
                  \/ UNCHANGED disk /\ Unsaved(p) /\ Fault
    /\ UNCHANGED <<mix, planner, catalog, github, refused>>

\* StartPlanner records the dispatch, and then launches the run, or fails to.
Start(p) ==
    /\ At(p, "start")
    /\ planner' = planner \union {proc[p].job}
    /\ \/ Done(p) /\ UNCHANGED counters
       \/ Abort(p) /\ Fault
    /\ UNCHANGED <<mix, job, disk, catalog, github, refused>>

----------------------------------------------------------------------------
(* Everything else that happens. *)

\* GitHub, git, the disk or AgentFoundry fail, with no effect.
Fail(p) ==
    /\ ~At(p, "idle")
    /\ Fault
    /\ Abort(p)
    /\ UNCHANGED <<mix, jobs, catalog, github, refused>>

\* A repository that is gone answers no call any more.
Lost(p) ==
    /\ proc[p].at \in Remote /\ Repo(p) \in gone
    /\ Abort(p)
    /\ UNCHANGED <<mix, jobs, catalog, github, refused, counters>>

\* The CI of the pull request ends.
CIEnds(r) ==
    /\ r \notin gone /\ pr[r] = "open" /\ checks[r] = "pending"
    /\ \E state \in {"passed", "failed"} : checks' = [checks EXCEPT ![r] = state]
    /\ UNCHANGED <<mix, jobs, catalog, branch, pr, gone, refused, proc, queue, counters>>

\* Somebody pushes to the pull request.
HeadMoves(r) ==
    /\ r \notin gone /\ pr[r] = "open" /\ checks[r] # "pending"
    /\ Fault
    /\ checks' = [checks EXCEPT ![r] = "pending"]
    /\ UNCHANGED <<mix, jobs, catalog, branch, pr, gone, refused, proc, queue>>

\* Somebody deletes the repository, renames it or gives it away.
Vanish(r) ==
    /\ r \notin gone
    /\ Fault
    /\ gone' = gone \union {r}
    /\ UNCHANGED <<mix, jobs, catalog, branch, pr, checks, refused, proc, queue>>

\* The process stops and starts.
Crash ==
    /\ crashes < mix.crashes
    /\ crashes' = crashes + 1
    /\ job' = disk
    /\ proc' = [p \in Procs |-> Idle] /\ queue' = {}
    /\ UNCHANGED <<mix, disk, planner, catalog, github, refused, faults>>

Step(p) ==
    \/ Read(p) \/ Refresh(p) \/ Ready(p)
    \/ Commit(p) \/ Push(p) \/ Create(p) \/ Record(p)
    \/ Check(p) \/ Checks(p) \/ Block(p) \/ Merge(p)
    \/ Hold(p) \/ Plan(p) \/ Start(p)
    \/ Fail(p) \/ Lost(p)

Next ==
    \/ \E c \in Calls, j \in Jobs : Call(c, j)
    \/ Tick \/ TakeNext
    \/ \E p \in Procs : Step(p)
    \/ \E r \in Repos : CIEnds(r) \/ HeadMoves(r) \/ Vanish(r)
    \/ Crash

Spec == Init /\ [][Next]_vars

\* The ticker's goroutine goes on; nobody needs to call a tool, and CI may never end.
FairSpec == Spec /\ WF_vars(Tick \/ TakeNext \/ Step(Ticker)) /\ \A c \in Calls : WF_vars(Step(c))

----------------------------------------------------------------------------
\* A repository gets one foundation pull request, however many calls and the ticker
\* find none in the catalog at the same time, and whatever a crash left behind.
OneFoundation ==
    \A p \in Procs :
        /\ At(p, "create") => pr[Repo(p)] = "none"
        /\ \A q \in Procs : /\ p # q /\ {proc[p].at, proc[q].at} \subseteq {"push", "create"}
                            => Repo(p) # Repo(q)

\* A recorded foundation pull request is never forgotten, although every lookup
\* refreshes the entry from what it read before it waited for git.
FoundationRemembered ==
    [][\A r \in Repos : catalog[r] # "none" => catalog'[r] # "none"]_vars

\* A job is planned only after its foundation was merged, or its CI found to have
\* failed, also by a process that remembers nothing of the calls before it.
PlannedOnFoundation ==
    \A j \in Jobs : job[j].status = "planning" => pr[home[j]] = "merged" \/ home[j] \in refused

\* No Planner is dispatched for a job that a restart would show as not being planned.
PlannerOfPlannedJob == \A j \in planner : disk[j].status = "planning"

\* The ticker's round ends at a held job that is no older and has lost its repository.
Obstructed(j) ==
    \E i \in DOMAIN Newest :
        /\ job[Newest[i]].held /\ home[Newest[i]] \in gone
        /\ \E k \in i..Len(Newest) : Newest[k] = j

\* A held job whose foundation CI has ended is planned in the end, also while other
\* foundations are pending for ever; not so past a held job without a repository.
HeldJobsArePlanned ==
    \A j \in Jobs :
        (job[j].held /\ checks[home[j]] # "pending")
            ~> (~job[j].held \/ checks[home[j]] = "pending" \/ Obstructed(j))
=============================================================================
