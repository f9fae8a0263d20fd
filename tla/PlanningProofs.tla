---------------------------- MODULE PlanningProofs ----------------------------
(***************************************************************************)
(* The safety properties of Planning, for any number of jobs, calls and    *)
(* repositories, failing calls and restarts.  The invariant says of every  *)
(* point of a call what it may count on at GitHub and on disk although no  *)
(* lock is held: what it has seen only becomes more.                       *)
(***************************************************************************)
EXTENDS Planning, TLAPS

Creating == {"push", "create"}

Planned(j) == job[j].status = "planning"
Founded(r) == pr[r] = "merged" \/ r \in refused

\* A call works on a job.
Busy == \A p \in Procs : ~At(p, "idle") => proc[p].job \in Jobs

\* What a call knows of the foundation of its job's repository, and of the job.
Knows(p) ==
    /\ proc[p].seen # "none" => pr[Repo(p)] # "none"
    /\ proc[p].seen = "ready" => pr[Repo(p)] = "merged"
    /\ proc[p].at \in Creating => branch[Repo(p)] # "none" /\ pr[Repo(p)] = "none"
    /\ proc[p].at \in {"record", "check", "checks", "block", "merge"} => pr[Repo(p)] # "none"
    /\ proc[p].at \in {"sync", "sync save", "ready"} => pr[Repo(p)] = "merged"
    /\ proc[p].at = "block" => Repo(p) \in refused
    /\ proc[p].at = "plan" => Founded(Repo(p))
    /\ proc[p].at = "start" => disk[proc[p].job].status = "planning"

AllKnow == \A p \in Procs : ~At(p, "idle") => Knows(p)

OneCreates ==
    \A p, q \in Procs : p # q /\ proc[p].at \in Creating /\ proc[q].at \in Creating
                        => Repo(p) # Repo(q)

\* The catalog, the branch and the pull request tell one story.
Git ==
    \A r \in Repos : /\ pr[r] # "none" => branch[r] # "none"
                     /\ catalog[r] # "none" => pr[r] # "none"
                     /\ catalog[r] = "ready" => pr[r] = "merged"

Store ==
    \A j \in Jobs : /\ Planned(j) => Founded(home[j])
                    /\ disk[j].status = "planning" => Planned(j)
                    /\ disk[j].held => disk[j].status = "created"

Dispatched == \A j \in planner : disk[j].status = "planning"

PInv == PlanningTypeOK /\ Busy /\ AllKnow /\ OneCreates /\ Git /\ Store /\ Dispatched

----------------------------------------------------------------------------
(* Calls. *)

\* What is there stays, and only p, if it creates one, makes a pull request.
Grows(p) ==
    /\ UNCHANGED mix
    /\ refused \subseteq refused'
    /\ \A r \in Repos : /\ branch[r] # "none" => branch'[r] # "none"
                        /\ pr[r] # "none" => pr'[r] # "none"
                        /\ pr[r] = "merged" => pr'[r] = "merged"
                        /\ pr[r] = "none" /\ pr'[r] # "none" => At(p, "create") /\ r = Repo(p)
    /\ \A j \in Jobs : disk[j].status = "planning" => disk'[j].status = "planning"

LEMMA Working ==
  ASSUME PlanningTypeOK, Busy, NEW p \in Procs, ~At(p, "idle")
  PROVE  /\ proc[p] \in [at: Points, job: Jobs \union {NoJob}, seen: Foundations]
         /\ proc[p].job \in Jobs /\ Repo(p) \in Repos
<1>1. mix.home \in [Jobs -> Repos]
  BY PlanningAssumption DEF PlanningTypeOK
<1> QED
  BY <1>1 DEF PlanningTypeOK, Busy, Repo, home

LEMMA GoneTo ==
  ASSUME PlanningTypeOK, NEW p \in Procs, NEW point \in Points, Goto(p, point)
  PROVE  /\ proc' \in [Procs -> [at: Points, job: Jobs \union {NoJob}, seen: Foundations]]
         /\ \A q \in Procs \ {p} : proc'[q] = proc[q]
         /\ proc'[p].at = point /\ proc'[p].job = proc[p].job /\ proc'[p].seen = proc[p].seen
         /\ UNCHANGED queue
<1>1. proc[p] \in [at: Points, job: Jobs \union {NoJob}, seen: Foundations]
  BY DEF PlanningTypeOK
<1>2. /\ proc'[p] = [proc[p] EXCEPT !.at = point]
      /\ proc' = [proc EXCEPT ![p] = [proc[p] EXCEPT !.at = point]]
      /\ \A q \in Procs \ {p} : proc'[q] = proc[q]
  BY DEF Goto, PlanningTypeOK
<1>3. [proc[p] EXCEPT !.at = point] \in [at: Points, job: Jobs \union {NoJob}, seen: Foundations]
  BY <1>1
<1>4. proc' \in [Procs -> [at: Points, job: Jobs \union {NoJob}, seen: Foundations]]
  BY <1>2, <1>3 DEF PlanningTypeOK
<1> QED
  BY <1>1, <1>2, <1>4 DEF Goto

LEMMA Idled ==
  ASSUME PlanningTypeOK, NEW p \in Procs, Abort(p) \/ Done(p)
  PROVE  /\ proc' \in [Procs -> [at: Points, job: Jobs \union {NoJob}, seen: Foundations]]
         /\ \A q \in Procs \ {p} : proc'[q] = proc[q]
         /\ proc'[p].at = "idle"
         /\ queue' \subseteq Jobs
<1>1. Idle \in [at: Points, job: Jobs \union {NoJob}, seen: Foundations] /\ Idle.at = "idle"
  BY DEF Idle, Points, Foundations
<1> QED
  BY <1>1 DEF Abort, Done, PlanningTypeOK

\* What the others know, they know after a step of p.
LEMMA Others ==
  ASSUME PInv, NEW p \in Procs, Grows(p), \A q \in Procs \ {p} : proc'[q] = proc[q],
         ~At(p, "idle")' => proc'[p].job \in Jobs /\ Knows(p)',
         proc'[p].at \in Creating =>
            \A q \in Procs \ {p} : proc[q].at \in Creating => Repo(q) # Repo(p)'
  PROVE  Busy' /\ AllKnow' /\ OneCreates'
<1> USE DEF PInv
<1>1. ASSUME NEW q \in Procs \ {p}, ~At(q, "idle")'
      PROVE  proc'[q].job \in Jobs /\ Knows(q)' /\ Repo(q)' = Repo(q)
  <2>1. /\ proc'[q] = proc[q] /\ ~At(q, "idle") /\ Knows(q) /\ Repo(q)' = Repo(q)
    BY <1>1 DEF At, AllKnow, Grows, Repo, home
  <2>2. Repo(q) \in Repos /\ proc[q].job \in Jobs
    BY <2>1, Working
  <2>3. proc[q].at \in Creating => pr'[Repo(q)] = "none" /\ branch'[Repo(q)] # "none"
    <3> SUFFICES ASSUME proc[q].at \in Creating
                 PROVE  pr'[Repo(q)] = "none" /\ branch'[Repo(q)] # "none"
      OBVIOUS
    <3>1. pr[Repo(q)] = "none" /\ branch[Repo(q)] # "none"
      BY <2>1 DEF Knows
    <3>2. At(p, "create") => Repo(q) # Repo(p)
      BY DEF OneCreates, At, Creating
    <3> QED
      BY <3>1, <3>2, <2>2 DEF Grows
  <2>4. Knows(q)'
    BY <2>1, <2>2, <2>3 DEF Knows, Grows, Founded
  <2> QED
    BY <2>1, <2>2, <2>4
<1>2. Busy' /\ AllKnow'
  BY <1>1 DEF Busy, AllKnow
<1>3. OneCreates'
  <2> SUFFICES ASSUME NEW q \in Procs, NEW s \in Procs, q # s,
                      proc'[q].at \in Creating, proc'[s].at \in Creating
               PROVE  Repo(q)' # Repo(s)'
    BY DEF OneCreates
  <2>1. \A u \in Procs \ {p} : proc'[u].at \in Creating => Repo(u)' = Repo(u)
    BY <1>1 DEF At, Creating
  <2>2. CASE q = p
    BY <2>1, <2>2
  <2>3. CASE s = p
    BY <2>1, <2>3
  <2>4. CASE q # p /\ s # p
    BY <2>1, <2>4 DEF OneCreates
  <2> QED
    BY <2>2, <2>3, <2>4
<1> QED
  BY <1>2, <1>3

LEMMA Counted ==
  ASSUME PlanningTypeOK, UNCHANGED mix, Fault \/ UNCHANGED counters
  PROVE  faults' \in 0..mix'.faults /\ crashes' \in 0..mix'.crashes
<1>1. mix.faults \in Nat /\ mix.crashes \in Nat
  BY PlanningAssumption DEF PlanningTypeOK
<1> QED
  BY <1>1 DEF PlanningTypeOK, Fault, counters

\* A step of p that changes no more than what the others may see grow.
LEMMA Quiet ==
  ASSUME PInv, NEW p \in Procs, UNCHANGED <<mix, jobs, catalog, branch, pr>>,
         refused \subseteq refused'
  PROVE  Grows(p) /\ Git' /\ Store' /\ Dispatched'
BY DEF PInv, Grows, Git, Store, Dispatched, Planned, Founded, jobs, home

\* A call that is over knows nothing any more.
LEMMA OverInv ==
  ASSUME PInv, NEW p \in Procs, Abort(p) \/ Done(p), Fault \/ UNCHANGED counters,
         UNCHANGED <<mix, jobs, catalog, github, refused>>
  PROVE  PInv'
<1> USE DEF PInv
<1>1. /\ proc' \in [Procs -> [at: Points, job: Jobs \union {NoJob}, seen: Foundations]]
      /\ \A q \in Procs \ {p} : proc'[q] = proc[q]
      /\ proc'[p].at = "idle" /\ queue' \subseteq Jobs
  BY Idled
<1>2. PlanningTypeOK'
  BY <1>1, Counted DEF PlanningTypeOK, jobs, github
<1>3. Grows(p) /\ Git' /\ Store' /\ Dispatched'
  BY Quiet DEF github
<1>4. Busy' /\ AllKnow' /\ OneCreates'
  BY <1>1, <1>3, Others DEF At, Creating
<1> QED
  BY <1>2, <1>3, <1>4

\* A call that goes on to a point where it counts on what holds already.
LEMMA OnInv ==
  ASSUME PInv, NEW p \in Procs, ~At(p, "idle"), NEW point \in Points \ Creating, point # "idle",
         Goto(p, point), Fault \/ UNCHANGED counters,
         UNCHANGED <<mix, jobs, github>>,
         catalog' \in [Repos -> Foundations],
         \A r \in Repos : \/ catalog'[r] = catalog[r]
                         \/ /\ catalog'[r] # "none" => pr[r] # "none"
                            /\ catalog'[r] = "ready" => pr[r] = "merged",
         refused \subseteq refused', refused' \subseteq Repos,
         point \in {"record", "check", "checks", "block", "merge"} => pr[Repo(p)] # "none",
         point \in {"sync", "sync save", "ready"} => pr[Repo(p)] = "merged",
         point = "block" => Repo(p) \in refused',
         point = "plan" => Founded(Repo(p)),
         point = "start" => disk[proc[p].job].status = "planning"
  PROVE  PInv'
<1> USE DEF PInv
<1>1. /\ proc' \in [Procs -> [at: Points, job: Jobs \union {NoJob}, seen: Foundations]]
      /\ \A q \in Procs \ {p} : proc'[q] = proc[q]
      /\ proc'[p].at = point /\ proc'[p].job = proc[p].job
      /\ proc'[p].seen = proc[p].seen /\ UNCHANGED queue
  BY GoneTo
<1>2. PlanningTypeOK'
  BY <1>1, Counted DEF PlanningTypeOK, jobs, github
<1>3. Grows(p) /\ Git' /\ Store' /\ Dispatched'
  BY DEF Grows, Git, Store, Dispatched, Planned, Founded, jobs, home, github
<1>4. Repo(p)' = Repo(p)
  BY <1>1 DEF Repo, home
<1>5. Knows(p)
  BY DEF AllKnow
<1>6. Knows(p)'
  BY <1>1, <1>4, <1>5 DEF Knows, Founded, github, jobs
<1>7. Busy' /\ AllKnow' /\ OneCreates'
  BY <1>1, <1>3, <1>6, Working, Others
<1> QED
  BY <1>2, <1>3, <1>7

----------------------------------------------------------------------------
(* The steps. *)

LEMMA CallInv ==
  ASSUME PInv, NEW c \in Calls, NEW j \in Jobs, Call(c, j)
  PROVE  PInv'
<1> USE DEF PInv
<1>1. c \in Procs
  BY DEF Procs
<1>2. /\ Idle \in [at: Points, job: Jobs \union {NoJob}, seen: Foundations]
      /\ Idle.seen = "none"
  BY DEF Idle, Points, Foundations
<1>3. /\ proc' = [proc EXCEPT ![c] = [Idle EXCEPT !.at = "lookup", !.job = j]]
      /\ UNCHANGED <<mix, jobs, catalog, github, refused, queue, counters>>
  BY DEF Call
<1>4. /\ proc' \in [Procs -> [at: Points, job: Jobs \union {NoJob}, seen: Foundations]]
      /\ \A q \in Procs \ {c} : proc'[q] = proc[q]
      /\ proc'[c].at = "lookup" /\ proc'[c].job = j /\ proc'[c].seen = "none"
  BY <1>1, <1>2, <1>3 DEF PlanningTypeOK, Points
<1>5. PlanningTypeOK'
  BY <1>3, <1>4 DEF PlanningTypeOK, jobs, github, counters
<1>6. Grows(c) /\ Git' /\ Store' /\ Dispatched'
  BY <1>1, <1>3, Quiet DEF github
<1>7. Knows(c)'
  BY <1>4 DEF Knows, Creating
<1> QED
  BY <1>1, <1>4, <1>5, <1>6, <1>7, Others DEF Creating

LEMMA TakeNextInv ==
  ASSUME PInv, TakeNext
  PROVE  PInv'
<1> USE DEF PInv
<1>1. Ticker \in Procs
  BY DEF Procs
<1>2. /\ Idle \in [at: Points, job: Jobs \union {NoJob}, seen: Foundations]
      /\ Idle.seen = "none"
  BY DEF Idle, Points, Foundations
<1>3. PICK j \in Jobs : /\ proc' = [proc EXCEPT ![Ticker] =
                                      [Idle EXCEPT !.at = "ensure", !.job = j]]
                        /\ queue' = queue \ {j}
  BY DEF TakeNext, PlanningTypeOK
<1>4. /\ proc' \in [Procs -> [at: Points, job: Jobs \union {NoJob}, seen: Foundations]]
      /\ \A q \in Procs \ {Ticker} : proc'[q] = proc[q]
      /\ proc'[Ticker].at = "ensure" /\ proc'[Ticker].job = j /\ proc'[Ticker].seen = "none"
  BY <1>1, <1>2, <1>3 DEF PlanningTypeOK, Points
<1>5. PlanningTypeOK'
  BY <1>3, <1>4 DEF PlanningTypeOK, jobs, github, counters, TakeNext
<1>6. Grows(Ticker) /\ Git' /\ Store' /\ Dispatched'
  BY <1>1, Quiet DEF github, TakeNext
<1>7. Knows(Ticker)'
  BY <1>4 DEF Knows, Creating
<1> QED
  BY <1>1, <1>4, <1>5, <1>6, <1>7, Others DEF Creating

LEMMA ReadInv ==
  ASSUME PInv, NEW p \in Procs, Read(p)
  PROVE  PInv'
<1> USE DEF PInv
<1>1. /\ proc[p].at \in {"lookup", "ensure", "sync"} /\ ~At(p, "idle")
      /\ UNCHANGED <<mix, jobs, catalog, github, refused, queue, counters>>
  BY DEF Read, At
<1>2. /\ proc[p] \in [at: Points, job: Jobs \union {NoJob}, seen: Foundations]
      /\ proc[p].job \in Jobs /\ Repo(p) \in Repos
  BY <1>1, Working
<1>3. PICK point \in {"lookup save", "ensure save", "sync save"} :
        /\ proc' = [proc EXCEPT ![p].at = point, ![p].seen = catalog[Repo(p)]]
        /\ point = "sync save" => proc[p].at = "sync"
  <2>1. proc' = [proc EXCEPT ![p].at = Saving[proc[p].at], ![p].seen = catalog[Repo(p)]]
    BY DEF Read
  <2>2. /\ Saving[proc[p].at] \in {"lookup save", "ensure save", "sync save"}
        /\ Saving[proc[p].at] = "sync save" => proc[p].at = "sync"
    <3>1. /\ Saving.lookup = "lookup save" /\ Saving.ensure = "ensure save"
          /\ Saving.sync = "sync save"
      BY DEF Saving
    <3>2. /\ Saving["lookup"] = "lookup save" /\ Saving["ensure"] = "ensure save"
          /\ Saving["sync"] = "sync save"
      BY <3>1
    <3> QED
      BY <1>1, <3>2
  <2> QED
    BY <2>1, <2>2
<1>4. /\ proc'[p] = [proc[p] EXCEPT !.at = point, !.seen = catalog[Repo(p)]]
      /\ proc' = [proc EXCEPT ![p] = [proc[p] EXCEPT !.at = point, !.seen = catalog[Repo(p)]]]
      /\ \A q \in Procs \ {p} : proc'[q] = proc[q]
  BY <1>3 DEF PlanningTypeOK
<1>5. /\ proc'[p].at = point /\ proc'[p].job = proc[p].job
      /\ proc'[p].seen = catalog[Repo(p)]
      /\ proc'[p] \in [at: Points, job: Jobs \union {NoJob}, seen: Foundations]
  BY <1>2, <1>4 DEF PlanningTypeOK, Points
<1>6. PlanningTypeOK'
  BY <1>1, <1>4, <1>5 DEF PlanningTypeOK, jobs, github, counters
<1>7. Grows(p) /\ Git' /\ Store' /\ Dispatched'
  BY <1>1, Quiet DEF github
<1>8. Knows(p)'
  <2>1. Repo(p)' = Repo(p)
    BY <1>1, <1>5 DEF Repo, home
  <2>2. proc[p].at = "sync" => pr[Repo(p)] = "merged"
    BY <1>1 DEF AllKnow, Knows
  <2> QED
    BY <1>1, <1>2, <1>3, <1>5, <2>1, <2>2 DEF Knows, Git, github, Creating
<1> QED
  BY <1>2, <1>3, <1>4, <1>5, <1>6, <1>7, <1>8, Others DEF Creating

\* The catalog forgets nothing, and learns f of the repository of p.
LEMMA Learned ==
  ASSUME PlanningTypeOK, NEW f \in Foundations, NEW r \in Repos, catalog' = Kept(r, f)
  PROVE  /\ catalog' \in [Repos -> Foundations]
         /\ \A q \in Repos : \/ catalog'[q] = catalog[q]
                             \/ q = r /\ catalog'[q] = f
         /\ f # "none" => catalog'[r] = f
BY DEF PlanningTypeOK, Kept

LEMMA RefreshInv ==
  ASSUME PInv, NEW p \in Procs, Refresh(p)
  PROVE  PInv'
<1> USE DEF PInv
<1>1. /\ proc[p].at \in {"lookup save", "ensure save", "sync save"} /\ ~At(p, "idle")
      /\ catalog' = Kept(Repo(p), proc[p].seen)
      /\ UNCHANGED <<mix, jobs, github, refused, counters>>
  BY DEF Refresh, At
<1>2. /\ proc[p].seen \in Foundations /\ Repo(p) \in Repos /\ Knows(p)
  BY <1>1, Working DEF AllKnow
<1>3. /\ catalog' \in [Repos -> Foundations]
      /\ \A r \in Repos : \/ catalog'[r] = catalog[r]
                          \/ /\ catalog'[r] # "none" => pr[r] # "none"
                             /\ catalog'[r] = "ready" => pr[r] = "merged"
  <2>1. /\ proc[p].seen # "none" => pr[Repo(p)] # "none"
        /\ proc[p].seen = "ready" => pr[Repo(p)] = "merged"
    BY <1>2 DEF Knows
  <2>2. /\ catalog' \in [Repos -> Foundations]
        /\ \A q \in Repos : \/ catalog'[q] = catalog[q]
                            \/ q = Repo(p) /\ catalog'[q] = proc[p].seen
    BY <1>1, <1>2, Learned
  <2> QED
    BY <2>1, <2>2
<1>4. /\ catalog'[Repo(p)] # "none" => pr[Repo(p)] # "none"
      /\ catalog'[Repo(p)] = "ready" => pr[Repo(p)] = "merged"
  BY <1>2, <1>3 DEF Git
<1>5. CASE At(p, "lookup save")
  <2>1. Goto(p, "ensure")
    BY <1>5 DEF Refresh, At
  <2> QED
    BY <1>1, <1>3, <2>1, OnInv DEF Points, Creating, PlanningTypeOK
<1>6. CASE At(p, "sync save")
  <2>1. Goto(p, "ready")
    BY <1>6 DEF Refresh, At
  <2>2. pr[Repo(p)] = "merged"
    BY <1>2, <1>6 DEF Knows, At
  <2> QED
    BY <1>1, <1>3, <2>1, <2>2, OnInv DEF Points, Creating, PlanningTypeOK
<1>7. CASE At(p, "ensure save")
  <2>1. \/ catalog'[Repo(p)] = "ready" /\ Goto(p, "plan")
        \/ catalog'[Repo(p)] = "pending" /\ Goto(p, "check")
        \/ Goto(p, "commit")
    BY <1>1, <1>7 DEF Refresh, At
  <2>2. CASE catalog'[Repo(p)] = "ready" /\ Goto(p, "plan")
    BY <1>1, <1>3, <1>4, <2>2, OnInv DEF Points, Creating, PlanningTypeOK, Founded
  <2>3. CASE catalog'[Repo(p)] = "pending" /\ Goto(p, "check")
    BY <1>1, <1>3, <1>4, <2>3, OnInv DEF Points, Creating, PlanningTypeOK
  <2>4. CASE Goto(p, "commit")
    BY <1>1, <1>3, <2>4, OnInv DEF Points, Creating, PlanningTypeOK
  <2> QED
    BY <2>1, <2>2, <2>3, <2>4
<1> QED
  BY <1>1, <1>5, <1>6, <1>7 DEF At

LEMMA CatalogInv ==
  ASSUME PInv, NEW p \in Procs, Ready(p) \/ Record(p) \/ Block(p)
  PROVE  PInv'
<1> USE DEF PInv
<1>1. /\ ~At(p, "idle") /\ UNCHANGED <<mix, jobs, github, refused, counters>>
      /\ refused \subseteq Repos
  BY DEF Ready, Record, Block, At, PlanningTypeOK
<1>2. Repo(p) \in Repos /\ Knows(p)
  BY <1>1, Working DEF AllKnow
<1>3. CASE Ready(p)
  <2>1. Goto(p, "plan") /\ catalog' = Kept(Repo(p), "ready") /\ pr[Repo(p)] = "merged"
    BY <1>2, <1>3 DEF Ready, Knows, At
  <2>2. /\ catalog' \in [Repos -> Foundations]
        /\ \A r \in Repos : catalog'[r] = catalog[r] \/ r = Repo(p)
    BY <1>2, <2>1, Learned DEF Foundations
  <2> QED
    BY <1>1, <2>1, <2>2, OnInv DEF Points, Creating, Founded
<1>4. CASE Record(p) \/ Block(p)
  <2>1. PICK point \in {"hold", "plan"} :
          /\ Goto(p, point) /\ catalog' = Kept(Repo(p), "pending") /\ pr[Repo(p)] # "none"
          /\ point = "plan" => Repo(p) \in refused
    BY <1>2, <1>4 DEF Record, Block, Pending, Knows, At
  <2>2. /\ catalog' \in [Repos -> Foundations]
        /\ \A r \in Repos : \/ catalog'[r] = catalog[r]
                            \/ r = Repo(p) /\ catalog'[r] = "pending"
    BY <1>2, <2>1, Learned DEF Foundations
  <2> QED
    BY <1>1, <2>1, <2>2, OnInv DEF Points, Creating, Founded
<1> QED
  BY <1>3, <1>4

LEMMA CheckInv ==
  ASSUME PInv, NEW p \in Procs, Check(p) \/ Checks(p)
  PROVE  PInv'
<1> USE DEF PInv
<1>1. /\ proc[p].at \in {"check", "checks"} /\ ~At(p, "idle")
      /\ UNCHANGED <<mix, jobs, catalog, github, counters>>
  BY DEF Check, Checks, At
<1>2. Repo(p) \in Repos /\ pr[Repo(p)] # "none" /\ catalog \in [Repos -> Foundations]
  BY <1>1, Working DEF AllKnow, Knows, PlanningTypeOK
<1>3. CASE Check(p)
  <2>1. PICK point \in {"sync", "checks"} :
          Goto(p, point) /\ (point = "sync" => pr[Repo(p)] = "merged")
    BY <1>3 DEF Check
  <2> QED
    BY <1>1, <1>2, <1>3, <2>1, OnInv DEF Points, Creating, PlanningTypeOK, Check
<1>4. CASE Checks(p)
  <2>1. /\ checks[Repo(p)] \in {"pending", "passed", "failed"}
        /\ refused' = IF checks[Repo(p)] = "failed" THEN refused \union {Repo(p)} ELSE refused
    BY <1>2, <1>4 DEF Checks, PlanningTypeOK
  <2>2. /\ refused \subseteq refused' /\ refused' \subseteq Repos
    BY <1>2, <2>1 DEF PlanningTypeOK
  <2>3. PICK point \in {"block", "merge", "hold"} :
          Goto(p, point) /\ (point = "block" => checks[Repo(p)] = "failed")
    BY <1>4, <2>1 DEF Checks, Pending
  <2> QED
    BY <1>1, <1>2, <2>1, <2>2, <2>3, OnInv DEF Points, Creating
<1> QED
  BY <1>3, <1>4

LEMMA CommitInv ==
  ASSUME PInv, NEW p \in Procs, Commit(p)
  PROVE  PInv'
<1> USE DEF PInv
<1>1. /\ At(p, "commit") /\ ~At(p, "idle")
      /\ UNCHANGED <<mix, jobs, catalog, pr, checks, gone, refused, counters>>
  BY DEF Commit, At
<1>2. /\ Repo(p) \in Repos /\ proc[p].job \in Jobs /\ Knows(p)
  BY <1>1, Working DEF AllKnow
<1>3. CASE Abort(p) /\ UNCHANGED branch
  BY <1>1, <1>3, OverInv DEF github
<1>4. CASE /\ branch[Repo(p)] = "none" /\ Goto(p, "push")
           /\ branch' = [branch EXCEPT ![Repo(p)] = "committed"]
  <2>1. /\ proc' \in [Procs -> [at: Points, job: Jobs \union {NoJob}, seen: Foundations]]
        /\ \A q \in Procs \ {p} : proc'[q] = proc[q]
        /\ proc'[p].at = "push" /\ proc'[p].job = proc[p].job /\ proc'[p].seen = proc[p].seen
        /\ UNCHANGED queue
    BY <1>4, GoneTo DEF Points
  <2>2. /\ branch' \in [Repos -> {"none", "committed", "pushed"}]
        /\ branch'[Repo(p)] = "committed"
        /\ \A r \in Repos : branch[r] # "none" => branch'[r] # "none"
    BY <1>2, <1>4 DEF PlanningTypeOK
  <2>3. PlanningTypeOK'
    BY <1>1, <2>1, <2>2 DEF PlanningTypeOK, jobs, counters
  <2>4. Grows(p) /\ Git' /\ Store' /\ Dispatched'
    BY <1>1, <2>2 DEF Grows, Git, Store, Dispatched, Planned, Founded, jobs, home
  <2>5. Repo(p)' = Repo(p) /\ pr[Repo(p)] = "none"
    BY <1>1, <1>2, <1>4, <2>1 DEF Repo, home, Git
  <2>6. Knows(p)'
    BY <1>1, <1>2, <2>1, <2>2, <2>5 DEF Knows, Creating
  <2>7. \A q \in Procs \ {p} : proc[q].at \in Creating => Repo(q) # Repo(p)
    BY <1>4 DEF AllKnow, Knows, Creating, At
  <2> QED
    BY <1>2, <2>1, <2>3, <2>4, <2>5, <2>6, <2>7, Others
<1> QED
  BY <1>3, <1>4 DEF Commit, NothingToCommit

LEMMA PushInv ==
  ASSUME PInv, NEW p \in Procs, Push(p)
  PROVE  PInv'
<1> USE DEF PInv
<1>1. /\ At(p, "push") /\ ~At(p, "idle") /\ Goto(p, "create")
      /\ branch' = [branch EXCEPT ![Repo(p)] = "pushed"]
      /\ UNCHANGED <<mix, jobs, catalog, pr, checks, gone, refused, counters>>
  BY DEF Push, At
<1>2. /\ Repo(p) \in Repos /\ proc[p].job \in Jobs /\ Knows(p)
  BY <1>1, Working DEF AllKnow
<1>3. /\ proc' \in [Procs -> [at: Points, job: Jobs \union {NoJob}, seen: Foundations]]
      /\ \A q \in Procs \ {p} : proc'[q] = proc[q]
      /\ proc'[p].at = "create" /\ proc'[p].job = proc[p].job
      /\ proc'[p].seen = proc[p].seen /\ UNCHANGED queue
  BY <1>1, GoneTo DEF Points
<1>4. /\ branch' \in [Repos -> {"none", "committed", "pushed"}]
      /\ branch'[Repo(p)] = "pushed"
      /\ \A r \in Repos : branch[r] # "none" => branch'[r] # "none"
  BY <1>1, <1>2 DEF PlanningTypeOK
<1>5. PlanningTypeOK'
  BY <1>1, <1>3, <1>4 DEF PlanningTypeOK, jobs, counters
<1>6. Grows(p) /\ Git' /\ Store' /\ Dispatched'
  BY <1>1, <1>4 DEF Grows, Git, Store, Dispatched, Planned, Founded, jobs, home
<1>7. Repo(p)' = Repo(p) /\ pr[Repo(p)] = "none"
  BY <1>1, <1>2, <1>3 DEF Repo, home, Knows, At, Creating
<1>8. Knows(p)'
  BY <1>1, <1>2, <1>3, <1>4, <1>7 DEF Knows, Creating
<1>9. \A q \in Procs \ {p} : proc[q].at \in Creating => Repo(q) # Repo(p)
  BY <1>1 DEF OneCreates, At, Creating
<1> QED
  BY <1>2, <1>3, <1>5, <1>6, <1>7, <1>8, <1>9, Others

\* Create and Merge change the pull request, and end the call or take it on.
LEMMA PullRequestInv ==
  ASSUME PInv, NEW p \in Procs, Create(p) \/ Merge(p)
  PROVE  PInv'
<1> USE DEF PInv
<1>1. /\ proc[p].at \in {"create", "merge"} /\ ~At(p, "idle")
      /\ UNCHANGED <<mix, jobs, catalog, branch, checks, gone, refused>>
  BY DEF Create, Merge, At
<1>2. Repo(p) \in Repos /\ proc[p].job \in Jobs /\ Knows(p)
  BY <1>1, Working DEF AllKnow
<1>3. CASE Abort(p) /\ UNCHANGED <<pr, counters>>
  BY <1>1, <1>3, OverInv DEF github
<1>4. ASSUME NEW state \in {"open", "merged"}, pr' = [pr EXCEPT ![Repo(p)] = state],
             state = "open" => At(p, "create"),
             state = "merged" => At(p, "merge"),
             \/ /\ Goto(p, IF state = "open" THEN "record" ELSE "check")
                /\ UNCHANGED counters
             \/ Abort(p) /\ Fault
      PROVE  PInv'
  <2>1. /\ state = "open" => pr[Repo(p)] = "none" /\ branch[Repo(p)] # "none"
        /\ state = "merged" => pr[Repo(p)] # "none"
    BY <1>2, <1>4 DEF Knows, At, Creating
  <2>2. /\ pr' \in [Repos -> {"none", "open", "merged"}] /\ pr'[Repo(p)] = state
        /\ \A r \in Repos : r # Repo(p) => pr'[r] = pr[r]
    BY <1>2, <1>4 DEF PlanningTypeOK
  <2>3. Grows(p)
    BY <1>1, <1>4, <2>1, <2>2 DEF Grows, jobs
  <2>4. Git'
    BY <1>1, <2>1, <2>2 DEF Git
  <2>5. Store' /\ Dispatched'
    <3>1. \A j \in Jobs : home[j] \in Repos
      <4>1. mix.home \in [Jobs -> Repos]
        BY PlanningAssumption DEF PlanningTypeOK
      <4> QED
        BY <4>1 DEF home
    <3>2. \A r \in Repos : Founded(r) => Founded(r)'
      BY <1>1, <2>3 DEF Founded, Grows
    <3> QED
      BY <1>1, <3>1, <3>2 DEF Store, Dispatched, Planned, jobs, home
  <2>6. CASE /\ Goto(p, IF state = "open" THEN "record" ELSE "check")
             /\ UNCHANGED counters
    <3>1. PICK point \in {"record", "check"} : Goto(p, point)
      BY <2>6
    <3>2. /\ proc' \in [Procs -> [at: Points, job: Jobs \union {NoJob}, seen: Foundations]]
          /\ \A q \in Procs \ {p} : proc'[q] = proc[q]
          /\ proc'[p].at = point /\ proc'[p].job = proc[p].job
          /\ proc'[p].seen = proc[p].seen /\ UNCHANGED queue
      BY <3>1, GoneTo DEF Points
    <3>3. PlanningTypeOK'
      BY <1>1, <2>2, <2>6, <3>2 DEF PlanningTypeOK, jobs, counters
    <3>4. Repo(p)' = Repo(p)
      BY <1>1, <3>2 DEF Repo, home
    <3>5. /\ proc[p].seen = "ready" => pr'[Repo(p)] = "merged"
          /\ pr'[Repo(p)] # "none"
      BY <1>2, <2>2, <2>3 DEF Knows, Grows
    <3>6. Knows(p)'
      BY <3>2, <3>4, <3>5 DEF Knows, Creating
    <3> QED
      BY <1>2, <2>3, <2>4, <2>5, <3>2, <3>3, <3>6, Others DEF Creating
  <2>7. CASE Abort(p) /\ Fault
    <3>1. /\ proc' \in [Procs -> [at: Points, job: Jobs \union {NoJob}, seen: Foundations]]
          /\ \A q \in Procs \ {p} : proc'[q] = proc[q]
          /\ proc'[p].at = "idle" /\ queue' \subseteq Jobs
      BY <2>7, Idled
    <3>2. PlanningTypeOK'
      BY <1>1, <2>2, <2>7, <3>1, Counted DEF PlanningTypeOK, jobs
    <3> QED
      BY <2>3, <2>4, <2>5, <3>1, <3>2, Others DEF At, Creating
  <2> QED
    BY <1>4, <2>6, <2>7
<1>5. CASE Create(p)
  BY <1>4, <1>5 DEF Create
<1>6. CASE Merge(p)
  BY <1>3, <1>4, <1>6 DEF Merge
<1> QED
  BY <1>5, <1>6

\* The store writes a job that was not planned before, in memory and perhaps on disk.
LEMMA StoreStep ==
  ASSUME PInv, NEW p \in Procs, NEW j \in Jobs, job[j].status = "created",
         job' \in [Jobs -> Job], \A k \in Jobs \ {j} : job'[k] = job[k],
         job'[j].held => job'[j].status = "created",
         job'[j].status = "planning" => Founded(home[j]),
         disk' = job' \/ UNCHANGED disk,
         UNCHANGED <<mix, planner, catalog, github, refused>>
  PROVE  /\ Grows(p) /\ Git' /\ Store' /\ Dispatched'
         /\ disk' \in [Jobs -> Job] /\ \A k \in Jobs : job'[k].held => job'[k].status = "created"
<1> USE DEF PInv
<1>1. \A k \in Jobs : disk[k].status = "planning" =>
                        k # j /\ disk'[k].status = "planning" /\ job'[k].status = "planning"
  BY DEF Store, Planned
<1>2. \A k \in Jobs : job'[k].held => job'[k].status = "created"
  BY DEF PlanningTypeOK
<1>3. disk' \in [Jobs -> Job]
  BY DEF PlanningTypeOK
<1>4. Grows(p) /\ Git' /\ Dispatched'
  BY <1>1 DEF Grows, Git, Dispatched, github, PlanningTypeOK
<1>5. Store'
  <2> SUFFICES ASSUME NEW k \in Jobs
               PROVE  /\ Planned(k)' => Founded(home[k])'
                      /\ disk'[k].status = "planning" => Planned(k)'
                      /\ disk'[k].held => disk'[k].status = "created"
    BY DEF Store
  <2>1. Planned(k)' => Founded(home[k])
    BY DEF Planned, Store
  <2>2. Founded(home[k])' <=> Founded(home[k])
    BY DEF Founded, home, github
  <2>3. disk'[k].status = "planning" => Planned(k)'
    BY <1>1 DEF Planned
  <2>4. disk'[k].held => disk'[k].status = "created"
    BY <1>2 DEF Store
  <2> QED
    BY <2>1, <2>2, <2>3, <2>4
<1> QED
  BY <1>2, <1>3, <1>4, <1>5

LEMMA HoldInv ==
  ASSUME PInv, NEW p \in Procs, Hold(p)
  PROVE  PInv'
<1> USE DEF PInv
<1>1. /\ At(p, "hold") /\ ~At(p, "idle")
      /\ UNCHANGED <<mix, planner, catalog, github, refused>>
  BY DEF Hold, At
<1>2. PICK j \in Jobs : proc[p].job = j
  BY <1>1, Working
<1>3. CASE (Done(p) \/ Abort(p)) /\ UNCHANGED <<job, disk, counters>>
  BY <1>1, <1>3, OverInv DEF jobs
<1>4. CASE /\ job[j].status = "created" /\ Done(p)
           /\ job' = [job EXCEPT ![j].held = TRUE]
           /\ \/ disk' = job' /\ UNCHANGED counters
              \/ UNCHANGED disk /\ Fault
  <2>1. /\ job' \in [Jobs -> Job] /\ \A k \in Jobs \ {j} : job'[k] = job[k]
        /\ job'[j].status = "created"
    BY <1>4 DEF PlanningTypeOK, Job
  <2>2. /\ Grows(p) /\ Git' /\ Store' /\ Dispatched'
        /\ disk' \in [Jobs -> Job] /\ \A k \in Jobs : job'[k].held => job'[k].status = "created"
    BY <1>1, <1>4, <2>1, StoreStep
  <2>3. /\ proc' \in [Procs -> [at: Points, job: Jobs \union {NoJob}, seen: Foundations]]
        /\ \A q \in Procs \ {p} : proc'[q] = proc[q]
        /\ proc'[p].at = "idle" /\ queue' \subseteq Jobs
    BY <1>4, Idled
  <2>4. PlanningTypeOK'
    BY <1>1, <1>4, <2>1, <2>2, <2>3, Counted DEF PlanningTypeOK, github
  <2> QED
    BY <2>2, <2>3, <2>4, Others DEF At, Creating
<1>5. CASE p = Ticker
  <2>1. Done(p) /\ UNCHANGED <<job, disk, counters>>
    BY <1>5 DEF Hold, HeldBack
  <2> QED
    BY <1>3, <2>1
<1>6. CASE p # Ticker /\ job[j].status # "created"
  <2>1. Abort(p) /\ UNCHANGED <<job, disk, counters>>
    BY <1>2, <1>6 DEF Hold
  <2> QED
    BY <1>3, <2>1
<1>7. CASE p # Ticker /\ job[j].status = "created"
  BY <1>2, <1>4, <1>7 DEF Hold
<1> QED
  BY <1>5, <1>6, <1>7

LEMMA PlanInv ==
  ASSUME PInv, NEW p \in Procs, Plan(p)
  PROVE  PInv'
<1> USE DEF PInv
<1>1. /\ At(p, "plan") /\ ~At(p, "idle")
      /\ UNCHANGED <<mix, planner, catalog, github, refused>>
  BY DEF Plan, At
<1>2. PICK j \in Jobs : proc[p].job = j /\ Founded(home[j])
  BY <1>1, Working DEF AllKnow, Knows, At, Repo
<1>3. CASE Abort(p) /\ UNCHANGED <<job, disk, counters>>
  BY <1>1, <1>3, OverInv DEF jobs
<1>4. CASE /\ job[j].status = "created" /\ job' = Started(j)
           /\ \/ disk' = job' /\ Goto(p, "start") /\ UNCHANGED counters
              \/ UNCHANGED disk /\ Unsaved(p) /\ Fault
  <2>1. /\ job' \in [Jobs -> Job] /\ \A k \in Jobs \ {j} : job'[k] = job[k]
        /\ job'[j].status = "planning" /\ ~job'[j].held
    BY <1>4 DEF PlanningTypeOK, Job, Started
  <2>2. /\ Grows(p) /\ Git' /\ Store' /\ Dispatched'
        /\ disk' \in [Jobs -> Job] /\ \A k \in Jobs : job'[k].held => job'[k].status = "created"
    BY <1>1, <1>2, <1>4, <2>1, StoreStep
  <2>3. CASE disk' = job' /\ Goto(p, "start") /\ UNCHANGED counters
    <3>1. /\ proc' \in [Procs -> [at: Points, job: Jobs \union {NoJob}, seen: Foundations]]
          /\ \A q \in Procs \ {p} : proc'[q] = proc[q]
          /\ proc'[p].at = "start" /\ proc'[p].job = j
          /\ proc'[p].seen = proc[p].seen /\ UNCHANGED queue
      BY <1>2, <2>3, GoneTo DEF Points
    <3>2. PlanningTypeOK'
      BY <1>1, <2>1, <2>2, <2>3, <3>1 DEF PlanningTypeOK, github, counters
    <3>3. Repo(p)' = Repo(p) /\ Knows(p)
      BY <1>1, <1>2, <3>1 DEF Repo, home, AllKnow
    <3>4. Knows(p)'
      BY <1>1, <2>1, <2>3, <3>1, <3>3 DEF Knows, Creating, github
    <3> QED
      BY <2>2, <3>1, <3>2, <3>4, Others DEF Creating
  <2>4. CASE UNCHANGED disk /\ Abort(p) /\ Fault
    <3>1. /\ proc' \in [Procs -> [at: Points, job: Jobs \union {NoJob}, seen: Foundations]]
          /\ \A q \in Procs \ {p} : proc'[q] = proc[q]
          /\ proc'[p].at = "idle" /\ queue' \subseteq Jobs
      BY <2>4, Idled
    <3>2. PlanningTypeOK'
      BY <1>1, <2>1, <2>2, <2>4, <3>1, Counted DEF PlanningTypeOK, github
    <3> QED
      BY <2>2, <3>1, <3>2, Others DEF At, Creating
  <2> QED
    BY <1>4, <2>3, <2>4 DEF Unsaved
<1> QED
  BY <1>2, <1>3, <1>4 DEF Plan

LEMMA StartInv ==
  ASSUME PInv, NEW p \in Procs, Start(p)
  PROVE  PInv'
<1> USE DEF PInv
<1>1. /\ At(p, "start") /\ ~At(p, "idle") /\ planner' = planner \union {proc[p].job}
      /\ UNCHANGED <<mix, job, disk, catalog, github, refused>>
      /\ Abort(p) \/ Done(p)
      /\ Fault \/ UNCHANGED counters
  BY DEF Start, At
<1>2. proc[p].job \in Jobs /\ disk[proc[p].job].status = "planning"
  BY <1>1, Working DEF AllKnow, Knows, At
<1>3. /\ proc' \in [Procs -> [at: Points, job: Jobs \union {NoJob}, seen: Foundations]]
      /\ \A q \in Procs \ {p} : proc'[q] = proc[q]
      /\ proc'[p].at = "idle" /\ queue' \subseteq Jobs
  BY <1>1, Idled
<1>4. PlanningTypeOK'
  BY <1>1, <1>2, <1>3, Counted DEF PlanningTypeOK, github
<1>5. Grows(p) /\ Git' /\ Store'
  BY <1>1 DEF Grows, Git, Store, Planned, Founded, home, github
<1>6. Dispatched'
  BY <1>1, <1>2 DEF Dispatched
<1> QED
  BY <1>3, <1>4, <1>5, <1>6, Others DEF At, Creating

\* What happens elsewhere changes nothing that anybody counts on.
LEMMA ElsewhereInv ==
  ASSUME PInv, Tick \/ \E r \in Repos : CIEnds(r) \/ HeadMoves(r) \/ Vanish(r)
  PROVE  PInv'
<1> USE DEF PInv
<1>1. UNCHANGED <<mix, jobs, catalog, branch, pr, refused, proc>>
  BY DEF Tick, CIEnds, HeadMoves, Vanish, github
<1>2. /\ queue' \subseteq Jobs /\ gone' \subseteq Repos
      /\ checks' \in [Repos -> {"pending", "passed", "failed"}]
      /\ Fault \/ UNCHANGED counters
  BY DEF Tick, CIEnds, HeadMoves, Vanish, github, PlanningTypeOK
<1>3. PlanningTypeOK'
  BY <1>1, <1>2, Counted DEF PlanningTypeOK, jobs
<1>4. Git' /\ Store' /\ Dispatched'
  BY <1>1 DEF Git, Store, Dispatched, Planned, Founded, jobs, home
<1>5. Busy' /\ AllKnow' /\ OneCreates'
  BY <1>1 DEF Busy, AllKnow, OneCreates, Knows, Founded, Repo, home, At, jobs
<1> QED
  BY <1>3, <1>4, <1>5

LEMMA CrashInv ==
  ASSUME PInv, Crash
  PROVE  PInv'
<1> USE DEF PInv
<1>1. /\ job' = disk /\ proc' = [p \in Procs |-> Idle] /\ queue' = {}
      /\ UNCHANGED <<mix, disk, planner, catalog, github, refused, faults>>
      /\ crashes < mix.crashes /\ crashes' = crashes + 1
  BY DEF Crash
<1>2. Idle \in [at: Points, job: Jobs \union {NoJob}, seen: Foundations] /\ Idle.at = "idle"
  BY DEF Idle, Points, Foundations
<1>3. mix.crashes \in Nat
  BY PlanningAssumption DEF PlanningTypeOK
<1>4. PlanningTypeOK'
  BY <1>1, <1>2, <1>3 DEF PlanningTypeOK, Store, github
<1>5. Git' /\ Store' /\ Dispatched'
  BY <1>1 DEF Git, Store, Dispatched, Planned, Founded, home, github
<1>6. Busy' /\ AllKnow' /\ OneCreates'
  BY <1>1, <1>2 DEF Busy, AllKnow, OneCreates, At, Creating
<1> QED
  BY <1>4, <1>5, <1>6

----------------------------------------------------------------------------

LEMMA StepInv ==
  ASSUME PInv, [Next]_vars
  PROVE  PInv'
<1>1. ASSUME NEW p \in Procs, Step(p) PROVE PInv'
  <2>1. CASE Fail(p) \/ Lost(p)
    BY <2>1, OverInv DEF Fail, Lost
  <2> QED
    BY <1>1, <2>1, ReadInv, RefreshInv, CatalogInv, CommitInv, PushInv, PullRequestInv,
       CheckInv, HoldInv, PlanInv, StartInv DEF Step
<1>2. CASE UNCHANGED vars
  <2>1. UNCHANGED <<mix, job, disk, planner, catalog, branch, pr, checks, gone, refused, proc,
                    queue, faults, crashes>>
    BY <1>2 DEF vars
  <2>2. PlanningTypeOK'
    BY <2>1 DEF PInv, PlanningTypeOK
  <2>3. Git' /\ Store' /\ Dispatched'
    BY <2>1 DEF PInv, Git, Store, Dispatched, Planned, Founded, home
  <2>4. Busy' /\ AllKnow' /\ OneCreates'
    BY <2>1 DEF PInv, Busy, AllKnow, OneCreates, Knows, Founded, Repo, home, At
  <2> QED
    BY <2>2, <2>3, <2>4 DEF PInv
<1> QED
  BY <1>1, <1>2, CallInv, TakeNextInv, ElsewhereInv, CrashInv DEF Next

LEMMA InitPInv == Init => PInv
<1> SUFFICES ASSUME Init PROVE PInv
  OBVIOUS
<1>1. /\ Idle \in [at: Points, job: Jobs \union {NoJob}, seen: Foundations]
      /\ Idle.at = "idle"
  BY DEF Idle, Points, Foundations
<1>2. \A p \in Procs : proc[p] = Idle
  BY DEF Init
<1>3. mix.faults \in Nat /\ mix.crashes \in Nat
  BY PlanningAssumption DEF Init
<1>4. PlanningTypeOK
  BY <1>1, <1>3 DEF Init, PlanningTypeOK, Job, Foundations
<1>5. Busy /\ AllKnow /\ OneCreates
  BY <1>1, <1>2 DEF Busy, AllKnow, OneCreates, At, Creating
<1>6. Git /\ Store /\ Dispatched
  BY DEF Init, Git, Store, Dispatched, Planned
<1> QED
  BY <1>4, <1>5, <1>6 DEF PInv

\* A repository gets one foundation pull request (service.go, foundation.go), for any
\* number of calls, jobs, repositories, failing calls and restarts.
THEOREM OneFoundationEach == Spec => []OneFoundation
<1>1. PInv /\ [Next]_vars => PInv'
  BY StepInv
<1>2. PInv => OneFoundation
  BY DEF PInv, OneFoundation, AllKnow, OneCreates, Knows, Creating, At
<1> QED
  BY InitPInv, <1>1, <1>2, PTL DEF Spec

\* A job is planned only on a merged foundation, or on one whose CI had failed.
THEOREM FoundationFirst == Spec => []PlannedOnFoundation
<1>1. PInv /\ [Next]_vars => PInv'
  BY StepInv
<1>2. PInv => PlannedOnFoundation
  BY DEF PInv, PlannedOnFoundation, Store, Planned, Founded
<1> QED
  BY InitPInv, <1>1, <1>2, PTL DEF Spec

\* A dispatched Planner belongs to a job that is planned on disk too.
THEOREM PlannerAfterPlan == Spec => []PlannerOfPlannedJob
<1>1. PInv /\ [Next]_vars => PInv'
  BY StepInv
<1>2. PInv => PlannerOfPlannedJob
  BY DEF PInv, PlannerOfPlannedJob, Dispatched
<1> QED
  BY InitPInv, <1>1, <1>2, PTL DEF Spec

\* No step makes the catalog forget a foundation (catalog.go, Save and Refresh).
THEOREM CatalogRemembers == Spec => FoundationRemembered
<1>1. PInv /\ [Next]_vars => PInv'
  BY StepInv
<1>2. PInv /\ [Next]_vars => [\A r \in Repos : catalog[r] # "none" => catalog'[r] # "none"]_vars
  <2> SUFFICES ASSUME PInv, Next, NEW r \in Repos, catalog[r] # "none"
               PROVE  catalog'[r] # "none"
    OBVIOUS
  <2>1. CASE UNCHANGED catalog
    BY <2>1
  <2>2. ASSUME NEW p \in Procs, NEW f \in Foundations, catalog' = Kept(Repo(p), f)
        PROVE  catalog'[r] # "none"
    BY <2>2 DEF Kept, PInv, PlanningTypeOK
  <2>3. ASSUME NEW p \in Procs, Refresh(p) PROVE catalog'[r] # "none"
    <3>1. catalog' = Kept(Repo(p), proc[p].seen) /\ proc[p].seen \in Foundations
      BY <2>3 DEF Refresh, PInv, PlanningTypeOK
    <3> QED
      BY <2>2, <3>1
  <2>4. ASSUME NEW p \in Procs, Step(p) PROVE catalog'[r] # "none"
    BY <2>1, <2>2, <2>3, <2>4 DEF Step, Read, Ready, Commit, Push, Create, Record, Check,
       Checks, Block, Merge, Hold, Plan, Start, Fail, Lost, Foundations
  <2> QED
    BY <2>1, <2>4 DEF Next, Call, Tick, TakeNext, CIEnds, HeadMoves, Vanish, Crash
<1> QED
  BY InitPInv, <1>1, <1>2, PTL DEF Spec, FoundationRemembered

\* Every call is at one of the points of a tool, with a job unless it is idle, and
\* catalog, branch and pull request are in one of their states (foundation planning).
THEOREM PlanningTypeCorrect == Spec => []PlanningTypeOK
<1>1. PInv /\ [Next]_vars => PInv'
  BY StepInv
<1>2. PInv => PlanningTypeOK
  BY DEF PInv
<1> QED
  BY InitPInv, <1>1, <1>2, PTL DEF Spec
=============================================================================
