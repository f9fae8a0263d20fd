\* Two jobs, in one repository or in two, and calls of start_planning beside the ticker.
SPECIFICATION FairSpec
CONSTANTS
    j1 = j1
    j2 = j2
    a = a
    b = b
    c1 = c1
    c2 = c2
    Repos = {a, b}
    Newest <- TwoJobs
    Calls = {c1, c2}
    Ticker = Ticker
    NoJob = NoJob
    Mixes <- AllMixes
INVARIANTS
    PlanningTypeOK
    
    PlannedOnFoundation
    PlannerOfPlannedJob
PROPERTIES
    FoundationRemembered
    HeldJobsArePlanned
CHECK_DEADLOCK FALSE
