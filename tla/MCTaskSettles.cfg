\* Plans of one and two tasks, and a task that goes through four attempts.
SPECIFICATION FairSpec
CONSTANTS
    MaxTasks = 2
    MaxSHA = 5
    MaxAttempts = 4
    MaxFailures = 0
    Runs <- AllDispatches
    NoRun = NoRun
    Prints = {}
    NoPrint = NoPrint
    Feedbacks = {"f1", "f2"}
    Slots = {1}
    Scenarios <- FairScenarios
INVARIANTS
    RevisionLoopStops

    
    
CHECK_DEADLOCK FALSE
