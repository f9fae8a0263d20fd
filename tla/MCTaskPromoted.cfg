\* Two tasks, the second approved before the first turns out to need no changes.
SPECIFICATION Spec
CONSTANTS
    MaxTasks = 2
    MaxSHA = 4
    MaxAttempts = 1
    MaxFailures = 0
    Runs <- AllDispatches
    NoRun = NoRun
    Prints = {}
    NoPrint = NoPrint
    Feedbacks = {"f1"}
    Slots = {1}
    Scenarios <- Promotion
INVARIANTS
    ApprovedIsPromoted
CHECK_DEADLOCK FALSE
