\* A crash, and a review of the first commit delivered after the second.
SPECIFICATION Spec
CONSTANTS
    MaxTasks = 1
    MaxSHA = 4
    MaxAttempts = 2
    MaxFailures = 0
    Runs <- AllDispatches
    NoRun = NoRun
    Prints = {}
    NoPrint = NoPrint
    Feedbacks = {"f1"}
    Slots = {1}
    Scenarios <- Adoption
INVARIANTS
    VerdictIsOfThisCommit
CHECK_DEADLOCK FALSE
