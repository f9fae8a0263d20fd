\* A retry while the outcome it supersedes is being applied.
SPECIFICATION Spec
CONSTANTS
    MaxTasks = 1
    MaxSHA = 4
    MaxAttempts = 2
    MaxFailures = 0
    Runs <- AllDispatches
    NoRun = NoRun
    Prints = {}
    NoPrint = NoPrint
    Feedbacks = {"f1"}
    Slots = {1}
    Scenarios <- Supersession
PROPERTIES
    SupersededIsRetained
CHECK_DEADLOCK FALSE
