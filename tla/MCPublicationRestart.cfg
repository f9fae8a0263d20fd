\* A restart between RecordIntegration and StartCI.
SPECIFICATION PublicationSpec
CONSTANTS
    MaxTasks = 3
    MaxSHA = 4
    MaxAttempts = 1
    MaxFailures = 5
    Runs <- AllDispatches
    NoRun = NoRun
    Prints = {"p1"}
    NoPrint = NoPrint
    Feedbacks = {"f1"}
    Slots = {1}
    Scenarios <- OneCrash
    MaxPushes = 0
INVARIANTS
    MergedHeadIsReviewed
CHECK_DEADLOCK FALSE
