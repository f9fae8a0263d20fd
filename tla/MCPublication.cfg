\* One task and up to three repairs of it; one crash, one failing call or one push
\* of somebody else, anywhere.
SPECIFICATION FairPublication
CONSTANTS
    MaxTasks = 4
    MaxSHA = 6
    MaxAttempts = 1
    MaxFailures = 5
    Runs <- AllDispatches
    NoRun = NoRun
    Prints = {"p1"}
    NoPrint = NoPrint
    Feedbacks = {"f1"}
    Slots = {1}
    Scenarios <- OneIncident
    MaxPushes = 1
INVARIANTS
    PublicationTypeOK
    MergedAfterReview
    MergedHeadPassed
    RemediationStops
PROPERTIES
    
    
    MergeIsRecorded
CHECK_DEADLOCK FALSE
