\* Plans of one and two tasks; crashes, failing calls and retries anywhere.
SPECIFICATION Spec
CONSTANTS
    MaxTasks = 2
    MaxSHA = 4
    MaxAttempts = 3
    MaxFailures = 0
    Runs <- AllDispatches
    NoRun = NoRun
    Prints = {}
    NoPrint = NoPrint
    Feedbacks = {"f1", "f2"}
    Slots = {1}
    Scenarios <- SafetyScenarios
INVARIANTS
    ReportsNameTheirCommit
    
    MergedIsReviewed
    ApprovalIsOfThisCommit
    DependenciesFirst
PROPERTIES
    ReviewsStand
    
    FinishedIsNotBlocked
CHECK_DEADLOCK FALSE
