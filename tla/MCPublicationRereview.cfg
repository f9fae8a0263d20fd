\* A push to an approved pull request, and a holistic rereview of it.
SPECIFICATION PublicationSpec
CONSTANTS
    MaxTasks = 3
    MaxSHA = 5
    MaxAttempts = 1
    MaxFailures = 5
    Runs <- AllDispatches
    NoRun = NoRun
    Prints = {"p1"}
    NoPrint = NoPrint
    Feedbacks = {"f1"}
    Slots = {1}
    Scenarios <- OnePush
    MaxPushes = 1
INVARIANTS
    ApprovalIsOfThisHead
CHECK_DEADLOCK FALSE
