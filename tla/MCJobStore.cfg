\* One task through revisions, retries, adopted reviewers and redelivered reports; and
\* plans of one or two tasks with the remediation task a failed CI adds.
SPECIFICATION MCSpec
CONSTANTS
    MaxTasks = 2
    MaxSHA = 2
    MaxAttempts = 2
    MaxFailures = 3
    r1 = r1
    r2 = r2
    Runs <- TwoRuns
    NoRun = NoRun
    Prints = {p1}
    NoPrint = NoPrint
    Feedbacks = {f1}
INVARIANTS
    TypeOK
    AttemptsLedger
    OnlyApprovedWorkAdvances
    OneReportPerRun
    IntegrationInOrder
    WholePlanFinished
PROPERTY ApprovalPinsCommit
CHECK_DEADLOCK FALSE
