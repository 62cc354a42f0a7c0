SPECIFICATION Spec
CONSTANTS
    p1 = p1   t1 = t1   t2 = t2
    i1 = i1   i2 = i2   j1 = j1   j2 = j2
    NoInst = NoInst   NoPlan = NoPlan   NoJob = NoJob   NoToken = NoToken
    Plans = {p1}
    Tokens = {t1, t2}
    TokenPlan <- OnePlanTokens
    Expiry <- OnePlanExpiry
    Instances = {i1, i2}
    JobIds = {j1, j2}
    Dir <- OneDir
    Budget = 1
    MaxTime = 2
    MaxRetries = 1
    MaxReady = 1
SYMMETRY InstancesAndJobs
INVARIANTS AtMostOneSubmission SubmissionRemembered FinishedTruthfully
PROPERTIES MonitorBudgetKept
CHECK_DEADLOCK FALSE
