SPECIFICATION RepairSpec
CONSTANTS
    w1 = w1
    w2 = w2
    r1 = r1
    r2 = r2
    WorkflowIDs = {w1, w2}
    NoID = NoID
    Req = {r1, r2}
    Ops = {"start", "get", "cancel", "resolve", "resume"}
    Faults = {"abandon", "dropEvent", "redeliver"}
    Scenarios <- MCScenarios
INVARIANTS RetryAfterEnd NoUntrackedExecutions
PROPERTIES EndIsRecorded PollingRepairs
CHECK_DEADLOCK FALSE
