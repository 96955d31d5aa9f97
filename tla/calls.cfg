SPECIFICATION Spec
CONSTANTS
    c1 = c1
    c2 = c2
    Caller = {c1, c2}
    Req = {r1, r2}
    NoItem = NoItem
    MaxVersion = 1
    Faults = {"abandon", "resend"}
    Backoffs = 1
    w1 = w1
    w2 = w2
    w3 = w3
    Workflow = {w1, w2, w3}
    CreatedAt <- MCCreatedAt
    Limit = 2
    Workloads <- MCWorkloads
INVARIANTS
    Inv
    ToldIsStored
    PostTakesEffectOnce
    RefusedHasNoEffect
    AnswersUnderstood
    NothingListedTwice
    OnlyTiesSkipped
PROPERTIES
    EveryCallReturns
CHECK_DEADLOCK FALSE
