SPECIFICATION Spec
CONSTANTS
    WorkflowIDs = {w1, w2, w3}
    NoID = NoID
    Req = {r1, r2}
    Ops = {"start", "resume"}
    Faults = {}
SYMMETRY Symmetry
PROPERTIES RetryIsExclusive
CHECK_DEADLOCK FALSE
