SPECIFICATION Spec
CONSTANTS
    WorkflowIDs = {w1, w2}
    NoID = NoID
    Req = {r1, r2}
    Ops = {"start", "get", "cancel", "resolve", "resume"}
    Faults = {"abandon", "ambiguousStart", "resend", "dropEvent", "redeliver"}
SYMMETRY Symmetry
ACTION_CONSTRAINT RetryAlone
INVARIANTS Inv StatusTruthful ResolvedWhenFinished
PROPERTIES OnlyStalePutsRegress
CHECK_DEADLOCK FALSE
