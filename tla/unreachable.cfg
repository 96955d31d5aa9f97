SPECIFICATION Spec
CONSTANTS
    Names = {a, b}
    NoState = NoState
    StartAt = a
    Machines <- AllMachines
INVARIANTS UnreachableIsDiscarded
CHECK_DEADLOCK FALSE
