SPECIFICATION FairSpec
CONSTANTS
    Names = {a, b, c}
    NoState = NoState
    StartAt = a
    Machines <- AllMachines
INVARIANTS Inv ReachableIsKept OrderDoesNotMatter
PROPERTIES Terminates
CHECK_DEADLOCK FALSE
