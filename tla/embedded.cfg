SPECIFICATION Spec
CONSTANTS
    Char = {"a", "b", "s", "n", "-", ":", "0", "1"}
    Process = {p1, p2}
    Environment <- MCEnvironment
    Libraries <- MCLibraries
    UUID <- MCUUID
    MaxDefs = 2
    MaxStarts = 2
    PageSize = 1
    MaxLength = 14
SYMMETRY Symmetry
INVARIANTS
    Inv
    RunsAsAsked
    FoundAsStarted
CHECK_DEADLOCK FALSE
