SPECIFICATION Spec
CONSTANTS
    Branch = {b1, b2}
    Emits = {"taskFailed", "stateAborted"}
    MaxEvents = 8
SYMMETRY Symmetry
CHECK_DEADLOCK FALSE
INVARIANTS LastJobIsWhereItFailed
