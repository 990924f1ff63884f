CONSTANTS
    MaxRuns = 2
SPECIFICATION Spec
INVARIANTS
    RunsAreAccountedFor
    BurnsInOrder
CHECK_DEADLOCK FALSE
