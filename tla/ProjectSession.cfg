CONSTANTS
    Files = {f1, f2}
    Legacy = {old}
    NoPath = NoPath
    MaxEdits = 2
    MaxBoxes = 2
SPECIFICATION Spec
INVARIANTS
    CleanMeansSaved
    
    
PROPERTIES
    NothingDroppedUnasked
