CONSTANTS
    Ids = {d1, d2}
    Configs = {c1, c2}
    NoDevice = none
    MaxDepth = 2
SPECIFICATION Spec
CONSTRAINT ProfiledIsShort
SYMMETRY DeviceSymmetry
INVARIANTS
    HistoryIsTrue
PROPERTIES
    BusySpared
    ImplementsTimeline
CHECK_DEADLOCK FALSE
