CONSTANTS
    Devices = {d1, d2}
    Caps = {1, 2}
    MaxStarts = 2
    NoDevice = none
SPECIFICATION FairPanelSpec
INVARIANTS
    ActiveIsLocked
PROPERTIES
    EverythingEnds
CHECK_DEADLOCK FALSE
