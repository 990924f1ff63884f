CONSTANTS
    Devices = {d1, d2}
    MaxDialogs = 2
    MaxBatches = 1
    MaxReads = 1
    MaxOpened = 2
    Caps = {1, 2}
SPECIFICATION FairPortSpec
INVARIANTS
    BatchBooks
    FrontSparesFlash
PROPERTIES
    NothingAfterCancel
    EveryBatchEnds
    ImplementsPool
CHECK_DEADLOCK FALSE
