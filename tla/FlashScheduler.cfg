CONSTANTS
    Devices = {d1, d2, d3}
    Caps = {1, 2}
    MaxStarts = 2
SPECIFICATION Spec
SYMMETRY DeviceSymmetry
INVARIANTS
    TypeOK
    SchedulerInv
    RecordsAgree
    BatchExact
PROPERTIES
    SlotHandover
    ImplementsJobs
CHECK_DEADLOCK FALSE
