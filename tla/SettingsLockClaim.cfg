CONSTANTS
    d1 = d1
    d2 = d2
    Devices <- MCDevices
    NoDevice = NoDevice
    Keys = {k1, k2}
    NoKey = NoKey
    ByName <- MCByName
SPECIFICATION Spec
INVARIANT
    SettingsLockHolds
CHECK_DEADLOCK FALSE
