CONSTANTS
    Paths = {"app", "out"}
    Absent = absent
    Texts <- MCTexts
    Value <- MCValue
    Zero = "0x0"
    Pad = 0
    Output = "out"
    Loaded <- MCLoaded
    Builds <- MCBuilds
    KnownAddress <- MCKnownAddress
    AddAddress = "0x1"
    MaxRows = 3
    MaxEdits = 2
    MaxBuilds = 1
SPECIFICATION FirmwareSpec
INVARIANTS
    ChecksAreSound
PROPERTIES
    MergeIsFaithful
CHECK_DEADLOCK FALSE
