CONSTANTS
    MaxDevices = 2
    MaxEntries = 2
    MaxRecent = 2
    AppVersion <- MCVersion
    Bytes <- MCBytes
    Encodable <- MCEncodable
    MaxFileSize = 7
    Blank = Blank
    Unreadable = Unreadable
    DefaultChip = "esp32"
    DefaultBaud = "115200"
    KnownAddress <- MCKnownAddress
    BinNames = {"app.bin", "App.bin", "boot.bin"}
    Lower <- MCLower
    MaxRows = 3
    MaxSize = 3
    BaudRates = {300}
    FlashModes = {"dio"}
    AutoChip = "auto"
    DefaultSecurity = "default"
    LargestInt = 12
    LargestFloat = 16
    ChipTypes = {"auto", "esp32"}
    Tasks <- MCTasks
SPECIFICATION Spec
INVARIANTS
    ProjectSurvives
    ImportsAreExact
    SecurityIsSound
    SettingsHold
    ChecksAreExact
CHECK_DEADLOCK FALSE
