CONSTANTS
    Devices = {d1, d2}
    Ports = {p1}
    NoPort = none
    MaxChunks = 3
    MaxSends = 3
SPECIFICATION FairSpec
INVARIANTS
    ButtonIsTrue
    StreamsAreKept
PROPERTIES
    UploadStartsClear
    Settles
CHECK_DEADLOCK FALSE
