CONSTANTS
    MaxUnread = 3
SPECIFICATION FairRunSpec
INVARIANTS
    CompletedIsGenuine
    NoneForgotten
PROPERTIES
    ImplementsContract
    RunsEnd
CHECK_DEADLOCK FALSE
