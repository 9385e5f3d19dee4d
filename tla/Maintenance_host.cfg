SPECIFICATION Spec
CONSTANTS
    AppRows = {"a1"}
    ChatRows = {"c1"}
    Head = 2
    Keep = 1
    MaxKeys = 3
    MaxActs = 5
    MaxCrashes = 1
INVARIANTS
    TypeOK
    NothingLost
    WayBack
PROPERTIES
    DoneMeansReadable
CHECK_DEADLOCK FALSE
