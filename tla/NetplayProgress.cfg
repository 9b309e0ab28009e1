CONSTANTS
    Host = host
    Client = client
    Buttons = {A}
    HistoryLimit = 2
    MaxDelay = 1
    MaxFrame = 2
    MaxKeys = 1
    MaxEdits = 1
    MaxInputs = 2
    MaxSums = 2
    Repeats = FALSE
SPECIFICATION FairSpec
INVARIANTS
    DesyncHasACause
PROPERTIES
    NeverWaitsForPeer
CHECK_DEADLOCK FALSE
