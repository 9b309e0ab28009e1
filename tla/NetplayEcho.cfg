CONSTANTS
    Host = host
    Client = client
    Buttons = {A}
    HistoryLimit = 2
    MaxDelay = 0
    MaxFrame = 3
    MaxKeys = 1
    MaxEdits = 0
    MaxInputs = 2
    MaxSums = 0
    Repeats = FALSE
SPECIFICATION Spec
INVARIANTS
    OnlyLocalButtonsAreSent
CHECK_DEADLOCK FALSE
