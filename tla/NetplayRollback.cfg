CONSTANTS
    Host = host
    Client = client
    Buttons = {A}
    HistoryLimit = 2
    MaxDelay = 2
    MaxFrame = 3
    MaxKeys = 4
    MaxEdits = 0
    MaxInputs = 2
    MaxSums = 0
    LossKeys = 1
    Repeats = TRUE
SPECIFICATION Spec
CONSTRAINT Bounded
INVARIANTS
    ConfirmedFramesAgree
    ConfirmedInputIsPeers
    NoKnownMisprediction
    MachineIsReplayOfHistory
    DelayIsExact
PROPERTIES
    KeepsPromise
CHECK_DEADLOCK FALSE
