CONSTANTS
    A = A
    Left = Left
    Buttons = {A}
    StepKeys = {}
    Lines <- QueueLines
    MaxPending = 2
    MaxFrames = 3
    MaxNotes = 1
    MaxLines = 3
    MaxEvents = 0
    MaxHits = 0
    MayDelete = FALSE
SPECIFICATION FairSpec
INVARIANTS
    NoLineIsSkipped
PROPERTIES
    QueueDrains
