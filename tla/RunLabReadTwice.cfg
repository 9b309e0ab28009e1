CONSTANTS
    A = A
    Left = Left
    Buttons = {A}
    StepKeys = {}
    Lines <- QueueLines
    MaxPending = 2
    MaxFrames = 3
    MaxNotes = 1
    MaxLines = 2
    MaxEvents = 0
    MaxHits = 0
    MayDelete = FALSE
SPECIFICATION Spec
INVARIANTS
    EachLineIsReadOnce
