CONSTANTS
    A = A
    Left = Left
    Buttons = {A}
    StepKeys = {}
    Lines <- PauseLines
    MaxPending = 2
    MaxFrames = 3
    MaxNotes = 1
    MaxLines = 1
    MaxEvents = 0
    MaxHits = 0
    MayDelete = FALSE
SPECIFICATION Spec
INVARIANTS
    PauseCommandPauses
