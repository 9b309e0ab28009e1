CONSTANTS
    A = A
    Left = Left
    Buttons = {Left}
    StepKeys = {Left}
    Lines <- PauseLines
    MaxPending = 2
    MaxFrames = 3
    MaxNotes = 1
    MaxLines = 1
    MaxEvents = 2
    MaxHits = 1
    MayDelete = TRUE
SPECIFICATION FairSpec
INVARIANTS
    UserPauseHolds
    StaleLinesAreIgnored
PROPERTIES
    HitPausesTheGame
