CONSTANTS
    MaxDepth = 2
    Capacity = 3
    MaxChunk = 2
    DeviceLimit = 0
    MaxFrames = 4
    SoundChanges = 4
    MaxGates = 2
SPECIFICATION MCSpec
CHECK_DEADLOCK FALSE
PROPERTIES
    PictureNeverGoesBack
    LastPictureIsShown
    ShutdownEnds
    SoundNeverRepeats
    GateSilences
