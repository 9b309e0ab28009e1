CONSTANTS
    None = None
    DivPeriod = 256
    TimaPeriods <- TheTimaPeriods
    ReloadDelay = 4
    TimerTop = 255
    OAMCycles = 24
    TransferCycles = 28
    HBlankCycles = 28
    VisibleLines = 3
    TotalLines = 5
    FrameSequencerPeriod = 256
    FullLength <- TheFullLength
    SoundWrites <- TheSoundWrites
    SoundCycles <- TheSoundCycles
    RomBankSize = 16384
    RamBankSize = 8192
    Minute = 2
    Hour = 2
    Day = 2
    SerialCycles = 300
    SerialCyclesFast = 40
    HdmaBlock = 4
    OamBytes = 8
    Columns <- TheColumns
    Programs <- ThePrograms
    NoiseBytes = {7}
    Paks <- ThePaks
    TopCount = 7
    Prescalers <- ThePrescalers
    FifoSize = 8
    FifoLow = 4
    FifoUnits = 1
    WordSamples = 2
    FullCounts <- TheFullCounts
    RamWords = 4
    StackSize = 24
    WordBits = 3
    MaxContexts = 3
    Code <- TheCode
    ResetPc = 4
    RamPc = 7
    StackTops <- TheStackTops
    HblankStartCycle = 14
    CyclesPerLine = 20
    PictureLines = 2
    AllLines = 3
    CyclesPerSample = 2
    OldCyclesPerSample = 1
    OldPeriod = 1
    OldLengths <- TheOldLengths
    FlushThreshold = 4
    MixerTop = 7
    AudioSetups <- TheAudioSetups
    AudioWrites <- TheAudioWrites
    AudioSteps <- TheAudioSteps
    SampleKinds = 3
    AudioCycles = 6
    MaxNotes = 1
    InstructionLimit = 24
    RecoveryLimit = 10
    KeySets <- TheKeySets
    Setups <- TheSetups
    MaxFrames = 4
    BankSize = 4
    SectorSize = 2
    UnlockA = 1
    UnlockB = 2
    EepromBits = 2
    ShortAddress = 1
    LongAddress = 2
    LongestCommand = 8
    Chips <- TheChips
    Values = {15, 170, 240}
    MaxCommands = 3
    ScreenWidth = 4
    ScreenHeight = 3
    HalfWidth = 3
    HalfHeight = 2
    TileSize = 2
    MapTiles = 2
    CharSlots = 4
    CharLimit = 8
    ObjSlots = 8
    ObjRow = 4
    AffineSize = 4
    AffineOne = 2
    Intensity = 31
    Blends = 16
INIT ConsolesInit
NEXT ConsolesNext
INVARIANTS HandlerRunsOncePerOverflow HaltEnds  SoundEnds RtcKeepsTime CartStateSurvives InterruptsAreInvisible SamplesInOrder BackupKeepsWrites PixelIsTopLayer WideArithmetic SamplesOnTime
PROPERTY ReturnsWhereInterrupted
CHECK_DEADLOCK FALSE
