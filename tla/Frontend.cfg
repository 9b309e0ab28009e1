CONSTANTS
    MaxHistory = 3
    RollbackWindow = 2
    MaxStates = 6
    Outstanding = 2
    Users = {ann, bob}
    Consoles <- TheConsoles
    TitleBatch = 1
    MaxLogins = 2
    MaxFailures = 1
    Urls = {avatar, badge, game}
    MaxImageRequests = 5
    Contents = {none, ann, bob}
    NoLogin = none
    MaxJobs = 3
    ProgressHistory = 3
    ProgressStates = 4
    Roms = {1, 2}
    MaxKills = 1
    MaxPrompts = 1
    MaxAsks = 1
    MaxFaults = 1
SYMMETRY Alike
SPECIFICATION MCSpec
CHECK_DEADLOCK FALSE
INVARIANTS
    PastIsTheMachines
    RequestsAreAnswered
    ImagesAreAnswered
    ShownIsOneUsers
    GameIsAskedFor
    PersistedLoginSurvives
    ProgressFollowsState
    NewestFeedbackIsShown
PROPERTIES
    KeepsPromise
