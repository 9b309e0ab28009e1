CONSTANTS
    MaxPrompts = 2
    MaxAsks = 2
    MaxFaults = 0
SPECIFICATION PromptSpec
CHECK_DEADLOCK FALSE
INVARIANTS
    NoneMeansNone
