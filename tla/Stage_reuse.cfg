SPECIFICATION FairSpec
CONSTANTS
    MaxKey = 2
    Attempts = 2
    MaxStalls = 0
    FirstStage = "generation"
    MaxCrashes = 0
    BootOrder <- ConsumersFirst
    MaxFaults = 1
    Repeats = TRUE
    Faults = {"rejected", "uncertain", "listener"}
INVARIANTS
    DocumentsMatchStatus
PROPERTIES
    StaleWorkIsHarmless
CHECK_DEADLOCK FALSE
