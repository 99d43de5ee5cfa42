SPECIFICATION FairSpec
CONSTANTS
    MaxKey = 1
    Attempts = 1
    MaxStalls = 0
    FirstStage = "text-extraction"
    MaxCrashes = 1
    BootOrder <- ProducersFirst
    MaxFaults = 1
    Repeats = FALSE
    Faults = {"rejected", "listener"}
INVARIANTS
    OnlyFaultsStrand
PROPERTIES
    RestartRecovers
CHECK_DEADLOCK FALSE
