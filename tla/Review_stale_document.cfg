SPECIFICATION ReviewSpec
CONSTANTS
    a = a
    MaxKey = 1
    Attempts = 2
    MaxStalls = 1
    FirstStage = "generation"
    MaxCrashes = 0
    BootOrder <- ConsumersFirst
    MaxFaults = 1
    Repeats = TRUE
    Faults = {"uncertain"}
    Reviewers = {a}
    Retriers = {}
    MaxVersion = 2
    MaxRetries = 2
INVARIANTS
    LatestCorrectionGenerated
CHECK_DEADLOCK FALSE
