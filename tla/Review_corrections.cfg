SPECIFICATION ReviewSpec
CONSTANTS
    a = a
    b = b
    MaxKey = 1
    Attempts = 2
    MaxStalls = 1
    FirstStage = "generation"
    MaxCrashes = 1
    BootOrder <- ConsumersFirst
    MaxFaults = 0
    Repeats = TRUE
    Faults = {}
    Reviewers = {a, b}
    Retriers = {}
    MaxVersion = 2
    MaxRetries = 2
INVARIANTS
    ReviewTypeOK
    LatestCorrectionGenerated
    OnlyFailedJobsStrand
SYMMETRY Symmetry
CHECK_DEADLOCK FALSE
