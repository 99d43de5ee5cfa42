SPECIFICATION ReviewFairSpec
CONSTANTS
    t = t
    MaxKey = 1
    Attempts = 2
    MaxStalls = 1
    FirstStage = "text-extraction"
    MaxCrashes = 0
    BootOrder <- ConsumersFirst
    MaxFaults = 0
    Repeats = FALSE
    Faults = {}
    Reviewers = {}
    Retriers = {t}
    MaxVersion = 2
    MaxRetries = 2
INVARIANTS
    NoStrandedReview
    RetriesKeepRecoverable
PROPERTIES
    EventuallySettles
CHECK_DEADLOCK FALSE
