SPECIFICATION ReviewSpec
CONSTANTS
    a = a
    t = t
    MaxKey = 2
    Attempts = 1
    MaxStalls = 0
    FirstStage = "generation"
    MaxCrashes = 0
    BootOrder <- ConsumersFirst
    MaxFaults = 1
    Repeats = FALSE
    Faults = {"rejected"}
    Reviewers = {a}
    Retriers = {t}
    MaxVersion = 1
    MaxRetries = 1
PROPERTIES
    CorrectsWhatWasSeen
    ImplementsPromise
CHECK_DEADLOCK FALSE
