SPECIFICATION FairSpec
CONSTANTS
    MaxKey = 1
    Attempts = 2
    MaxStalls = 1
    FirstStage = "validation"
    MaxCrashes = 2
    BootOrder <- ConsumersFirst
    MaxFaults = 0
    Repeats = TRUE
    Faults = {}
INVARIANTS
    QueuesAgree
    ExhaustedIsRecoverable
    NoStrandedInvoice
PROPERTIES
    EventuallySettles
CHECK_DEADLOCK FALSE
