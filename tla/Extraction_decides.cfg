SPECIFICATION FairSpec
CONSTANTS
    p = p
    q = q
    Attempts = 2
    MaxCrashes = 2
    MaxPages = 2
    Identities = {p, q}
    Configured = p
    MaxSwitches = 2
INVARIANTS
    NeverPaysTwice
    ReadsWhatWasAccepted
PROPERTIES
    VerdictIsDeserved
    RetriesNeedTrouble
    ParserGone
    EventuallyDecides
CHECK_DEADLOCK FALSE
