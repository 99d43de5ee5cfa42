SPECIFICATION FairSpec
CONSTANTS
    MaxMoments = 3
    MaxData = 2
    MaxMishaps = 1
    MaxVisits = 2
    RetryLimit = 1
INVARIANTS
    ClientTypeOK
    NoSilentDeadEnd
    ConfirmedAgainstServer
PROPERTIES
    NeverGoesBack
    EditsSurvive
    EventuallyCurrent
CHECK_DEADLOCK FALSE
