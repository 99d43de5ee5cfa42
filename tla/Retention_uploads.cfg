SPECIFICATION FairSpec
CONSTANTS
    u = u
    v = v
    d = d
    Uploaders = {u, v}
    Deleters = {d}
    MaxKey = 2
    MaxMishaps = 1
INVARIANTS
    MarkedIsGone
    SourceKept
    FilesAreOwned
PROPERTIES
    SparesTheLiving
    EventuallyErased
CHECK_DEADLOCK FALSE
