SPECIFICATION Spec
CONSTANTS
    u = u
    v = v
    d = d
    Uploaders = {u, v}
    Deleters = {d}
    MaxKey = 2
    MaxMishaps = 1
INVARIANTS
    DeletedFilesAreErased
CHECK_DEADLOCK FALSE
