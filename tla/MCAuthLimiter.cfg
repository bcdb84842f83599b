SPECIFICATION Spec
SYMMETRY Symmetry
CONSTANTS
    Requests = {r1, r2}
    Emails = {e1, e2}
    Ips = {i1}
    Limit = 1
    Challenged = TRUE
    Threshold = 1
    Window = 1
    Lock = 2
    MaxTime = 2
    MaxFailures = 2
    None = None
    Gone = Gone
INVARIANTS
    TypeOK
    LockEarned
    FailuresCount
    LockedIsRefused
