\* redis.session.lock_expire is set: the lock may run out at any step; DELEX, GETEX, read-only
CONSTANTS
    p1 = p1
    p2 = p2
    s1 = s1
    None = None
    Procs = {p1, p2}
    Sids = {s1}
    LockExpire = 30
    MaxExecutionTime = 0
    LockRetries = 1
    LockFailureReadonly = TRUE
    EarlyRefresh = TRUE
    StrictMode = FALSE
    ReleaseCmd = "DELEX"
    ServerHasReleaseCmd = TRUE
    Cookies = {s1}
    Scripts = {"write", "touch", "destroy"}
    MaxOpens = 2
    MaxFaults = 1
SPECIFICATION Spec
SYMMETRY Symmetry
INVARIANTS MutualExclusion StableSession
PROPERTIES StoreSpec
