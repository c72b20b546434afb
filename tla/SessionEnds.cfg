\* Every way a session ends: no lock TTL, DELIFEQ on a server that does not know it, two faults
CONSTANTS
    p1 = p1
    p2 = p2
    s1 = s1
    None = None
    Procs = {p1, p2}
    Sids = {s1}
    LockExpire = 0
    MaxExecutionTime = 0
    LockRetries = 1
    LockFailureReadonly = FALSE
    EarlyRefresh = FALSE
    StrictMode = TRUE
    ReleaseCmd = "DELIFEQ"
    ServerHasReleaseCmd = FALSE
    Cookies = {None, s1}
    Scripts = {"write", "touch", "abort", "destroy", "regenerate", "regenerate_delete"}
    MaxOpens = 1
    MaxFaults = 2
SPECIFICATION FairSpec
INVARIANTS TypeOK NoOrphanLock
PROPERTIES SessionsEnd LocksReleased
