\* redis.session.lock_expire is not set: PS_WRITE takes the lock for granted.
CONSTANTS
    p1 = p1
    p2 = p2
    s1 = s1
    None = None
    Procs = {p1, p2}
    Sids = {s1}
    LockExpire = 0
    MaxExecutionTime = 30
    LockRetries = 1
    LockFailureReadonly = TRUE
    EarlyRefresh = FALSE
    StrictMode = FALSE
    ReleaseCmd = "EVAL"
    ServerHasReleaseCmd = FALSE
    Cookies = {s1}
    Scripts = {"write"}
    MaxOpens = 2
    MaxFaults = 0
SPECIFICATION Spec
PROPERTIES WriteAllowedHolds
