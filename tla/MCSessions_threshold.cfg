CONSTANTS
    Users = {u1}
    Requests = {r1, r2, r3, r4}
    FirstPassword = p0
    None = none
    Kinds = {"login"}
    Mistypes = TRUE
    RequireEmailVerification = FALSE
    LockoutThreshold = 3
    LockoutDuration = 2
    AccessTtl = 2
    RefreshTtl = 3
    SsoTtl = 2
    ResetTtl = 2
    MaxTime = 0
    MaxFaults = 0
SPECIFICATION Spec
INVARIANTS
    LockTakesThresholdFailures
SYMMETRY Symmetry
