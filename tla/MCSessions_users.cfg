CONSTANTS
    Users = {u1, u2}
    Requests = {r1, r2, r3}
    FirstPassword = p0
    None = none
    Kinds = {"login", "refresh", "validateToken",
             "changePassword", "revokeAllSessions"}
    Mistypes = FALSE
    RequireEmailVerification = FALSE
    LockoutThreshold = 3
    LockoutDuration = 2
    AccessTtl = 2
    RefreshTtl = 2
    SsoTtl = 2
    ResetTtl = 2
    MaxTime = 1
    MaxFaults = 0
SPECIFICATION FairSpec
INVARIANTS
    RefusedForCause
PROPERTIES
    CutTakesHold
