CONSTANTS
    Users = {u1}
    Requests = {r1, r2, r3, r4}
    FirstPassword = p0
    None = none
    Kinds = {"login", "refresh", "logout",
             "validateToken", "me", "changePassword", "revokeAllSessions",
             "forgotPassword", "resetPassword", "createSsoTicket",
             "redeemSsoTicket", "ban", "changeEmail",
             "verifyEmail"}
    Mistypes = FALSE
    RequireEmailVerification = TRUE
    LockoutThreshold = 3
    LockoutDuration = 2
    AccessTtl = 1
    RefreshTtl = 2
    SsoTtl = 1
    ResetTtl = 1
    MaxTime = 2
    MaxFaults = 1
SPECIFICATION Spec
CONSTRAINT SessionScenarios
INVARIANTS
    TypeOK
    LogoutIsFinal
    SpentTokenBuysNothing
    CutSessionsStayOut
    BannedGetsNothing
    UnverifiedGetsNoLogin
PROPERTIES
    DenialsAreForever
SYMMETRY Symmetry
