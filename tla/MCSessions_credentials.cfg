CONSTANTS
    Users = {u1}
    Requests = {r1, r2, r3, r4}
    FirstPassword = p0
    None = none
    Kinds = {"login", "createSsoTicket", "redeemSsoTicket",
             "forgotPassword", "resetPassword"}
    Mistypes = TRUE
    RequireEmailVerification = FALSE
    LockoutThreshold = 3
    LockoutDuration = 1
    AccessTtl = 3
    RefreshTtl = 3
    SsoTtl = 1
    ResetTtl = 1
    MaxTime = 2
    MaxFaults = 1
SPECIFICATION Spec
CONSTRAINT CredentialScenarios
INVARIANTS
    LockMatchesCounter
    LockOpenedByRaceOnly
    TicketRedeemedOnce
    NewerMailSupersedes
PROPERTIES
    TicketsAreSingleUse
    ResetTokensAreSingleUse
SYMMETRY Symmetry
