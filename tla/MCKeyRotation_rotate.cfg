CONSTANTS
    Kids = {k1, k2, k3}
    LegacyKid = legacy
    NoFile = nofile
    Truncated = truncated
    FirstKid = k1
    LegacyLayout = TRUE
    MaxKeys = 3
SPECIFICATION Spec
INVARIANTS
    TypeOK
    BootsAfterACrash
    LiveTokensVerify
    AppsVerifyLiveTokens
PROPERTIES
    DistrustedKeysAreRefused
CHECK_DEADLOCK FALSE
