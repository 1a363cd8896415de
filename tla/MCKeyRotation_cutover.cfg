CONSTANTS
    Kids = {k1, k2}
    LegacyKid = legacy
    NoFile = nofile
    Truncated = truncated
    FirstKid = k1
    LegacyLayout = TRUE
    MaxKeys = 1
SPECIFICATION Spec
INVARIANTS
    LegacyTokensSurvive
CHECK_DEADLOCK FALSE
