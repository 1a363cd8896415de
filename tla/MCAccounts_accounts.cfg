CONSTANTS
    Requests = {r1, r2, r3}
    Founder = founder
    Emails = {e1, e2}
    FounderEmail = e1
    Phones = {p1}
    Codes = {c1, c2}
    NoPhone = nophone
    None = none
    Kinds = {"register", "updateProfile", "resendVerification", "verifyEmail",
             "forgotPassword", "resetPassword"}
SPECIFICATION Spec
CONSTRAINT AccountScenarios
INVARIANTS
    TypeOK
    PhonesAreSharedByRacesOnly
    VerifiedInSequenceIsProven
    CodeSpentOnce
    ResetMatchesMail
SYMMETRY Symmetry
