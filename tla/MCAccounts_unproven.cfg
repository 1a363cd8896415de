CONSTANTS
    Requests = {r1, r2, r3}
    Founder = founder
    Emails = {e1, e2}
    FounderEmail = e1
    Phones = {}
    Codes = {c1, c2}
    NoPhone = nophone
    None = none
    Kinds = {"updateProfile", "resendVerification", "verifyEmail"}
SPECIFICATION Spec
INVARIANTS
    VerifiedIsProven
SYMMETRY Symmetry
