SPECIFICATION FairSpec
CONSTANTS
    Slug = {s1, s2}
    Owner = {o1, o2}
    Request = {r1, r2}
    Staff = Staff
    None = None
CHECK_DEADLOCK FALSE
INVARIANTS
    TypeOK
    OneAgencyPerOwner
    AgencyMatchesSignup
    TrialIsVerified
PROPERTIES
    SuccessIsFinal
    PaymentIsAnswered
