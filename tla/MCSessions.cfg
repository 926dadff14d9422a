SPECIFICATION FairSpec
CONSTANTS
    t1 = t1
    t2 = t2
    c1 = c1
    Tab = {t1, t2}
    Call = {c1}
    TabOf <- First
    MaxSecond = 2
    MaxForm = 1
CHECK_DEADLOCK FALSE
INVARIANTS
    SessionEndsForAReason
    SignOutSticks
    CarriedOutOnce
PROPERTY CallsEnd
