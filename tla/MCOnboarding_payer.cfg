SPECIFICATION Spec
CONSTANTS
    Slug = {s1}
    Owner = {o1, o2}
    Request = {r1, r2}
    Staff = Staff
    None = None
SYMMETRY NameSymmetry
CHECK_DEADLOCK FALSE
INVARIANT PaidAgencyWasPaidFor
