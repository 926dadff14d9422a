SPECIFICATION Spec
CONSTANTS
    Tier = {t1}
    Booking = {b1}
    Pilgrim = {p1, p2}
    Payment = {m1, m2}
    Refund = {r1, r2}
    None = None
    Price = 10
    ChargePerPilgrim = {1, 10}
    Quota = {2}
    PaymentAmount = {6, 11}
    RefundAmount = {5, 9}
    MaxPilgrims = 2
SYMMETRY RowSymmetry
CHECK_DEADLOCK FALSE
INVARIANT
    PaidBookingIsNotHeld
