SPECIFICATION FairSpec
CONSTANTS
    Tier = {t1}
    Booking = {b1, b2}
    Pilgrim = {p1, p2}
    Payment = {m1}
    Refund = {r1, r2}
    None = None
    Price = 10
    ChargePerPilgrim = {1}
    Quota = {2}
    PaymentAmount = {6, 11}
    RefundAmount = {9}
    MaxPilgrims = 2
CHECK_DEADLOCK FALSE
INVARIANTS
    ClaimsWithinReceipts
PROPERTIES
    ExpiredHoldReleased
