SPECIFICATION Spec
CONSTANTS
    Tier = {t1}
    Booking = {b1, b2}
    Pilgrim = {p1, p2, p3}
    Payment = {m1, m2}
    Refund = {}
    None = None
    Price = 10
    ChargePerPilgrim = {10}
    Quota = {1, 3}
    PaymentAmount = {10}
    RefundAmount = {}
    MaxPilgrims = 2
SYMMETRY RowSymmetry
CHECK_DEADLOCK FALSE
INVARIANTS
    TypeOK
    SeatLedger
    NoOversell
    HoldMatchesStatus
    ReceiptsMatchPayments
    ConfirmedIsPaidFor
PROPERTIES
    NoLateConfirmation
    ImplementsInventory
