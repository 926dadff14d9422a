SPECIFICATION FairSpec
CONSTANTS
    Group = 2
    Prices = {22}
    ChargePerPilgrim = {3, 22}
    Amount = {12, 36}
    MaxReceived = 48
CHECK_DEADLOCK FALSE
INVARIANTS
    TypeOK
    PlanAsksForWhatIsOwed
    ReceiptsAreOnThePlan
    OldestPaidNewestWaived
    PaidMeansNothingLeft
PROPERTIES
    DefaultsOnlyWhenOwing
    
    ImplementsReceivable
