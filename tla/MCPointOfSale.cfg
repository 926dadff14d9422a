SPECIFICATION Spec
CONSTANTS
    Items = 2
    Call = {c1, c2}
    Key = {k1, k2}
    None = None
    Cart <- Carts
    Count = {0, 2}
SYMMETRY CallSymmetry
INVARIANTS
    TypeOK
    StockConserved
    SaleMatchesIssues
    NoWaitCycle
PROPERTIES
    ImplementsShop
