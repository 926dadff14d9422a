SPECIFICATION FairSpec
CONSTANTS
    book = book
    visa = visa
    Item = {book, visa}
    Product = {book}
    Stock = 1
    MaxPiece = 1
    MaxKey = 4
    Nothing = Nothing
CHECK_DEADLOCK FALSE
INVARIANTS
    NothingUnseen
    RetriesAgree
PROPERTY RetryShowsTheSale
