SPECIFICATION Spec
CONSTANTS
    BYTE = 256
    MAX_OPS = 3
    Counts = {0, 1, 2, 3, 4, 257}
    Transactions <- MCTransactions
INVARIANTS
    TypeOK
    PagesAreHonest
PROPERTIES
    ImplementsSlideshow
    MalformedIsRefused
    RefusalComesNearer
