\* Three requests or task runs that overlap on one item, amounts of half a hundredth included.
SPECIFICATION Spec
CONSTANTS
    Items = {i1}
    Requests = {r1, r2, r3}
    Cent = 2
    Capacity = 3
    Changes <- Fractions
    LastDay = 1
SYMMETRY Symmetry
INVARIANTS StockNeverNegative StockWasReceived LedgerAccounts RefusedMeansEmpty
CHECK_DEADLOCK FALSE
