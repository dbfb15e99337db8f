\* Three overlapping requests, amounts of whole hundredths.
SPECIFICATION Spec
CONSTANTS
    Items = {i1}
    Requests = {r1, r2, r3}
    Cent = 2
    Capacity = 3
    Changes <- Whole
    LastDay = 1
SYMMETRY Symmetry
INVARIANT LedgerBalances
CHECK_DEADLOCK FALSE
