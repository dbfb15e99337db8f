\* Two attempts at a time for one identifier behind one address, with lost calls.
SPECIFICATION FairSpec
CONSTANTS
    Attempts = {t1, t2}
    Identifiers = {i1}
    Addresses = {a1}
    IdentifierLimit = 1
    AddressLimit = 2
    MaxCount = 2
INVARIANTS TypeOK WindowlessExplained LocksAreEarned FullCounterLocks
PROPERTY Recovers
CHECK_DEADLOCK FALSE
