\* Four creations under two prefixes; no symmetry under liveness.
SPECIFICATION FairSpec
CONSTANTS
    Prefixes = {p1, p2}
    Requests = {r1, r2, r3, r4}
INVARIANTS NumbersGapless
PROPERTIES ImplementsRegister CreationEnds
CHECK_DEADLOCK FALSE
