\* Two accounts created at a time, two sessions, two refreshes that overlap.
SPECIFICATION Spec
CONSTANTS
    Accounts = {a1, a2}
    Emails = {e1, e2}
    Phones = {p1}
    Sessions = {s1, s2}
    Refreshes = {x1, x2}
    Tokens = {t1, t2, t3}
    Nothing = Nothing
SYMMETRY Symmetry
INVARIANTS PhoneOnlyIsUnique OneLiveToken ClientKeepsToken
PROPERTIES EndedStaysEnded
CHECK_DEADLOCK FALSE
