\* Requests that interleave freely on one case.
CONSTANTS
    Cases = {c1}
    Volunteers = {v1, v2}
    Requests = {r1, r2, r3}
    Levels = {1, 2}
    NoVolunteer = NoVolunteer
SPECIFICATION Spec
SYMMETRY Symmetry
CHECK_DEADLOCK FALSE
INVARIANTS SnapshotsHold NewIsUntouched StatusExplained ClosedWasAssigned CounterWithinConfirmed RiskIsCurrent ReasonsKept
PROPERTIES ImplementsEvidence VerifiedOnlyFromNew
