\* Two workers whose sessions overlap on one case, which the services may fail for,
\* and two requests of staff or losses of sessions.
SPECIFICATION Spec
CONSTANTS
    Cases = {c1}
    Unreachable = {c1}
    Limit = 1
    Workers = {w1, w2}
    Idle = Idle
    MaxAlerts = 4
    MaxEvents = 2
SYMMETRY Symmetry
INVARIANTS AlertsFollowVerdict ResolvedIsScheduled AlertsBounded
CHECK_DEADLOCK FALSE
