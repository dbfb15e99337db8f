\* Three workers that overlap on one case; no symmetry under liveness.
SPECIFICATION FairSpec
CONSTANTS
    Cases = {c1}
    Workers = {w1, w2, w3}
    MaxActs = 2
    MaxFaults = 1
INVARIANTS RunsReportNeglect RunsMissNothing DuplicatesBounded
PROPERTIES NeglectIsReported
CHECK_DEADLOCK FALSE
