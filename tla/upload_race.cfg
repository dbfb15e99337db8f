\* One automatic upload without faults, and nobody who asks again: the worker may
\* look for the upload before its commit.
SPECIFICATION FairSpec
CONSTANTS
    Requests = {r1}
    Automatic = {r1}
    Nobody = Nobody
    MaxOcrRetries = 3
    MaxAiRetries = 2
    Faults = {}
PROPERTY AutomaticLeavesPending
CHECK_DEADLOCK FALSE
