\* The same requests when workers may be lost.
SPECIFICATION FairSpec
CONSTANTS
    Requests = {r1, r2}
    Automatic = {r1}
    Nobody = Nobody
    MaxOcrRetries = 3
    MaxAiRetries = 2
    Faults = {"crash"}
PROPERTY ProcessingEnds
CHECK_DEADLOCK FALSE
