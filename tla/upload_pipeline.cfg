\* An automatic upload and a request for it, with errors, lost workers and every retry.
SPECIFICATION FairSpec
CONSTANTS
    Requests = {r1, r2}
    Automatic = {r1}
    Nobody = Nobody
    MaxOcrRetries = 3
    MaxAiRetries = 2
    Faults = {"error", "crash"}
CHECK_DEADLOCK FALSE
INVARIANTS TypeOK StatusSupported ExtractionsHaveText ProcessingExplained
PROPERTY ProcessingSettles
