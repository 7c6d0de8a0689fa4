CONSTANTS
    NoCode = NoCode
    Requests = {r1, r2, r3}
    MaxRequests = 2
    MaxAttempts = 2
    MaxCuts = 1
    MaxResets = 2
SPECIFICATION FairSpec
INVARIANT UpdatedMeansStored
CHECK_DEADLOCK FALSE
