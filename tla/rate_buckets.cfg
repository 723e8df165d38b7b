CONSTANTS
    Handler = {h1, h2}
    Burst = 2
    Refill = 1
    Window = 2
    TTL = 2
    MaxTime = 6
    MaxEntries = 3
    MaxRequests = 6
SYMMETRY Handlers
SPECIFICATION Spec
CHECK_DEADLOCK FALSE
INVARIANT TypeOK
INVARIANT AtMostTwoBuckets
