CONSTANTS
    Worker = {w1, w2}
    Request <- Retried
    NoKey = "none"
    NoRow = NoRow
    NoRequest = NoRequest
    TTL = 2
    MaxTime = 0
    MaxRuns = 2
    MaxFaults = 0
SYMMETRY Handlers
SPECIFICATION Spec
CHECK_DEADLOCK FALSE
INVARIANT NoDuplicate
