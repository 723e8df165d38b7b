CONSTANTS
    Worker = {w1, w2}
    Request <- AnyRequest
    NoKey = "none"
    NoRow = NoRow
    NoRequest = NoRequest
    TTL = 2
    MaxTime = 3
    MaxRuns = 4
    MaxFaults = 2
SYMMETRY Handlers
SPECIFICATION Spec
CHECK_DEADLOCK FALSE
INVARIANT TypeOK
INVARIANT ReplayFaithful
INVARIANT ReplayStable
INVARIANT DuplicatesPaidFor
