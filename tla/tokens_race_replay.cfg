CONSTANTS
    User = {"ann"}
    Worker = {w1, w2}
    MaxTokens = 3
    Ignored = {}
SYMMETRY Handlers
SPECIFICATION Spec
INVARIANT ReplayEndsFamily
