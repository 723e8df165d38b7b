CONSTANTS
    User = {"ann"}
    Worker = {w1, w2}
    MaxTokens = 3
    Ignored = {"revoke_family", "retire"}
SYMMETRY Handlers
SPECIFICATION Spec
INVARIANT TypeOK
INVARIANT ReplayRecognised
INVARIANT SuccessorInFamily
PROPERTY DeadFamilyStaysDead
PROPERTY NoTokenWhileBlocked
