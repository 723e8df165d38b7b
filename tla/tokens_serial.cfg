CONSTANTS
    User = {ann, bob}
    Worker = {w1}
    MaxTokens = 3
    Ignored = {}
SYMMETRY Peers
SPECIFICATION Spec
INVARIANT FamilyOfOneUser
INVARIANT OneUsablePerFamily
INVARIANT ReplayEndsFamily
INVARIANT LogoutEndsSessions
INVARIANT LoginsAudited
