CONSTANTS
    User = {"ann", "bob"}
    Record = {"r1", "r2", "r3"}
    Inserts <- MCInserts
    Updates <- MCUpdates
    Worker = {w1, w2}
    Scale = 4
    MaxStored = 6
    MaxEvents = 5
    Queries <- MCQueries
    PageSizes = {0, 2}
    LastPage = 2
    DefaultSize = 1
    LargestSize = 2
SYMMETRY Handlers
SPECIFICATION Spec
INVARIANT TypeOK
INVARIANT TrailReplays
INVARIANT AddressUnique
INVARIANT DashboardFromTrail
PROPERTY DeletedStaysDeleted
PROPERTY UpdateAnswersTrue
PROPERTY PageTurns
