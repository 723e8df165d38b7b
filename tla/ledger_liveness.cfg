CONSTANTS
    Scale = 1
    MaxStored = 6
    User = {"ann", "bob"}
    Account = {1, 2, 3, 4}
    MaxId = 7
    Owner <- MCOwner
    DefaultType <- MCDefaultType
    Poster = {p1, p2, p3}
    Requests <- Ring
    CustomTypes = {"asset"}
    OpeningBalances = {0}
    Currency = {"USD"}
    NoRequest = NoRequest
    MaxPostings = 1
SPECIFICATION FairSpec
INVARIANT NoLockCycle
PROPERTY EveryPostingEnds
