CONSTANTS
    Scale = 2
    MaxStored = 6
    User = {"ann", "bob"}
    Account = {1, 2, 3, 4, 5, 6, 7}
    MaxId = 7
    Owner <- MCOwner
    DefaultType <- MCDefaultType
    Poster = {p1}
    Requests <- RoundingRequests
    CustomTypes = {"asset", "equity"}
    OpeningBalances = {0}
    Currency = {"USD"}
    NoRequest = NoRequest
    MaxPostings = 1
SPECIFICATION Spec
INVARIANT StoredEntriesBalance
