CONSTANTS
    Scale = 1
    MaxStored = 6
    User = {"ann", "bob"}
    Account = {1, 2, 3, 4, 5, 6, 7}
    MaxId = 7
    Owner <- MCOwner
    DefaultType <- MCDefaultType
    Poster = {p1, p2}
    Requests <- MCRequests
    CustomTypes = {"asset", "equity"}
    OpeningBalances = {0, 4}
    Currency = {"USD"}
    NoRequest = NoRequest
    MaxPostings = 2
SPECIFICATION Spec
INVARIANT TypeOK
INVARIANT HeldRowsFresh
INVARIANT BalancesFollowEntries
INVARIANT TrialBalance
INVARIANT PostingsAudited
INVARIANT EntriesReferToLiveAccounts
PROPERTY ImplementsLedgerAbs
