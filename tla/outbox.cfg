CONSTANTS
    Event = {e1, e2, e3}
    BatchSize = 2
    MaxFaults = 1
SPECIFICATION FairSpec
CHECK_DEADLOCK FALSE
INVARIANT TypeOK
INVARIANT MarkedWasDelivered
INVARIANT DuplicatesAreFaults
INVARIANT DeliveredInOrder
PROPERTY ImplementsAtLeastOnce
PROPERTY ExpiredRowsGo
