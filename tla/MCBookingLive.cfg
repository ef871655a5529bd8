SPECIFICATION FairSpec
CONSTANTS
    Account = {a1}
    Event = {e1, e2}
    BookingId = {b1, b2}
    Key = {k1, k2}
    Capacity <- MCCapacity
    Options <- MCOptions
    ClosesAt <- MCClosesAt
    Hold = 1
    ExpireLimit = 1
    MaxTime = 2
PROPERTIES
    HoldsEnd
    UnblockedPaymentsAreConsumed
CHECK_DEADLOCK FALSE
