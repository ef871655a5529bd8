SPECIFICATION Spec
CONSTANTS
    Account = {a1, a2}
    Event = {e1}
    BookingId = {b1, b2, b3}
    Key = {k1, k2}
    Capacity <- MCCapacity
    Options <- MCOptions
    ClosesAt <- MCClosesAt
    Hold = 1
    ExpireLimit = 2
    MaxTime = 2
SYMMETRY MCSymmetry
INVARIANTS
    Accounting
    NoOversell
    KeysNameBookings
    FactsRetellState
    ConfirmedIsPaid
    PaymentIsHonoured
PROPERTIES
    ImplementsSale
CHECK_DEADLOCK FALSE
