SPECIFICATION BothSpec
CONSTANTS
    Account = {a1}
    Event = {e1}
    BookingId = {b1, b2}
    BookingKey = {k1, k2}
    Key = {p1}
    Capacity <- MCCapacity
    Options <- MCOptions
    ClosesAt <- MCClosesAt
    Answer <- MCAnswer
    Hold = 2
    ExpireLimit = 2
    ReconcileAfter = 1
    MaxTime = 3
SYMMETRY MCSymmetry
INVARIANTS
    PaymentsAreForBookings
    ConfirmedIsVerified
PROPERTIES
    ImplementsBooking
CHECK_DEADLOCK FALSE
