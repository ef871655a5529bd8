SPECIFICATION FairSpec
CONSTANTS
    Account = {a1, a2}
    BookingId = {b1}
    Key = {k1, k2}
    Answer <- MCAnswer
    ReconcileAfter = 1
    MaxTime = 1
INVARIANTS
    OneOutcome
    CompletedIsVerified
    KeysNamePayments
PROPERTIES
    OutcomeIsFinal
    SilenceIsReported
CHECK_DEADLOCK FALSE
