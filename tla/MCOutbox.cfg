SPECIFICATION FairSpec
CONSTANTS
    Fact = {f1, f2}
    Relay = {r1, r2}
    NoFact = NoFact
    BatchLimit = 2
    MaxTimeouts = 1
    MaxFaults = 2
INVARIANTS
    LossNeedsTimeout
PROPERTIES
    FactsArePublished
CHECK_DEADLOCK FALSE
