SPECIFICATION EventSpec
CONSTANTS
    e1 = e1
    Event = {e1}
    w1 = w1
    w2 = w2
    Worker = {w1, w2}
    Capacity = {1, 2}
    Window <- MCWindow
    MaxVersion = 5
    MaxTime = 2
SYMMETRY MCSymmetry
INVARIANTS
    QuotesStand
    FactsTellLife
CHECK_DEADLOCK FALSE
