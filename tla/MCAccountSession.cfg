SPECIFICATION Spec
CONSTANTS
    a1 = a1
    o1 = o1
    Account = {a1}
    Other = {o1}
    s1 = s1
    s2 = s2
    s3 = s3
    s4 = s4
    Session = {s1, s2, s3, s4}
    w1 = w1
    w2 = w2
    Worker = {w1, w2}
SYMMETRY MCSymmetry
INVARIANTS
    OneLivePerFamily
    ReuseEndsFamily
    StaleOnceDeactivated
CHECK_DEADLOCK FALSE
