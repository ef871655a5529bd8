SPECIFICATION Spec
CONSTANTS
    c1 = c1
    c2 = c2
    Case = {c1, c2}
    k1 = k1
    k2 = k2
    Content = {k1, k2}
    t1 = t1
    Target = {t1}
    x1 = x1
    x2 = x2
    x3 = x3
    Action = {x1, x2, x3}
    w1 = w1
    w2 = w2
    Worker = {w1, w2}
    ExpireLimit = 1
SYMMETRY MCSymmetry
INVARIANTS
    NewestIsInForce
    CasesAreSettled
    FactsTellActions
PROPERTIES
    EndedIsOver
CHECK_DEADLOCK FALSE
