SPECIFICATION Spec
CONSTANTS
    a1 = a1
    a2 = a2
    b1 = b1
    Left = {a1, a2}
    Right = {b1}
    r1 = r1
    r2 = r2
    RunId = {r1, r2}
    k1 = k1
    k2 = k2
    Key = {k1, k2}
    o1 = o1
    OverrideKey = {o1}
    x1 = x1
    x2 = x2
    AnswerKey = {x1, x2}
    c1 = c1
    c2 = c2
    ConsentKey = {c1, c2}
    f1 = f1
    FeedbackKey = {f1}
    Policy = {1}
SYMMETRY MCSymmetry
INVARIANTS
    PairsAreExclusive
    RevealIsAgreed
    MutualInterestIsTold
PROPERTIES
    ReviewedIsLocked
CHECK_DEADLOCK FALSE
