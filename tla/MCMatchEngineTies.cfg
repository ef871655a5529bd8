SPECIFICATION EngineSpec
CONSTANTS
    Inputs <- MCInputs
    Weights <- MCWeights
    MinimumScore = 45
    AllowRepeats = FALSE
INVARIANTS
    TiesFollowIds
CHECK_DEADLOCK FALSE
