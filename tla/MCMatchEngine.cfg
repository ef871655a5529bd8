SPECIFICATION EngineSpec
CONSTANTS
    Inputs <- MCInputs
    Weights <- MCWeights
    MinimumScore = 45
    AllowRepeats = FALSE
INVARIANTS
    Certified
    PairingsAreOptimal
    ReasonsAreTrue
CHECK_DEADLOCK FALSE
