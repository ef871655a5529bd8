SPECIFICATION FairSpec
CONSTANTS
    deliver1 = deliver1
    deliver2 = deliver2
    deactivate = deactivate
    other = other
    Account = {a1}
    Fact <- MCFact
    Plan <- MCPlan
    Recipient <- MCRecipient
    Worker = {w1, w2}
    MaxAttempts = 2
    MaxLosses = 1
INVARIANTS
    OutcomeIsHonest
    AttemptsExplainState
    SuppressedGetNothing
    AttemptsAreBounded
PROPERTIES
    DeliveriesSettle
CHECK_DEADLOCK FALSE
