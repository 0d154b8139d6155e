SPECIFICATION Spec
CONSTANTS
    w1 = w1
    w2 = w2
    Workers = {w1, w2}
    Identities = {"alice"}
    Limit = 2
    Window = 8
    Second = 4
    Hundredth = 2
    Outages = TRUE
    MaxLag = 1
    Horizon = 12
    MaxCalls = 4
CONSTRAINT WorthExploring
SYMMETRY WorkerSymmetry
CHECK_DEADLOCK FALSE
INVARIANTS
    SharedBudget
    LocalBudget
    DeniedOnlyWhenSpent
    RetryAfterIsClose
