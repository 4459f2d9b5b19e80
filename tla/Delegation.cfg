SPECIFICATION Spec
CONSTANTS
    MaxDelegations = 3
    Limit = 2
    MaxDepth = 2
    MaxCrashes = 1
    MaxWriteFailures = 2
INVARIANTS
    BudgetExact
    SameStory
    BottomUp
PROPERTIES
    StopReachesAll
CHECK_DEADLOCK FALSE
