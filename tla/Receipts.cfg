SPECIFICATION FairReceipts
CONSTANTS
    Requests = {o1, o2}
    Cap = 1
    MaxRestarts = 1
    MaxGenerations = 1
    MaxKillFailures = 1
    MaxSaveFailures = 2
    MaxRuntimeCrashes = 1
INVARIANTS
    AtMostOnce
    ReceiptsHonest
PROPERTIES
    EveryOperationEnds
CHECK_DEADLOCK FALSE
