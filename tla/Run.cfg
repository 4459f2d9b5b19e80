SPECIFICATION FairSpec
CONSTANTS
    MaxTurns = 2
    MaxCalls = 3
    MaxCrashes = 2
    MaxSaveFailures = 1
INVARIANTS
    ClosedAtEnd
    TablesAgree
    CallsInPlace
PROPERTIES
    FinalRowStays
    StoppedRunsEnd
CHECK_DEADLOCK FALSE
