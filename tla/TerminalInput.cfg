CONSTANTS
    InFlightMax = 2
    PendingMax = 1
    MaxBatches = 3
    MaxPages = 2
    MaxTrouble = 2
SPECIFICATION InputSpec
INVARIANTS
    InputIsPrefix
    ConfirmedIsTaken
PROPERTIES
    WritesAnswered
CHECK_DEADLOCK FALSE
