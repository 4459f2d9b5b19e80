CONSTANTS
    Window = 1
    MaxFrames = 3
    MaxPages = 2
    MaxTimeouts = 1
SPECIFICATION OutputSpec
INVARIANTS
    NoGapNoRepeat
    TailFirst
    BoundedOutput
PROPERTIES
    NoOrphanShell
    AckLands
CHECK_DEADLOCK FALSE
