SPECIFICATION FairLink
CONSTANTS
    Requests = {r1, r2}
    MaxRestarts = 2
    MaxGenerations = 5
    MaxKillFailures = 1
INVARIANTS
    ClientCoherent
    HonestRefusal
PROPERTIES
    ReturnsToService
CHECK_DEADLOCK FALSE
