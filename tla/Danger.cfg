SPECIFICATION DangerSpec
CONSTANTS
    Calls = {c1, c2}
    Kinds = {"write", "shell", "online", "outside", "bare"}
    Challenges = {i1}
    ChallengeTtl = 1
    LeaseTtl = 1
    GrantTtl = 1
    RuleTtl = 2
    AskEverything = FALSE
    MaxTime = 3
    MaxChanges = 1
SYMMETRY Symmetry
PROPERTIES DangerOnlyUnderLease BeyondWorkspaceConsented PolicyStillHolds
CHECK_DEADLOCK FALSE
