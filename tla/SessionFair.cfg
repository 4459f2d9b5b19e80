SPECIFICATION FairSpec
CONSTANTS
    Sessions = {s1}
    Runs = {r1, r2}
    Messages = {m1, m2}
    Executions = {e1}
    None = None
    Kinds <- Questions
    MaxAnswers = 1
    MaxOrphans = 1
    MaxRestarts = 1
PROPERTIES QueueDrains
CHECK_DEADLOCK FALSE
