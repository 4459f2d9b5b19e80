SPECIFICATION Spec
CONSTANTS
    Sessions = {s1}
    Runs = {r1, r2}
    Messages = {m1}
    Executions = {e1, e2}
    None = None
    Kinds <- AllKinds
    MaxAnswers = 2
    MaxOrphans = 0
    MaxRestarts = 1
PROPERTIES TerminalIrreversible
CHECK_DEADLOCK FALSE
