SPECIFICATION Spec
CONSTANTS
    Sessions = {s1}
    Runs = {r1, r2, r3}
    Messages = {m1, m2}
    Executions = {e1, e2}
    None = None
    Kinds <- AllKinds
    MaxAnswers = 1
    MaxOrphans = 1
    MaxRestarts = 2
SYMMETRY Symmetry
INVARIANTS OneActiveRun OneWorker IdleQueueIsHeld SentOnce
    QuestionsAnswerable
PROPERTIES TerminalIrreversible ImplementsSerial
CHECK_DEADLOCK FALSE
