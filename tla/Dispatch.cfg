CONSTANTS
  Reads = {r1, r2, r3}
  Mutations = {m1, m2}
  QueueLimit = 2
  ReadSlots = 2
  None = None
SPECIFICATION FairSpec
INVARIANTS SubmissionOrder
PROPERTIES EveryJobAnswered ImplementsLock
