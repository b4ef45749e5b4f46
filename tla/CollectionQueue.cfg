SPECIFICATION FairSpec
CONSTANTS
  Clients = {c1, c2}
  Workers = {w1, w2}
  Jobs = {j1, j2}
  None = None
CHECK_DEADLOCK FALSE
INVARIANTS
  TypeOK
  SubmitAnswersQueued
  SnapshotsCoherent
  RunOnce
  KnownJobsCarried
  DrainedWhenDown
PROPERTIES
  ImplementsJobBoard
  KnownJobsEnd
  ShutdownReturns
