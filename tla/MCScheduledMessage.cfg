SPECIFICATION FairSpec
CONSTANTS
  w1 = w1
  w2 = w2
  None = None
  NoRow = NoRow
  Jobs <- MCJobs
  Workers <- MCWorkers
  MaxDeliver = 2
  Concurrency = 1
  MaxTroubles = 1
INVARIANTS
  TypeOK
  PendingHasJob
  PostedOnce
  RowTellsTheTruth
PROPERTIES
  SavedIsSettled
CHECK_DEADLOCK FALSE
