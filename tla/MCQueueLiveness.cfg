SPECIFICATION FairSpec
CONSTANTS
  JobIds = {j1, j2}
  DedupIds = {k1}
  NoDedup = NoDedup
  NoJob = NoJob
  NoImage = NoImage
  AttemptLimits = {2}
  MaxRestarts = 1
  MaxInterventions = 0
PROPERTIES
  QueueDrains
  KeepsPromise
CHECK_DEADLOCK FALSE
