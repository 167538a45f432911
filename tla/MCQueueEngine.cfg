SPECIFICATION Spec
SYMMETRY JobNames
CONSTANTS
  JobIds = {j1, j2}
  DedupIds = {k1}
  NoDedup = NoDedup
  NoJob = NoJob
  NoImage = NoImage
  AttemptLimits = {2}
  MaxRestarts = 1
  MaxInterventions = 1
INVARIANTS
  TypeOK
  QueuesMirrorJobs
  DedupIndexSound
  DedupUniqueUnlessRevived
  AttemptsBounded
  HonoursLatestLease
  PersistedJobsSurvive
CHECK_DEADLOCK FALSE
