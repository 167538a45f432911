SPECIFICATION FairSpec
CONSTANTS
  c1 = c1
  c2 = c2
  None = None
  Torn = Torn
  Ids <- MCIds
  Defs <- MCDefs
  Horizon = 3
  MaxSleep = 2
  MaxChanges = 2
  MaxTroubles = 1
INVARIANTS
  TypeOK
  OncePerInstant
  FileIsWhole
  CleanMeansSaved
PROPERTIES
  DueRunsEventually
CHECK_DEADLOCK FALSE
