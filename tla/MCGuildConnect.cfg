SPECIFICATION FairSpec
CONSTANTS
  MaxRetryAttempts = 2
  MaxDeferredAttempt = 1
  Undefined = Undefined
  Cached = Cached
  None = None
  MaxEvents = 2
  MaxDisturbances = 2
INVARIANTS
  TypeOK
  NeverGivesUp
  ConnectedIsServed
  MissesOnlySkipped
  ClientAgrees
PROPERTIES
  EndsUpConnected
CHECK_DEADLOCK FALSE
