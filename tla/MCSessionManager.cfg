SPECIFICATION FairSpec
CONSTANTS
  Starter = h1
  Resumers = {h2}
  MaxShards = 3
  MaxSessions = 3
  MaxDisturbances = 2
INVARIANTS
  TypeOK
  NoStraySession
  AttachedIsRegistered
PROPERTIES
  EveryCallEnds
  NobodyIsLeftBehind
  ShardsRecover
CHECK_DEADLOCK FALSE
