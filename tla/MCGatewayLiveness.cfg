SPECIFICATION FairSpec
CONSTANTS
  s1 = s1
  s2 = s2
  c1 = c1
  c2 = c2
  NoSession = NoSession
  NoConn = NoConn
  Sessions = {s1, s2}
  Conns = {c1, c2}
  MaxBuffer = 1
  MaxEvents = 1
  MaxFaults = 2
  MaxGuildLeaves = 0
  ReadyTail = 0
  ForegroundRecovery = FALSE
  LapseAtHello = FALSE
PROPERTIES
  ClientRecovers
  AbandonedSessionStops
