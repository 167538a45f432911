SPECIFICATION Spec
CONSTANTS
  s1 = s1
  s2 = s2
  c1 = c1
  c2 = c2
  NoSession = NoSession
  NoConn = NoConn
  Sessions = {s1, s2}
  Conns = {c1, c2}
  MaxBuffer = 1
  MaxEvents = 2
  MaxFaults = 2
  MaxGuildLeaves = 1
  ReadyTail = 1
  ForegroundRecovery = TRUE
  LapseAtHello = TRUE
SYMMETRY Names
INVARIANTS
  TypeOK
  BufferInv
