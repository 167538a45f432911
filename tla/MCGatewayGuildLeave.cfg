SPECIFICATION Spec
CONSTANTS
  s1 = s1
  s2 = s2
  c1 = c1
  c2 = c2
  NoSession = NoSession
  NoConn = NoConn
  Sessions = {s1, s2}
  Conns = {c1, c2}
  MaxBuffer = 2
  MaxEvents = 3
  MaxFaults = 1
  MaxGuildLeaves = 1
  ReadyTail = 0
  ForegroundRecovery = FALSE
  LapseAtHello = FALSE
SYMMETRY Names
INVARIANTS
  ResumeIsComplete
