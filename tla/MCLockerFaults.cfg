CONSTANTS
  BoxCountTotal = 1
  BoxSpec <- OneSize
  Logins <- OneLogin
  Readings <- NothingFelt
  Mails = {m1, m2}
  PWs = {p1}
  OpenFailMax = 1
  EmptyFailMax = 1
  MaxRetries = 0
  MaxFaults = 2
  PostFailOpenDoor = FALSE
  QueryMayFail = TRUE
  Monitoring = TRUE
SPECIFICATION Spec
INVARIANTS
  NothingForgotten
SYMMETRY Symmetry
