CONSTANTS
  BoxCountTotal = 2
  BoxSpec <- OneSize
  Logins <- SomeLogins
  Readings <- SomeReadings
  Mails = {m1, m2}
  PWs = {p1, p2}
  OpenFailMax = 1
  EmptyFailMax = 1
  MaxRetries = 1
  MaxFaults = 0
  PostFailOpenDoor = FALSE
  QueryMayFail = FALSE
  Monitoring = TRUE
SPECIFICATION Spec
INVARIANTS
  DepositFindsFreeBox
SYMMETRY Symmetry
