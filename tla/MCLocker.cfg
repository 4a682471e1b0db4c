CONSTANTS
  BoxCountTotal = 2
  BoxSpec <- OneSize
  Logins <- SomeLogins
  Readings <- SomeReadings
  Mails = {m1, m2}
  PWs = {p1, p2}
  OpenFailMax = 1
  EmptyFailMax = 1
  MaxRetries = 1
  MaxFaults = 1
  PostFailOpenDoor = TRUE
  QueryMayFail = FALSE
  Monitoring = FALSE
SPECIFICATION Spec
INVARIANTS
  TypeOK
  PackageKeys
  DepositFindsFreeBox
PROPERTIES
  RowsLeaveByTaking
SYMMETRY Symmetry
