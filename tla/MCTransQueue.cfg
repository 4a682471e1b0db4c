CONSTANTS
  Mails = {m1}
  DelaySend = {"deposit"}
  PostFailOpenDoor = TRUE
  NeedRegister = FALSE
  MaxSerial = 3
  MaxTrans = 2
  MaxReports = 1
  MaxFaults = 1
  MaxRestarts = 1
SPECIFICATION FairSpec
INVARIANTS
  TypeOK
  NothingLost
  FailsOnceMore
  MarkedWasAccepted
PROPERTIES
  QueueDrains
