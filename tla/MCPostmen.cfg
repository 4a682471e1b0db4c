CONSTANTS
  Ids = {i1, i2}
  NoId = NoId
  BoxCountTotal = 11
  BoxName <- Crossed
  DepositBoxes = {1, 11}
  Mails = {m1, m2}
  NoMail = NoMail
  Answers <- UpToTwo
  Grants <- AllBoxes
  Settings <- TwoSettings
SPECIFICATION Spec
SYMMETRY Symmetry
INVARIANTS
  TypeOK
  OverdueWasReported
  OwnOverdueOnly
PROPERTIES
  RemovalExact
CONSTRAINT Undisturbed
