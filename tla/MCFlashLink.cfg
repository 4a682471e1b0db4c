CONSTANTS
  Threads = {t1, t2}
  MaxMessages = 3
  MaxSerial = 9
  MaxAttempts = 2
  MaxPolls = 2
  MayHang = TRUE
SPECIFICATION FairSpec
INVARIANTS
  TypeOK
  ConfirmedWasHandled
PROPERTY EveryMessageEnds
