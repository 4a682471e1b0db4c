CONSTANTS
  Kinds = {"BarCode", "CloseDoor"}
  MaxStarts = 2
  MaxWaits = 2
  MaxOpens = 1
SPECIFICATION FairSpec
INVARIANTS
  TypeOK
  NoDoubleRun
  NoWorkerWhileOpening
PROPERTY CancelStops
