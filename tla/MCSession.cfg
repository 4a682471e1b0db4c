CONSTANTS
  s1 = s1
  s2 = s2
  dialog = dialog
  NoThread = NoThread
  Sessions = {s1, s2}
  Refreshers = {dialog}
  ConnSizes = {1}
  OnlineLimits = {0, 1}
  ConnTries = 1
  NumTables = 1
  HourPasses = TRUE
  MaxReloads = 1
SPECIFICATION Spec
SYMMETRY Symmetry
INVARIANTS
  TypeOK
  OnlineCount
  SharedOnlyWhenFreed
  MarkedIsUsed
