CONSTANTS
  s1 = s1
  dialog = dialog
  NoThread = NoThread
  Sessions = {s1}
  Refreshers = {dialog}
  ConnSizes = {1}
  OnlineLimits = {0}
  ConnTries = 1
  NumTables = 1
  HourPasses = TRUE
  MaxReloads = 0
SPECIFICATION FairSpec
INVARIANTS
  LockedOnlyByFailure
PROPERTIES
  ReloadEnds
