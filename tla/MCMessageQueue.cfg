CONSTANTS
  Producers = {p1, p2}
  Consumer = c
  Data = {1, 2, 3, 4}
  NoData = nodata
  MaxQueueSize = 1
  ShortQueue = 1
  ResetAt = 2
  Modulus = 65536
  MaxCalls = 4
SPECIFICATION FairSpec
ACTION_CONSTRAINT Numbered
INVARIANTS
  TypeOK
  NoBadPointer
  LengthTestSound
  BoundedOvershoot
PROPERTIES
  FifoSpec
  Delivered
