CONSTANTS
  Sessions = {s1, s2}
  LiveSessions = {s1}
  TopUps = {t1}
  HostTries = 3
  SubmitTries = 3
  Null = null
  NoRow = norow
  NoTopUp = notopup
SPECIFICATION FairSpec
INVARIANTS
  TypeOK
  RefundedNotLoaded
  ConfirmedWasLoaded
  FinalStatusTrue
  SubmittedOrListed
PROPERTIES
  IsPurchase
  UnfinishedIsSettled
