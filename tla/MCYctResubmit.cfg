CONSTANTS
  Sessions = {s1}
  LiveSessions = {s1}
  TopUps = {t1}
  HostTries = 3
  SubmitTries = 3
  Null = null
  NoRow = norow
  NoTopUp = notopup
SPECIFICATION FairSpec
PROPERTY SubmittedAgain
