CONSTANTS
  c1 = c1
  c2 = c2
  f1 = f1
  f2 = f2
  Clients <- TwoClients
  LowIDs <- TheLowID
  Friends <- None
  Files <- TwoFiles
  PowerShare <- TheShare
  NoFile = NoFile
  Parts = {1}
  MinSlots = 2
  MaxSlots = 2
  QueueSize = 2
  EqualCredits = FALSE
SPECIFICATION FairSpec
PROPERTIES
  SuspendedKeepWaiting
