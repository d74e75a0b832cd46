CONSTANTS
  c1 = c1
  c2 = c2
  f1 = f1
  f2 = f2
  Clients <- TwoClients
  LowIDs <- TheLowID
  Friends <- TheFriend
  Files <- OneFile
  PowerShare <- None
  NoFile = NoFile
  Parts = {1}
  MinSlots = 1
  MaxSlots = 2
  QueueSize = 2
  EqualCredits = TRUE
SPECIFICATION FairSpec
INVARIANTS
  TypeOK
  QueueAgrees
PROPERTIES
  Pool
  WaitingIsServed
