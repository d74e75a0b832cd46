CONSTANTS
  c1 = c1
  c2 = c2
  f1 = f1
  Clients <- TwoClients
  LowIDs <- None
  Friends <- None
  Files <- OneFile
  PowerShare <- None
  NoFile = NoFile
  Parts = {1, 2}
  MinSlots = 1
  MaxSlots = 1
  QueueSize = 2
  EqualCredits = TRUE
  File = f1
  Multipart = TRUE
  RequestSize = 2
  PacketsPerRange = 2
  Scenarios <- Trials
SPECIFICATION FairExchange
INVARIANTS
  UnansweredIsExplained
  PartsAreAwaited
PROPERTIES
  SlotsReturn
  Fetched
CHECK_DEADLOCK FALSE
