SPECIFICATION Spec
CONSTANTS
  Endpoints <- MCEndpoints
  Conns <- MCConns
  MaxPeerListSize = 3
  LowWatermark = 2
  MaxFails = 1
  ConnectionsLimit = 2
  ConnectsPerTick = 1
  MaxRead = 10
  HeaderSize = 2
  Count = 3
  Begin <- MCBegin
  Service <- MCService
  Budgets <- MCBudgets
INVARIANTS TypeOK ListsAgree FramesInOrder
PROPERTIES ListKeepsPeers ClosedAreRemoved
CHECK_DEADLOCK FALSE
