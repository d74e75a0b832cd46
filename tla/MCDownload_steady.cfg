CONSTANTS
  NumPieces = 2
  BlocksPerPiece = 2
  BlocksInLastPiece = 1
  RequestQueueSize = 2
  NoPeer = NoPeer
  p1 = p1
  p2 = p2
  Peers <- TwoPeers
  Available <- AvailableFromTwo
  Limits <- SteadyLimits
SPECIFICATION FairSpec
INVARIANTS
  QueuesMatchPicker
  HashAfterWrites
PROPERTIES
  Contract
  Completes
CHECK_DEADLOCK FALSE
