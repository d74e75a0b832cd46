CONSTANTS
  NumPieces = 1
  BlocksPerPiece = 2
  BlocksInLastPiece = 2
  RequestQueueSize = 2
  NoPeer = NoPeer
  p1 = p1
  p2 = p2
  Peers <- OnePeer
  Available <- AvailableOnePiece
  Limits <- RestartLimits
SPECIFICATION FairSpec
PROPERTIES
  Completes
CHECK_DEADLOCK FALSE
