CONSTANTS
  NumPieces = 1
  BlocksPerPiece = 2
  BlocksInLastPiece = 2
  RequestQueueSize = 2
  NoPeer = NoPeer
  p1 = p1
  p2 = p2
  Peers <- OnePeer
  Available <- AvailableOnePiece
  Limits <- DiskLimits
SPECIFICATION Spec
INVARIANTS
  FinishedIsIntact
CHECK_DEADLOCK FALSE
