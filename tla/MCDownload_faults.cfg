CONSTANTS
  NumPieces = 2
  BlocksPerPiece = 2
  BlocksInLastPiece = 1
  RequestQueueSize = 2
  NoPeer = NoPeer
  p1 = p1
  p2 = p2
  Peers <- OnePeer
  Available <- AvailableFromOne
  Limits <- FaultLimits
SPECIFICATION Spec
INVARIANTS
  TypeOK
  RequestsAreHeld
  WritesAreQueued
  HashesAreQueued
  RestoresAreCounted
  SavedIsOnDisk
  HashesAreKnown
PROPERTIES
  HaveNeverLost
CONSTRAINT FewFaults
CHECK_DEADLOCK FALSE
