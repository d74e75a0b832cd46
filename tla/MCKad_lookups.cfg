SPECIFICATION Spec
CONSTANTS
  a1 = a1  a2 = a2  a3 = a3
  Addrs = {a1, a2, a3}
  Bits = 3
  ByteBits = 2
  Self <- MCSelf
  BucketSize = 1
  MaxFails = 2
  Unwritable = {}
  NoAddr = NoAddr
  Branching = 1
  MaxResults = 3
  Closest = 3
  Drawn <- MCDrawn
  NoTarget = NoTarget
  Nobody = Nobody
  Contacts <- MCContacts
  Saved <- MCSaved
  MaxContacts = 1
  Targets <- MCTargets
  Entries = {e1}
  Published = {"sources"}
  Points = {a2}
  InitialRepl = 1
  Quorum = 1
  MaxSearches = 2
  IdleBuckets = {1}
  MaxEvents = 4
INVARIANTS TypeOK CountsMatch TableBounded SearchesAnswered
PROPERTIES RestartKeepsContacts TraversalsEnd
CHECK_DEADLOCK FALSE
