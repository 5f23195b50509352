CONSTANTS
  u1 = u1
  Clients = {c1, c2}
  Sessions = {s1}
  Owner <- OneOwner
  DocIds = {d1, d2}
  ChunkCount = 2
  Indexes = {0, 1, 2}
  MaxRows = 2
  Resent = {1}
  MaxFaults = 1
  NoSession = NoSession
SPECIFICATION FairSpec
INVARIANTS MissingIsBounded DuplicatesBounded ComposeFindsChunks SessionInvariant
PROPERTIES GoneForGood ExpiredIsCleaned
CHECK_DEADLOCK FALSE
