SPECIFICATION FairSpec
CONSTANTS
  Docs = {d1, d2}
  Textless = {d2}
  MaxJobs = 2
  MaxRetries = 2
  Workers = {w1}
  Deleters = {x1}
  Retriers = {r1}
  MaxFaults = 0
  NoDoc = NoDoc
INVARIANTS
  LeftoversBounded
  OneGeneration
PROPERTIES
  JobsEnd
  DocumentsSettle
CHECK_DEADLOCK FALSE
