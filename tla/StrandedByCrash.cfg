SPECIFICATION FairSpec
CONSTANTS
  Docs = {d1}
  Textless = {}
  MaxJobs = 1
  MaxRetries = 2
  Workers = {w1}
  Deleters = {}
  Retriers = {}
  MaxFaults = 1
  NoDoc = NoDoc
PROPERTIES
  FailureIsRecorded
CHECK_DEADLOCK FALSE
