SPECIFICATION Spec
CONSTANTS
  Docs = {d1}
  Textless = {}
  MaxJobs = 2
  MaxRetries = 2
  Workers = {w1, w2}
  Deleters = {x1, x2}
  Retriers = {r1}
  MaxFaults = 1
  NoDoc = NoDoc
SYMMETRY Symmetry
INVARIANTS
  LeaseInvariant
  ReadyIsSearchable
  RunningIsHeld
  UploadedIsQueued
  LiveIsStored
  DeletedNeverCited
PROPERTIES
  JobsMoveForward
  ImplementsQueue
CHECK_DEADLOCK FALSE
