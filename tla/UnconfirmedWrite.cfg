\* Two writes with different actions, called at once.
SPECIFICATION Spec
CONSTANTS
  None = None
  g1 = g1
  d1 = d1
  q1 = q1
  q2 = q2
  MaxRequests = 3
  Writes <- BanOrDelete
  Searches <- TwoSearches
  StepLimit = 2
  MaxCrossed = 2
  MaxRestarts = 0
INVARIANT CardNamesActions
CHECK_DEADLOCK FALSE
