\* Three requests one after the other, or two that overlap or are separated by a
\* restart; two writes, and two searches in one model step.
SPECIFICATION FairSpec
CONSTANTS
  None = None
  g1 = g1
  d1 = d1
  q1 = q1
  q2 = q2
  MaxRequests = 3
  Writes <- BanOrDelete
  Searches <- TwoSearches
  StepLimit = 2
  MaxCrossed = 2
  MaxRestarts = 1
INVARIANTS WritesAreConfirmed AnswersItsCard ExecutedOnce
PROPERTIES RequestsEnd
CHECK_DEADLOCK FALSE
