SPECIFICATION Spec
CONSTANTS
  Target = 6
  MaxLen = 8
  Overlap = 2
  MaxLines = 6
INVARIANTS Complete
CHECK_DEADLOCK FALSE
