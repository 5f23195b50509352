SPECIFICATION Spec
CONSTANTS
  Chunks <- MCChunks
  DocOf <- MCDocOf
  IndexOf <- MCIndexOf
  ANSWER_TAG <- MCAnswerTag
  END_TAG <- MCEndTag
  Symbols <- MCSymbols
  Blank <- MCBlank
  OldFormat <- MCOldFormat
  MaxText = 6
  MaxPiece = 2
  MaxQueries = 2
  TopK = 3
INVARIANTS
  StreamIsAnswer
  ReadAlike
  StoredIsShown
  NothingWithoutEvidence
  EvidenceIsAttributed
CHECK_DEADLOCK FALSE
