SPECIFICATION Spec
CONSTANTS
  SsizeLimit = 128
  Radix = 2
  Sizes <- MCSizes
  StringLengths <- MCStringLengths
  WrittenCounts <- MCWrittenCounts
INVARIANTS
  TypeOK
  TablesTile
  AcceptedIsAsWritten
CHECK_DEADLOCK FALSE
