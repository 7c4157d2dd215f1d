SPECIFICATION Spec
CONSTANTS
  SsizeLimit = 128
  Radix = 2
  Sizes <- MCSizes
  WrittenLengths <- MCWrittenLengths
INVARIANTS
  TypeOK
  BlocksTile
  BodiesAreTheirBlocks
  AcceptedIsComplete
  LengthsAreAsWritten
PROPERTIES
  ErrorsAreTruthful
  ReadingEnds
CHECK_DEADLOCK FALSE
