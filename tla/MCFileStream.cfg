SPECIFICATION Spec
CONSTANTS
  SsizeLimit = 8
  FileLengths <- MCFileLengths
  Lengths <- MCLengths
  Alignments <- MCAlignments
INVARIANTS
  TypeOK
PROPERTIES
  FailedStreamsAreAtEnd
  GoodReadsAreWhole
  OnlyAlignLosesTheOffset
  PositionalReadRestores
