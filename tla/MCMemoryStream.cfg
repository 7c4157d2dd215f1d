SPECIFICATION Spec
CONSTANTS
  SsizeLimit = 8
  Sizes <- MCSizes
  Lengths <- MCLengths
  Alignments <- MCAlignments
INVARIANTS
  TypeOK
  PositionInBounds
PROPERTIES
  CallsDoAsAsked
  ImplementsByteCursor
