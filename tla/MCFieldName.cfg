SPECIFICATION Spec
CONSTANTS
  PointerSize = 8
  Spellings <- MCSpellings
  Texts <- MCTexts
  MaxUsize <- MCMaxUsize
INVARIANTS
  TypeOK
  DeclaratorsAreRead
  AcceptedIsWellFormed
PROPERTIES
  ReadingEnds
CHECK_DEADLOCK FALSE
