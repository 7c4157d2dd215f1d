SPECIFICATION Spec
CONSTANTS
  PointerSize = 8
  Spellings <- MCSpellings
  Texts <- MCTexts
  MaxUsize <- MCMaxUsize
INVARIANTS
  EveryDimensionCounts
CHECK_DEADLOCK FALSE
