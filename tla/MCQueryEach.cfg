SPECIFICATION Spec
CONSTANTS
  PointerSize = 2
  MaxUsize = 35
  Radix = 6
  MaxSeen = 4
  Names <- MCNames
  Files <- MCFiles
  Calls <- MCCalls
INVARIANTS
  TypeOK
  DataLiesInOneBlock
  QueriesMeanPaths
  WalksVisitInOrder
PROPERTIES
  CallsEndOrReturn
CHECK_DEADLOCK FALSE
