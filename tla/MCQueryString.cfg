SPECIFICATION QuerySpec
CONSTANTS
  Inputs <- MCInputs
  MaxDigits = 3
INVARIANTS
  QueryTypeOK
  TokensAreTheRuns
  QueriesAreWhole
CHECK_DEADLOCK FALSE
