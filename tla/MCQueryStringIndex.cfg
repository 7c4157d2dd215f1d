SPECIFICATION QuerySpec
CONSTANTS
  Inputs <- MCInputs
  MaxDigits = 3
INVARIANTS
  IndicesAreNumbers
CHECK_DEADLOCK FALSE
