SPECIFICATION Spec
CONSTANTS
  PointerSize = 4
  MaxUsize = 15
  Sdnas <- MCSdnas
INVARIANTS
  TypeOK
  FieldsAreContiguous
  ReferencesResolve
  LookupsFindTheirTypes
  SimpleStructsMatchC
  ErrorsNeedABadSdna
CHECK_DEADLOCK FALSE
