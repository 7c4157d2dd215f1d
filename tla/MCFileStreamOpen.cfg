SPECIFICATION Spec
CONSTANTS
  SsizeLimit = 8
  FileLengths <- MCFileLengths
  Lengths <- MCLengths
  Alignments <- MCAlignments
PROPERTIES
  CreateReportsAccessDenied
