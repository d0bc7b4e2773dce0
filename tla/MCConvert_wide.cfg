SPECIFICATION Spec
CONSTANTS
  Max8 = 3
  Max16 = 7
  Max32 = 15
  Max64 = 511
  Mantissa = 256
  Base = 6
  Short = 36
  Long = 7776
  Frame = 10
  PayloadLen = 24
  FieldLen = 5
  NestingLimit = 3
  SizeLimit = 36
  Little = 14
  Stale = Stale
  MallocFails = FALSE
  Samples <- None
  Foreign <- Readme
INVARIANTS
  FieldsArrive
