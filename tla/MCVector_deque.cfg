SPECIFICATION Spec
CONSTANTS
  Cap = 4
  W = 32
  Entries = {1, 2}
  Positions <- AllPositions
  Sources <- ShortSources
INVARIANTS
  TypeOK
  OnePastAtMost
PROPERTIES
  ImplementsDeque
