SPECIFICATION Spec
CONSTANTS
  Cells = {c1, c2, c3, c4}
  NULL = NULL
  Keys = {a}
  NoName = NoName
  Count = 2
  MaxStrings = 2
  MaxReferences = 1
SYMMETRY AnyCell
INVARIANTS
  TypeOK
  ListsIntact
  OnlyReferencesLeak
  StringsBalance
  CopyIsIdentical
PROPERTY
  Implements
