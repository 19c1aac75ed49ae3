\* Programs that vary ids and hash values, and programs that vary names.
SPECIFICATION Spec
CONSTANTS
  Types <- TwoTypes
  Names <- AllNames
  Programs <- AllPrograms
  IdBits = 2
  HashBits = 3
INVARIANTS
  IdsRight
  AliasesRight
PROPERTY
  Deterministic
CHECK_DEADLOCK FALSE
