\* A full table: erasing an absent key takes another entry.
SPECIFICATION Spec
CONSTANTS
  Key = {0, 1, 2, 3}
  Val = {v1, v2}
  DefaultKey = 0
  DefaultVal = v1
  Hash <- PerfectHash
  InitialSize = 3
  MaxSet <- TwoWidths
  SizeMod = 1000
  MaxData = 4
PROPERTIES
  ErasesOnlyItsKey
