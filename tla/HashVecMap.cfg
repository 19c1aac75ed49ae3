\* Colliding keys: rehashing, growth of the table and of its elements.
SPECIFICATION Spec
CONSTANTS
  Key = {1, 2, 3}
  Val = {v1, v2}
  DefaultKey = 1
  DefaultVal = v1
  Hash <- CollidingHash
  InitialSize = 7
  MaxSet <- TwoWidths
  SizeMod = 1000
  MaxData = 4
INVARIANTS
  TableSound
  FindsWhatIsThere
PROPERTY
  ImplementsOrderedMap
