\* Five passes, on a DAG, an IR with a cycle and a diamond.
SPECIFICATION Spec
CONSTANT
  Passes <- SomePasses
INVARIANTS
  TrackerRight
  RewritesLikeATree
  NothingStale
  ClonesRight
PROPERTY
  Terminates
CHECK_DEADLOCK FALSE
