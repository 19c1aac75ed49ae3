\* A PassRepeated that iterates until the program stops changing.
SPECIFICATION FairSpec
CONSTANTS
  N = 7
  Last <- RepeatLast
  Parent <- RepeatParent
  Kind <- RepeatKind
  Repeats <- RepeatRepeats
  StopOnError <- RepeatStopOnError
  Trigger <- OneTrigger
  Handles <- RepeatHandles
  MaxTries = 1
  MaxErrors = 1
  MaxLen = 3
  Null = Null
  t1 = t1
  t2 = t2
INVARIANTS
  ChangesInPassOrder
  RunningWhileWalking
PROPERTIES
  Termination
