\* Nested managers and a PassIf; two kinds of trigger.
SPECIFICATION Spec
CONSTANTS
  N = 7
  Last <- NestedLast
  Parent <- NestedParent
  Kind <- NestedKind
  Repeats <- NestedRepeats
  StopOnError <- NestedStopOnError
  Trigger <- BothTriggers
  Handles <- NestedHandles
  MaxTries = 1
  MaxErrors = 1
  MaxLen = 4
  Null = Null
  t1 = t1
  t2 = t2
INVARIANTS
  TypeOK
  NullNeverApplied
  ChangedOnlyByEarlierPasses
  BackupsRestorable
  OnlyRetriesAfterErrors
PROPERTIES
  HandledByAnEarlierPass
  BacktrackingIsUndo
