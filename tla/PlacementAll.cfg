\* Both flows: PHV allocation first, and table placement first.
SPECIFICATION FairSpec
CONSTANTS
  DeviceStages = 4
  CriticalPath = 1
  MaxTempRounds = 2
  MaxRounds = 20
  FreshOutcomes <- MetaInitOutcomes
INVARIANTS
  RoundsHandled
  FlagsOfTheRound
  ReplayFollowsTrivialPlacement
PROPERTIES
  Termination
