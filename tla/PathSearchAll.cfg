\* The four strategies, each with the options that matter to it.
SPECIFICATION Spec
CONSTANTS
  Node <- TenNodes
  Coverable = {"a", "b"}
  Invocations <- AllStrategies
INVARIANTS
  RightPaths
  ListsAsDocumented
PROPERTY
  TestsAccounted
