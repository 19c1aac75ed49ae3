\* All DAGs of five nodes with up to two children each.
SPECIFICATION Spec
CONSTANT
  Graphs <- AllGraphs
INVARIANTS
  CarriesAllPaths
  EveryPathSeen
PROPERTY
  FlowsJoined
CHECK_DEADLOCK FALSE
