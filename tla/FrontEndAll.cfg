\* Every parser of start and two more states with up to two ways out of each, one
\* of them named; five actions or four functions with up to two calls each.
SPECIFICATION MCSpec
CONSTANTS
  Others = {"a", "b"}
  MaxCases = 2
  Annotations = {"none", "name"}
  KeysMayFail = FALSE
  Actions <- FiveActions
  Functions <- FourFunctions
INVARIANTS
  SameRuns
  ParserSimplified
  MeaningKept
  InliningComplete
CHECK_DEADLOCK FALSE
