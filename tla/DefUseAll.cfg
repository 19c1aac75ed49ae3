\* Bits, header stacks and structs without loops, and nested loops.
SPECIFICATION MCSpec
CONSTANTS
  Programs <- Straight
  LoopPrograms <- LoopsInLoops
INVARIANTS
  UsesSound
  SlicesExact
  ReadsForeseen
CHECK_DEADLOCK FALSE
