\* Two CPUs; a meter of bytes, and one of packets without a committed rate.
SPECIFICATION Spec
CONSTANTS
  c1 = c1
  c2 = c2
  Cpu = {c1, c2}
  W = 6
  MaxTime = 6
  Sizes = {1, 3}
  Configs <- BothMeters
SYMMETRY Interchangeable
INVARIANT
  MeterRates
PROPERTY
  IsTokenBucket
