SPECIFICATION AdaptiveSpec
CONSTANTS
  Reqs = {r1, r2}
  KLo = 1
  KHi = 2
  NumSpec = 2
  Seed = "high"
  Uniform = TRUE
  Table = TRUE
  MaySkip = TRUE
  MaxInFlight = 2
INVARIANT UniformSteps
CHECK_DEADLOCK FALSE
