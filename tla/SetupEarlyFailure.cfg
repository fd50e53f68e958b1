SPECIFICATION Spec
CONSTANTS
  World = 3
  Limits = {l1, l2}
  Configs = {c1, c2}
  Require <- NoneRequire
  CanFailEarly = TRUE
  MaxCrashes = 0
INVARIANT FallsBack
CHECK_DEADLOCK FALSE
