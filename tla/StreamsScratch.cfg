SPECIFICATION StreamsSpec
CONSTANTS
  a = a
  b = b
  Streams = {a, b}
  Uses <- ScratchUses
  MaxLaunches = 2
  MaxCaptures = 0
  MaxGraph = 2
INVARIANT OwnResult
CHECK_DEADLOCK FALSE
