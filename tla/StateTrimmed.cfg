SPECIFICATION MCSpec
CONSTANTS
  HashBlock = 1
  Align = 2
  Window = 2
  MaxPrompt = 5
  StateBlock = 6
  SmallBlock = 3
  WorkerBlock = 6
  Trims = TRUE
  MaxDrafts = 2
  Budgets = {5, 8}
  MaxLen = 17
  Programs = 2
  MaxSpec = 2
  MaxVerify = 4
  LensReqs = {a, b}
  StateRows = {i, j}
  Deltas = {1, 2}
  Starts = {0}
  RingSlots = 2
  MaxRecords = 2
  MaxSteps = 3
  MaxPlans = 2
INVARIANT SlotHoldsItsHash
CHECK_DEADLOCK FALSE
SYMMETRY LensSymmetry
