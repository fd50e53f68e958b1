SPECIFICATION MCSpec
CONSTANTS
  a = a
  b = b
  Streams = {a, b}
  Uses <- OrderedUses
  MaxLaunches = 3
  MaxCaptures = 2
  MaxGraph = 2
  Vocab = {x, y}
  Families = {1, 2}
  MinAgree = 1
  MaxDelta = 3
  IngestBudget = 3
  PlanCap = 3
  MaxQueued = 2
  MaxPlanned = 3
  MaxTokens = 6
  MaxEvents = 1
  TextVocab = {0, 1}
  Grams = {1, 2}
  Key <- MCKey
  HotLimit = 3
  BulkMin = 3
  MaxText = 6
  TruncRanks = {0, 1}
  TruncReqs = {p, q}
  Variants <- MCVariants
  Ring = 3
  MaxBehind = 1
  MaxTrunc = 4
  Reqs = {r1, r2}
  KLo = 1
  KHi = 2
  NumSpec = 2
  Seed = "high"
  Uniform = TRUE
  Table = TRUE
  MaySkip = TRUE
  MaxInFlight = 2
SYMMETRY HostSymmetry
INVARIANT LaunchOrder
INVARIANT OwnResult
INVARIANT DecodeAttribution
INVARIANT AccountingClean
INVARIANT CapturesApart
INVARIANT IndexExact
INVARIANT RanksDecideAlike
INVARIANT OwnConfidences
INVARIANT GateSeesPrevious
INVARIANT NoLeak
INVARIANT NothingMissed
INVARIANT UniformHandOuts
CHECK_DEADLOCK FALSE
