SPECIFICATION FairSpec
CONSTANTS
  Reqs <- Four
  Prompt <- MCPrompt
  Cached <- MCCached
  MaxTokens <- MCMaxTokens
  Unbounded = {1}
  Structured = {}
  Interval = 3
  ShortTokens = 3
  WhenQueued = TRUE
  EndDrain = TRUE
  Drafts = 2
  TokenBudget = 7
  MaxRunning = 3
  MaxInFlight = 2
  CanFill = TRUE
INVARIANT NothingLost
INVARIANT WaitInOrder
INVARIANT NoStepWasted
INVARIANT DeferralSound
CHECK_DEADLOCK FALSE
PROPERTY EverybodyEnds
