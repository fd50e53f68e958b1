SPECIFICATION FairSpec
CONSTANTS
  World = 3
  Limits = {l1, l2}
  Configs = {c1, c2}
  Require <- LastRequires
  CanFailEarly = TRUE
  MaxCrashes = 1
INVARIANT AgreedRoute
INVARIANT ServesConnected
INVARIANT NoProxyLeft
INVARIANT ExchangesMatch
PROPERTY EverybodySettles
CHECK_DEADLOCK FALSE
