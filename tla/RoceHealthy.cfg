SPECIFICATION FairSpec
CONSTANTS
  World = 2
  NHca = 2
  Threads = 1
  MaxBlocks = 2
  MaxOps = 6
  MaxPacks = 3
  SeqMod = 4
  CtrMod = 2
  SendLimit = 1
  Faulty = {}
  MaxFaults = 0
  MaxStops = 0
  CanTimeout = FALSE
  CanClose = FALSE
  Packs <- MCPacks
  Grid <- MCGrid
INVARIANT TypeOK
INVARIANT PublishedResult
PROPERTY AllComplete
