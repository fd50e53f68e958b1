SPECIFICATION FairSpec
CONSTANTS
  World = 2
  NHca = 1
  Threads = 1
  MaxBlocks = 1
  MaxOps = 2
  MaxPacks = 3
  SeqMod = 8
  CtrMod = 4
  SendLimit = 64
  Faulty = {0, 1}
  MaxFaults = 1
  MaxStops = 0
  CanTimeout = TRUE
  CanClose = FALSE
  Packs <- MCPacks
  Grid <- MCGrid
PROPERTY NobodyHangs
