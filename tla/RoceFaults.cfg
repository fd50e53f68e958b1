SPECIFICATION Spec
CONSTANTS
  World = 2
  NHca = 1
  Threads = 1
  MaxBlocks = 2
  MaxOps = 2
  MaxPacks = 3
  SeqMod = 8
  CtrMod = 4
  SendLimit = 1
  Faulty = {0}
  MaxFaults = 1
  MaxStops = 1
  CanTimeout = TRUE
  CanClose = TRUE
  Packs <- MCPacks
  Grid <- MCGrid
INVARIANT FreshResult
PROPERTY FailStop
PROPERTY Implements
