SPECIFICATION Spec
CONSTANTS
  World = 3
  NHca = 1
  Threads = 1
  MaxBlocks = 1
  MaxOps = 4
  MaxPacks = 3
  SeqMod = 8
  CtrMod = 4
  SendLimit = 1
  Faulty = {0}
  MaxFaults = 0
  MaxStops = 1
  CanTimeout = FALSE
  CanClose = FALSE
  Packs <- MCPacks
  Grid <- MCGrid
INVARIANT SendSlotIntact
INVARIANT Lockstep
INVARIANT DoorbellBound
CHECK_DEADLOCK FALSE
