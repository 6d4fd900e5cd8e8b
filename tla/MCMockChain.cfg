CONSTANTS
  GenesisSlot = 0
  Slots = {1, 2}
  Confirms = {0}
  MaxBlocks = 6
  MaxTrxs = 1
INIT Init
NEXT Next
CHECK_DEADLOCK FALSE
INVARIANT ForkDbRooted
INVARIANT TypeOK
PROPERTY ChainRefinement
