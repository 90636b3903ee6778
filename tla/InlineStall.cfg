SPECIFICATION FairSpec
CONSTANTS
  Slab = 12
  GrowDiv = 1
  Lens <- Least
  Inlined = 2
  SubTwice = 4
  Slots <- TwoSlots
  MaxLive = 3
PROPERTY AllocReturns
CHECK_DEADLOCK FALSE
