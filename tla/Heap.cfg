SPECIFICATION FairSpec
CONSTANTS
  Slab = 5
  GrowDiv = 2
  Lens <- Ends
  Inlined = 2
  SubTwice = 0
  Slots <- FourSlots
  MaxLive = 2
INVARIANTS TypeOK NoOverlap HoldsLinks Primed
PROPERTY ImplementsHeap
INVARIANT NoLeak
PROPERTY AllocReturns
CHECK_DEADLOCK FALSE
