SPECIFICATION Spec
CONSTANTS
  Images <- LoopImages
  Insns <- LoopInsns
  Facts <- OneFact
  MaxLen = 3
  MaxBlk = 4
  MaxCode = 3
INVARIANTS Coherent
CHECK_DEADLOCK FALSE
