SPECIFICATION Spec
CONSTANTS
  Images <- PlainImages
  Insns <- PlainInsns
  Facts <- OneFact
  MaxLen = 3
  MaxBlk = 2
  MaxCode = 4
INVARIANTS TypeOK NoDangling
INVARIANTS Coherent LinksAreDeps
PROPERTY ImplementsUM
CHECK_DEADLOCK FALSE
