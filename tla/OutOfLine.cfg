SPECIFICATION Spec
CONSTANTS
  WordBits = 1
  VRegs = {r0, r1, r2}
  regpref <- ThreeRegs
  MaxBlk = 2
  MaxInline = 0
  Platters <- IndexAny
SYMMETRY Symmetry
VIEW View
INVARIANT Coherent
CHECK_DEADLOCK FALSE
