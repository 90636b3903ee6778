SPECIFICATION Spec
CONSTANTS
  WordBits = 1
  VRegs = {r0, r1, r2}
  regpref <- ThreeRegs
  MaxBlk = 3
  MaxInline = 0
  Platters <- Inside
SYMMETRY Symmetry
VIEW View
INVARIANTS Coherent HandsOver
PROPERTY ImplementsUM
CHECK_DEADLOCK FALSE
