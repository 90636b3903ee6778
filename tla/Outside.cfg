SPECIFICATION Spec
CONSTANTS
  WordBits = 1
  VRegs = {r0, r1, r2}
  regpref <- ThreeRegs
  MaxBlk = 2
  MaxInline = 0
  Platters <- Outside
SYMMETRY Symmetry
VIEW View
INVARIANTS HandsOver StaysInline
PROPERTY ImplementsUM
CHECK_DEADLOCK FALSE
