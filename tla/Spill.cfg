SPECIFICATION Spec
CONSTANTS
  WordBits = 1
  VRegs = {r0, r1, r2, r3}
  regpref <- ThreeRegs
  MaxBlk = 3
  MaxInline = 0
  Platters <- Pressure
SYMMETRY Symmetry
VIEW View
PROPERTY ImplementsUM
CHECK_DEADLOCK FALSE
