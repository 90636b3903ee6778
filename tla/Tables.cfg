SPECIFICATION Spec
CONSTANTS
  WordBits = 1
  VRegs = {r0, r1, r2}
  regpref <- ThreeRegs
  MaxBlk = 2
  MaxInline = 0
  Platters <- Hard
SYMMETRY Symmetry
VIEW View
INVARIANTS TypeOK OneToOne AssertsHold
CHECK_DEADLOCK FALSE
