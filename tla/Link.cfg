SPECIFICATION FairSpec
CONSTANTS
  Images <- LinkImages
  Insns <- LinkInsns
  Facts <- OneFact
  MaxLen = 3
  MaxBlk = 2
  MaxCode = 3
INVARIANTS NeverAborts WriteProtectExact NoHiddenBlock BareStoresSafe TableFresh
PROPERTY AlwaysResumes
CHECK_DEADLOCK FALSE
