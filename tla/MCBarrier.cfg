\* Five UEs (the root and four others) pass four barriers each: both phases of
\* the flags occur, and both return.
CONSTANTS
  N = 5
  MaxRounds = 4
SPECIFICATION FairSpec
INVARIANTS
  NobodyLeavesEarly
  PhaseInv
PROPERTIES
  SyncFairSpec
