CONSTANTS
  UE = {0, 1, 2}
  Programs <- AllPrograms
SPECIFICATION FairSpec
INVARIANTS
  ResultsCorrect
PROPERTIES
  ProgramsEnd
CHECK_DEADLOCK FALSE
