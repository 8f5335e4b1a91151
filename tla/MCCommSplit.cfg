\* Three UEs, programs of up to six collective calls.
CONSTANTS
  NP = 3
  Scripts <- EvenScripts
SPECIFICATION FairSpec
INVARIANTS
  CallsSynchronise
PROPERTIES
  ProgramTerminates
